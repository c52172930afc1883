---------------------------- MODULE DrawingBoard ----------------------------
(***************************************************************************)
(* Drawing on a phone (DrawingGuessLayout.tsx) onto the board the server   *)
(* keeps (drawing.ts).  Ink is painted at once on a layer of the phone and *)
(* given up when the board is seen to have it; a cleared drawing is hidden *)
(* until the board is.                                                     *)
(*                                                                         *)
(* A stroke is the number of its start and has so many points, 0 for none; *)
(* the server's ids and the client's name the same strokes.  The card a    *)
(* message belongs to is authenticated by the game, as drawing.ts asks of  *)
(* its caller.                                                             *)
(***************************************************************************)
EXTENDS Integers, Sequences, FiniteSets

CONSTANTS
  StrokeLimit, PointLimit,                                    \* 250 and 1500 in the code
  MaxStrokes, MaxPoints, MaxCards, MaxOutages, MaxRotations, MaxClears   \* bounds of the model

Stroke  == 1..MaxStrokes
Nothing == 0
Blank   == [s \in Stroke |-> Nothing]

VARIABLES
  card, strokes, activeStrokeId,       \* the server's DrawingBoard, of this card
  linked, wire,                        \* inputs on their way, in order
  resetKey, model,                     \* the card and the strokes the phone was last shown
  pendingStrokes, ended, pen,          \* pendingStrokes and activePointer
  hiddenStrokes,                       \* hiddenStrokeIds and hiddenClientIds
  begun,
  drawn,       \* history: what was drawn on the card since it was last cleared
  refused,     \* history: strokes that went past a limit of the board
  lost,        \* history: an input of this drawing was lost in an outage
  turned,      \* history: the phone was turned and has not seen the board settle since
  cuts, rotations, clears

board == <<card, strokes, activeStrokeId, refused>>
phone == <<resetKey, model, pendingStrokes, ended, pen, hiddenStrokes, begun, drawn, turned>>
net   == <<linked, wire, lost>>
vars  == <<board, phone, net, cuts, rotations, clears>>

Init ==
  /\ card = 1 /\ strokes = Blank /\ activeStrokeId = Nothing /\ refused = {}
  /\ linked = TRUE /\ wire = <<>> /\ lost = FALSE
  /\ resetKey = 1 /\ model = Blank /\ pendingStrokes = Blank /\ ended = {} /\ pen = Nothing
  /\ hiddenStrokes = {} /\ begun = 0 /\ drawn = Blank /\ turned = FALSE
  /\ cuts = 0 /\ rotations = 0 /\ clears = 0

-----------------------------------------------------------------------------
(* The phone.                                                              *)

Input(kind, s) == [kind |-> kind, stroke |-> s, card |-> resetKey]

\* sendInput: nothing leaves a phone that is not connected.
Send(inputs) ==
  IF linked THEN wire' = wire \o inputs /\ UNCHANGED <<linked, lost>>
            ELSE lost' = (lost \/ inputs # <<>>) /\ UNCHANGED <<linked, wire>>

PenDown ==
  /\ pen = Nothing /\ begun < MaxStrokes
  /\ begun' = begun + 1 /\ pen' = begun'
  /\ pendingStrokes' = [pendingStrokes EXCEPT ![pen'] = 1] /\ drawn' = [drawn EXCEPT ![pen'] = 1]
  /\ Send(<<Input("draw:start", pen')>>)
  /\ UNCHANGED <<board, resetKey, model, ended, hiddenStrokes, turned, cuts, rotations, clears>>

\* appendPoint.
PenMove ==
  /\ pen # Nothing /\ pendingStrokes[pen] \in 1..(MaxPoints - 1)
  /\ pendingStrokes' = [pendingStrokes EXCEPT ![pen] = @ + 1] /\ drawn' = [drawn EXCEPT ![pen] = @ + 1]
  /\ Send(<<Input("draw:move", pen)>>)
  /\ UNCHANGED <<board, resetKey, model, ended, pen, hiddenStrokes, begun, turned, cuts, rotations,
                 clears>>

EndInput == IF pen = Nothing THEN <<>> ELSE <<Input("draw:end", pen)>>

\* finishStroke; a blurred window ends the stroke too.
PenUp ==
  /\ pen # Nothing
  /\ ended' = ended \cup {pen} /\ pen' = Nothing
  /\ Send(EndInput)
  /\ UNCHANGED <<board, resetKey, model, pendingStrokes, hiddenStrokes, begun, drawn, turned, cuts,
                 rotations, clears>>

Inked(picture) == {s \in Stroke : picture[s] # Nothing}

\* clearDrawing.
ClearDrawing ==
  /\ clears < MaxClears
  /\ clears' = clears + 1
  /\ hiddenStrokes' = hiddenStrokes \cup Inked(model) \cup Inked(pendingStrokes)
  /\ pendingStrokes' = Blank /\ ended' = {} /\ pen' = Nothing /\ drawn' = Blank
  /\ IF linked
       THEN wire' = wire \o EndInput \o <<Input("draw:clear", Nothing)>> /\ lost' = FALSE
       ELSE lost' = TRUE /\ UNCHANGED wire
  /\ UNCHANGED <<board, resetKey, model, begun, turned, linked, cuts, rotations>>

\* The effect on the orientation forgets the phone's own layer.
Rotate ==
  /\ rotations < MaxRotations
  /\ rotations' = rotations + 1
  /\ Send(EndInput)
  /\ pendingStrokes' = Blank /\ ended' = {} /\ pen' = Nothing /\ hiddenStrokes' = {}
  /\ turned' = TRUE
  /\ UNCHANGED <<board, resetKey, model, begun, drawn, cuts, clears>>

\* Mutant: a stroke is given up as soon as the board has some of it.
ConfirmedInPart(s) == s \in ended /\ strokes[s] # Nothing

\* The effect on model.strokes: the board has every point of a stroke that is over.
Confirmed(s) == s \in ended /\ strokes[s] # Nothing /\ strokes[s] >= pendingStrokes[s]

\* A snapshot of the board; one of another card starts the phone's own layer afresh.
Snapshot ==
  /\ linked
  /\ resetKey' = card /\ model' = strokes
  /\ IF card = resetKey
       THEN /\ pendingStrokes' = [s \in Stroke |-> IF Confirmed(s) THEN Nothing
                                                         ELSE pendingStrokes[s]]
            /\ ended' = {s \in ended : ~Confirmed(s)}
            /\ turned' = (turned /\ (wire # <<>> \/ refused # {}))
            /\ UNCHANGED <<net, pen, hiddenStrokes, drawn>>
       ELSE /\ pendingStrokes' = Blank /\ ended' = {} /\ pen' = Nothing
            /\ hiddenStrokes' = {} /\ drawn' = Blank
            /\ turned' = FALSE /\ lost' = FALSE
            /\ wire' = wire \o EndInput
            /\ UNCHANGED linked
  /\ UNCHANGED <<board, begun, cuts, rotations, clears>>

-----------------------------------------------------------------------------
(* The server: applyDrawingInput, for inputs of its card.                  *)

Start(s) ==
  IF Cardinality(Inked(strokes)) >= StrokeLimit
    THEN refused' = refused \cup {s} /\ UNCHANGED <<strokes, activeStrokeId>>
    ELSE /\ strokes' = [strokes EXCEPT ![s] = 1] /\ activeStrokeId' = s
         /\ UNCHANGED refused

Move(s) ==
  /\ IF activeStrokeId = Nothing \/ strokes[activeStrokeId] >= PointLimit
       THEN refused' = refused \cup {s} /\ UNCHANGED strokes
       ELSE strokes' = [strokes EXCEPT ![activeStrokeId] = @ + 1] /\ UNCHANGED refused
  /\ UNCHANGED activeStrokeId

Clear == strokes' = Blank /\ activeStrokeId' = Nothing /\ UNCHANGED refused

Apply(input) ==
  \/ input.kind = "draw:start" /\ Start(input.stroke)
  \/ input.kind = "draw:move" /\ Move(input.stroke)
  \/ input.kind = "draw:end" /\ activeStrokeId' = Nothing /\ UNCHANGED <<strokes, refused>>
  \/ input.kind = "draw:clear" /\ Clear

Handle ==
  /\ wire # <<>>
  /\ wire' = Tail(wire)
  /\ IF Head(wire).card = card THEN Apply(Head(wire))
                               ELSE UNCHANGED <<strokes, activeStrokeId, refused>>
  /\ UNCHANGED <<card, linked, lost, phone, cuts, rotations, clears>>

NextCard ==
  /\ card < MaxCards
  /\ card' = card + 1 /\ strokes' = Blank /\ activeStrokeId' = Nothing /\ refused' = {}
  /\ UNCHANGED <<phone, net, cuts, rotations, clears>>

LoseConnection ==
  /\ linked /\ cuts < MaxOutages
  /\ cuts' = cuts + 1
  /\ linked' = FALSE /\ wire' = <<>> /\ lost' = (lost \/ wire # <<>>)
  /\ UNCHANGED <<board, phone, rotations, clears>>

Reconnect ==
  /\ ~linked
  /\ linked' = TRUE
  /\ UNCHANGED <<board, phone, wire, lost, cuts, rotations, clears>>

Next ==
  \/ PenDown \/ PenMove \/ PenUp \/ ClearDrawing \/ Rotate \/ Snapshot
  \/ Handle \/ NextCard \/ LoseConnection \/ Reconnect

Spec == Init /\ [][Next]_vars

-----------------------------------------------------------------------------
Points(limit) == [Stroke -> 0..limit]

TypeOK ==
  /\ card \in 1..MaxCards /\ {strokes, model} \subseteq Points(PointLimit) /\ activeStrokeId \in Stroke \cup {Nothing}
  /\ {linked, lost, turned} \subseteq BOOLEAN
  /\ resetKey \in 1..MaxCards /\ {pendingStrokes, drawn} \subseteq Points(MaxPoints)
  /\ ended \subseteq Stroke /\ pen \in Stroke \cup {Nothing} /\ hiddenStrokes \subseteq Stroke
  /\ refused \subseteq Stroke /\ begun \in 0..MaxStrokes

\* What the phone paints: the board as it knows it, less what is hidden, under its own layer.
Painted(s) ==
  LET confirmed == IF s \in hiddenStrokes THEN Nothing ELSE model[s]
  IN IF pendingStrokes[s] > confirmed THEN pendingStrokes[s] ELSE confirmed

\* The phone shows what was drawn on the card and not cleared, at every moment and however late
\* the board follows (DrawingGuessLayout.tsx 46-67, 158-168, 300-306); a phone that has just been
\* turned, or an outage, is excused.
InkIsShown == ~lost /\ ~turned => \A s \in Stroke : Painted(s) = drawn[s]

\* When everything has arrived the board is the drawing, less what its limits refused
\* (drawing.ts 16-38).
Settled == linked /\ ~lost /\ wire = <<>> /\ resetKey = card

BoardIsTheDrawing == Settled => \A s \in Stroke \ refused : strokes[s] = drawn[s]

StrokesSettle == InkIsShown /\ BoardIsTheDrawing
=============================================================================
