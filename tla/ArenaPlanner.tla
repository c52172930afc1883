----------------------------- MODULE ArenaPlanner -----------------------------
(***************************************************************************)
(* Planning a round of the magic arena on a phone (MagicArenaLayout.tsx):  *)
(* the search for the shortest way a figure can go, and the draft of one   *)
(* action per slot while plans that were sent come back late.              *)
(*                                                                         *)
(* Fields are axial coordinates.  Of the actions there are a move, a punch *)
(* at a target, a dig without one and one sprint card.  The game, outside  *)
(* this repository, keeps the last plan of each slot.                      *)
(***************************************************************************)
EXTENDS Integers, Sequences, SequencesExt, FiniteSets, FiniteSetsExt

CONSTANTS
  Board,         \* the fields of the board
  Home,          \* where each figure stands
  Slots,         \* ownPlayer.requiredSlots
  MaxHoles, MaxConfirms, MaxPicks   \* bounds of the model

Figure == DOMAIN Home
Nobody == "nobody"
NoField == <<>>
Mode == {"move", "punch", "dig", "sprint"}

VARIABLES
  holes,      \* fields of the board that no longer exist
  slotIndex,  \* slotIndex
  figureId,   \* figureId
  plan,       \* mode
  way,        \* path
  target,     \* targetCoord
  ownPlans,   \* the plans the phone has been told of, by slot
  onTheWay,   \* plans sent and not told of yet
  clashing,   \* history: drafted while a plan was on its way, or for another slot
  confirms, slotPicks

draft == <<slotIndex, figureId, plan, way, target>>
vars  == <<holes, draft, ownPlans, onTheWay, clashing, confirms, slotPicks>>

-----------------------------------------------------------------------------
(* The board.                                                              *)

HexDirections == <<<<1, 0>>, <<1, -1>>, <<0, -1>>, <<-1, 0>>, <<-1, 1>>, <<0, 1>>>>

AddCoords(a, b) == <<a[1] + b[1], a[2] + b[2]>>

GetNeighbors(field) == [i \in DOMAIN HexDirections |-> AddCoords(field, HexDirections[i])]

Distance(n) == IF n < 0 THEN -n ELSE n

HexDistance(a, b) ==
  (Distance(a[1] - b[1]) + Distance(a[2] - b[2]) + Distance(a[1] + a[2] - b[1] - b[2])) \div 2

Open(field) == field \in Board \ holes /\ \A f \in Figure : Home[f] # field

\* Mutant: a field that is occupied or missing is gone through.
VisitAnything(search, near, from, to) ==
  IF search.found # <<>> \/ near \in search.visited THEN search
  ELSE IF near = to THEN [search EXCEPT !.found = Append(from.way, near)]
  ELSE [search EXCEPT !.visited = @ \cup {near},
                      !.queue = Append(@, [at |-> near, way |-> Append(from.way, near)])]

\* One neighbour of the field that is expanded.
Visit(search, near, from, to) ==
  IF search.found # <<>> \/ near \in search.visited \/ ~Open(near) THEN search
  ELSE IF near = to THEN [search EXCEPT !.found = Append(from.way, near)]
  ELSE [search EXCEPT !.visited = @ \cup {near},
                      !.queue = Append(@, [at |-> near, way |-> Append(from.way, near)])]

\* The search after each of the neighbours of the field that is expanded.
Visits(search, from, to) ==
  LET after[i \in 0..6] ==
        IF i = 0 THEN search ELSE Visit(after[i - 1], GetNeighbors(from.at)[i], from, to)
  IN  after

\* The index-th turn of the loop over the queue.
Expand(search, index, to, limit) ==
  IF search.found # <<>> \/ index > Len(search.queue) \/ Len(search.queue[index].way) >= limit
  THEN search
  ELSE Visits(search, search.queue[index], to)[6]

\* The search after each turn; no field is queued twice, so that there are no more turns than fields.
Turns(from, to, limit) ==
  LET turn[n \in 0..Cardinality(Board)] ==
        IF n = 0
        THEN [visited |-> {from}, queue |-> <<[at |-> from, way |-> <<>>]>>, found |-> <<>>]
        ELSE Expand(turn[n - 1], n, to, limit)
  IN  turn

FindShortestMovePath(from, to, limit) ==
  IF from = to \/ limit = 0 THEN <<>> ELSE Turns(from, to, limit)[Cardinality(Board)].found

-----------------------------------------------------------------------------
(* The draft.                                                              *)

PathLimit(m) == IF m = "move" THEN 2 ELSE IF m = "sprint" THEN 4 ELSE 0

Filled == DOMAIN ownPlans

FindFirstOpenSlot ==
  IF 0..(Slots - 1) \subseteq Filled THEN Slots - 1 ELSE Min((0..(Slots - 1)) \ Filled)

FindNextOpenSlotAfter(slot) ==
  LET open == {i \in 1..Slots : (slot + i) % Slots \notin Filled \cup {slot}}
  IN  IF open = {} THEN slot ELSE (slot + Min(open)) % Slots

\* Mutant: the comparison of slots is turned around.
PlannedHere(f) == \E s \in Filled \cap {slotIndex} : ownPlans[s].figure = f

PlannedElsewhere(f) == \E s \in Filled \ {slotIndex} : ownPlans[s].figure = f

CardReserved == \E s \in Filled \ {slotIndex} : ownPlans[s].mode = "sprint"

ResetTargets(m) == plan' = m /\ way' = <<>> /\ target' = NoField

SelectFigure(f) == figureId' = f /\ way' = <<>> /\ target' = NoField /\ UNCHANGED plan

\* Within the bounds: what is drafted after the last plan is never sent.
Drafting == Cardinality(holes) <= MaxHoles /\ confirms < MaxConfirms /\ UNCHANGED <<holes, ownPlans>>

Init ==
  /\ holes \in SUBSET (Board \ {Home[f] : f \in Figure})
  /\ slotIndex = 0 /\ figureId = Nobody /\ plan = "move" /\ way = <<>> /\ target = NoField
  /\ ownPlans = <<>> /\ onTheWay = <<>> /\ clashing = FALSE
  /\ confirms = 0 /\ slotPicks = 0

\* The button of a slot: the draft goes along to it.
PickSlot(s) ==
  /\ Drafting /\ s # slotIndex /\ slotPicks < MaxPicks
  /\ slotPicks' = slotPicks + 1
  /\ slotIndex' = s
  /\ clashing' = (clashing \/ figureId # Nobody \/ plan # "move" \/ onTheWay # <<>>)
  /\ UNCHANGED <<figureId, plan, way, target, onTheWay, confirms>>

PickMode(m) ==
  /\ Drafting /\ (m = "sprint" => ~CardReserved) /\ ResetTargets(m)
  /\ clashing' = (clashing \/ onTheWay # <<>>)
  /\ UNCHANGED <<slotIndex, figureId, onTheWay, confirms, slotPicks>>

\* handleCellPress on a field with an own figure.
PressFigure(f) ==
  /\ Drafting /\ f # figureId /\ ~PlannedElsewhere(f)
  /\ figureId = Nobody \/ (way = <<>> /\ target = NoField)
  /\ SelectFigure(f)
  /\ clashing' = (clashing \/ onTheWay # <<>>)
  /\ UNCHANGED <<slotIndex, onTheWay, confirms, slotPicks>>

\* handleCellPress on any other field, with a figure selected.
PressField(field) ==
  /\ Drafting /\ figureId # Nobody
  /\ \A f \in Figure \ {figureId} : Home[f] = field => PlannedElsewhere(f) \/ way # <<>> \/ target # NoField
  /\ LET found == FindShortestMovePath(Home[figureId], field, PathLimit(plan)) IN
     \/ /\ PathLimit(plan) > 0 /\ target' = target
        /\ IF way # <<>> /\ Last(way) = field THEN way' = <<>> ELSE found # <<>> /\ way' = found
     \/ plan = "punch" /\ HexDistance(Home[figureId], field) <= 1 /\ target' = field /\ way' = way
  /\ UNCHANGED <<slotIndex, figureId, plan, onTheWay, clashing, confirms, slotPicks>>

\* buildDraftAction.
Complete ==
  /\ figureId # Nobody
  /\ PathLimit(plan) > 0 => way # <<>>
  /\ plan = "punch" => target # NoField

\* confirmSlot.
ConfirmSlot ==
  /\ Drafting /\ Complete
  /\ confirms' = confirms + 1
  /\ onTheWay' = Append(onTheWay, [slot |-> slotIndex, figure |-> figureId, mode |-> plan])
  /\ clashing' = (clashing \/ onTheWay # <<>>)
  /\ slotIndex' = FindNextOpenSlotAfter(slotIndex)
  /\ figureId' = Nobody /\ ResetTargets("move")
  /\ UNCHANGED slotPicks

\* A plan comes back from the game.  The effect of initialSlot starts the draft anew.
PlanReturns ==
  /\ onTheWay # <<>> /\ onTheWay' = Tail(onTheWay)
  /\ LET p == Head(onTheWay) IN
     ownPlans' = [s \in Filled \cup {p.slot} |-> IF s = p.slot THEN p ELSE ownPlans[s]]
  /\ IF FindFirstOpenSlot' # FindFirstOpenSlot
     THEN slotIndex' = FindFirstOpenSlot' /\ figureId' = Nobody /\ ResetTargets("move")
     ELSE UNCHANGED draft
  /\ UNCHANGED <<holes, clashing, confirms, slotPicks>>

Next ==
  \/ \E s \in 0..(Slots - 1) : PickSlot(s)
  \/ \E m \in Mode : PickMode(m)
  \/ \E f \in Figure : PressFigure(f)
  \/ \E field \in Board : PressField(field)
  \/ ConfirmSlot \/ PlanReturns

Spec == Init /\ [][Next]_vars

-----------------------------------------------------------------------------
TypeOK ==
  /\ holes \subseteq Board /\ slotIndex \in 0..(Slots - 1)
  /\ figureId \in Figure \cup {Nobody} /\ plan \in Mode
  /\ way \in Seq(Board) /\ target \in Board \cup {NoField}
  /\ \A s \in Filled : s \in 0..(Slots - 1) /\ ownPlans[s].slot = s
  /\ clashing \in BOOLEAN /\ confirms \in 0..MaxConfirms /\ slotPicks \in 0..MaxPicks

Touch(a, b) == HexDistance(a, b) = 1

\* The fields a figure can be on after at most n steps over open fields.
Onwards(reached) == reached \cup {b \in Board : Open(b) /\ \E a \in reached : Touch(a, b)}

Walks(from) == LET reach[n \in 0..4] == IF n = 0 THEN {from} ELSE Onwards(reach[n - 1]) IN reach

Within(from, n) == Walks(from)[n]

\* findShortestMovePath against walking: on every board it finds a way exactly to the fields
\* that can be walked to within the limit, over neighbouring open fields, and none is shorter.
\* A search depends on the board alone, so that looking before anything is drafted is enough.
WaysAreShortest == figureId = Nobody /\ confirms = 0 =>
  \A f \in Figure, to \in Board, limit \in {2, 4} :
    LET from == Home[f]
        found == FindShortestMovePath(from, to, limit)
        steps == <<from>> \o found
    IN  /\ found # <<>> <=> to \in Within(from, limit) \ {from}
        /\ found # <<>> =>
             /\ Last(found) = to /\ to \notin Within(from, Len(found) - 1)
             /\ \A i \in DOMAIN found : Open(found[i]) /\ Touch(steps[i], steps[i + 1])

\* While nothing is drafted over a plan that is still on its way, and no draft is carried to
\* another slot, planning fills slot after slot: no figure acts twice, the card is played once,
\* and the draft is for an open slot as long as there is one.
PlansDoNotClash ==
  ~clashing =>
    /\ \A s, t \in Filled : s # t => /\ ownPlans[s].figure # ownPlans[t].figure
                                     /\ ~(ownPlans[s].mode = "sprint" /\ ownPlans[t].mode = "sprint")
    /\ onTheWay = <<>> /\ slotPicks = 0 /\ Filled # 0..(Slots - 1) => slotIndex \notin Filled
=============================================================================
