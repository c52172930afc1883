----------------------------- MODULE PlayerSetup -----------------------------
(***************************************************************************)
(* The choice every player makes before a round, a team for instance, and  *)
(* the rounds that wait for it: playerSetupAssignments.ts,                 *)
(* resolvePlayerSetup.ts, the setup handlers of registerSocketHandlers.ts, *)
(* canStartRound of roomLifecycle.ts and the restart of                    *)
(* roundTimerService.ts.                                                   *)
(*                                                                         *)
(* One game of the registry has a choice setup with assignment "balanced-  *)
(* random" that is visible in one of its modes; the other game has none.   *)
(* What a game reads beside the stored choice (selectedCharacterId) is     *)
(* left out.                                                               *)
(***************************************************************************)
EXTENDS Integers, FiniteSets

CONSTANTS
  Player, Option,
  Manifests,                  \* what games may declare
  MinPlayers, MinPerOption,   \* minPlayers, minPlayersPerOption
  MaxRounds                   \* bound of the model

Undefined == "undefined"       \* no choice, no setting
Mode      == {"solo", "team"}

VARIABLES
  manifest,   \* what the game declares
  mode,       \* the room's setting of the game
  selected,   \* selectedGameId
  players,
  choice,     \* setupSelectionsByGameId[game][key]
  isReady,
  round,      \* "none", "active", "finished"
  continues,  \* shouldContinueRun of the finished round
  rounds      \* roundCounter

vars == <<manifest, mode, selected, players, choice, isReady, round, continues, rounds>>
setting == <<manifest, mode, selected>>
phase == <<round, continues, rounds>>

\* The default of the setting, whether a choice is required, roundCompletionMode "wait_for_ready".
Manifest == [default : Mode, required : BOOLEAN, waits : BOOLEAN]
Answers  == {"yes", "no", "none"}   \* "none": the game has no such hook

Init ==
  /\ manifest \in Manifests /\ mode = Undefined /\ selected = "none" /\ players = {}
  /\ choice = [p \in Player |-> Undefined] /\ isReady = [p \in Player |-> FALSE]
  /\ round = "none" /\ continues = "none" /\ rounds = 0

-----------------------------------------------------------------------------
(* resolvePlayerSetup and assignPlayerSetup.                               *)

\* resolvePlayerSetup: the setting, or the manifest's default, is the visible mode.
Visible(settings) == (IF settings = Undefined THEN manifest.default ELSE settings) = "team"

HasSetup(g, settings) == g = "teams" /\ Visible(settings)

Count(c, ps, o) == Cardinality({p \in ps : c[p] = o})
Fewest(c, ps) == {o \in Option : \A x \in Option : Count(c, ps, o) <= Count(c, ps, x)}

\* Every choice the waiting players can be given: one after another, in an order chosen at
\* random, an option that has fewest players so far.
Dealt(c, ps, waiting) ==
  LET deal[W \in SUBSET waiting] ==
        IF W = {} THEN {[p \in Player |-> IF p \in waiting THEN Undefined ELSE c[p]]}
        ELSE UNION {UNION {{[d EXCEPT ![p] = o] : o \in Fewest(d, ps)} : d \in deal[W \ {p}]} :
                    p \in W}
  IN deal[waiting]

\* Mutant: everybody is dealt a choice again.
AssignedAnew(c, ps, g, settings, r) ==
  IF HasSetup(g, settings) /\ r # "active" THEN Dealt(c, ps, ps) ELSE {c}

\* assignPlayerSetup, which every snapshot of the room begins with (createRoomSnapshot).
Assigned(c, ps, g, settings, r) ==
  IF HasSetup(g, settings) /\ r # "active"
    THEN Dealt(c, ps, {p \in ps : c[p] \notin Option}) ELSE {c}

-----------------------------------------------------------------------------
(* canStartRound and the paths into a round.                               *)

\* areRequiredPlayerSetupChoicesSelected, for the setup a caller has resolved.
ChoicesMade(c, hasSetup) ==
  hasSetup => /\ \A o \in Option : Count(c, players, o) >= MinPerOption
              /\ manifest.required => \A p \in players : c[p] \in Option

CanStartRound(r, c, ready, hasSetup) ==
  /\ r # "active" /\ players # {}
  /\ \A p \in players : ready[p]
  /\ ChoicesMade(c, hasSetup)
  /\ Cardinality(players) >= MinPlayers

NoneReady == [p \in Player |-> FALSE]

\* startReadyLockedRound.
StartRound(ready) ==
  /\ rounds < MaxRounds
  /\ round' = "active" /\ continues' = "none" /\ rounds' = rounds + 1
  /\ isReady' = IF manifest.waits THEN NoneReady ELSE ready

\* maybeAutoStartReadyRound, at the end of a handler that left the round r and these values.
MaybeAutoStart(r, c, ready, g, settings) ==
  IF /\ g # "none" /\ manifest.waits
     /\ ~(r = "finished" /\ continues = "no")
     /\ CanStartRound(r, c, ready, HasSetup(g, settings))
    THEN StartRound(ready)
    ELSE /\ isReady' = ready /\ round' = r /\ UNCHANGED rounds
         /\ continues' = IF r = "none" THEN "none" ELSE continues

-----------------------------------------------------------------------------
(* The handlers.                                                           *)

\* room:join of a new player; the snapshot that answers it deals a choice.
Join(p) ==
  /\ p \notin players
  /\ players' = players \cup {p}
  /\ isReady' = [isReady EXCEPT ![p] = FALSE]
  /\ choice' \in Assigned([choice EXCEPT ![p] = Undefined], players', selected, mode, round)
  /\ UNCHANGED <<setting, phase>>

\* room:leave and player:kick.
Remove(p) ==
  /\ p \in players /\ round # "active"
  /\ players' = players \ {p}
  /\ choice' \in Assigned([choice EXCEPT ![p] = Undefined], players', selected, mode, round)
  /\ isReady' = [isReady EXCEPT ![p] = FALSE]
  /\ UNCHANGED <<setting, phase>>

\* player:ready.
SetReady(p) ==
  /\ p \in players
  /\ choice' \in Assigned(choice, players, selected, mode, round)
  /\ \E b \in BOOLEAN : MaybeAutoStart(round, choice', [isReady EXCEPT ![p] = b], selected, mode)
  /\ UNCHANGED <<setting, players>>

\* player:select-character keeps the player ready, player:set-setup does not.
Choose(p, o, keepsReady) ==
  /\ p \in players /\ round # "active" /\ HasSetup(selected, mode)
  /\ \E dealt \in Assigned(choice, players, selected, mode, round) :
       choice' = [dealt EXCEPT ![p] = o]
  /\ MaybeAutoStart(round, choice', [isReady EXCEPT ![p] = keepsReady /\ @], selected, mode)
  /\ UNCHANGED <<setting, players>>

SetPlayerSetup(p) == \E o \in Option, keepsReady \in BOOLEAN : Choose(p, o, keepsReady)

\* game:select; the round in hand is given up first.
SelectGame(g) ==
  /\ selected' = g
  /\ choice' \in Assigned(choice, players, g, mode, "none")
  /\ MaybeAutoStart("none", choice', isReady, g, mode)
  /\ UNCHANGED <<manifest, mode, players>>

\* game:host-action: the game answers with a new setting of the room.
SetMode(m) ==
  /\ selected = "teams"
  /\ mode' = m
  /\ choice' \in Assigned(choice, players, selected, m, round)
  /\ MaybeAutoStart(round, choice', isReady, selected, m)
  /\ UNCHANGED <<manifest, selected, players>>

\* game:host-action "shuffle-player-setup".
Shuffle ==
  /\ round # "active" /\ HasSetup(selected, mode)
  /\ choice' \in Dealt(choice, players, players)
  /\ isReady' = NoneReady
  /\ UNCHANGED <<setting, players, phase>>

\* round:start, for a game that does not wait for everybody.
HostStart ==
  /\ selected # "none" /\ ~manifest.waits
  /\ choice' \in Assigned(choice, players, selected, mode, round)
  /\ CanStartRound(round, choice', isReady, HasSetup(selected, mode))
  /\ StartRound(isReady)
  /\ UNCHANGED <<setting, players>>

\* round:abort.
AbortRound ==
  /\ round # "none"
  /\ round' = "none" /\ continues' = "none"
  /\ choice' \in Assigned(choice, players, selected, mode, "none")
  /\ UNCHANGED <<setting, players, isReady, rounds>>

-----------------------------------------------------------------------------
(* The round timer.                                                        *)

\* The tick that finds a round finished resolves its game without the room's settings
\* (getAvailableGame with one argument) and deals nobody a choice first.
RoundFinishes ==
  /\ round = "active"
  /\ \E answer \in Answers :
       IF manifest.waits /\ answer = "yes"
            /\ CanStartRound("finished", choice, isReady, HasSetup(selected, Undefined))
         THEN StartRound(isReady)
         ELSE /\ round' = "finished" /\ continues' = answer /\ UNCHANGED rounds
              /\ isReady' = IF manifest.waits /\ answer # "yes" THEN NoneReady ELSE isReady
  /\ choice' \in Assigned(choice, players, selected, mode, round')
  /\ UNCHANGED <<setting, players>>

Next ==
  \/ \E p \in Player : Join(p) \/ Remove(p) \/ SetReady(p) \/ SetPlayerSetup(p)
  \/ \E g \in {"none", "teams", "plain"} : SelectGame(g)
  \/ \E m \in Mode : SetMode(m)
  \/ Shuffle \/ HostStart \/ AbortRound \/ RoundFinishes

Spec == Init /\ [][Next]_vars

-----------------------------------------------------------------------------
TypeOK ==
  /\ manifest \in Manifests \cap Manifest /\ mode \in Mode \cup {Undefined}
  /\ selected \in {"none", "teams", "plain"} /\ players \subseteq Player
  /\ choice \in [Player -> Option \cup {Undefined}] /\ isReady \in [Player -> BOOLEAN]
  /\ round \in {"none", "active", "finished"} /\ continues \in Answers
  /\ rounds \in 0..MaxRounds

\* A choice somebody has is changed by nobody else, except when everything is dealt again on
\* request; and whoever is dealt one joins an option that was not ahead of the others
\* (playerSetupAssignments.ts 4-30, "Existing choices (including reconnects) stay intact").
Kept(p) == p \in players \cap players' /\ choice[p] \in Option => choice'[p] = choice[p]

Joined(o) == \E p \in players' : choice'[p] = o /\ (p \notin players \/ choice[p] # o)

EvenlyJoined ==
  \A o, x \in Option : Joined(o) => Count(choice', players', o) <= Count(choice', players', x) + 1

ChosenByHand == \E p \in Player : SetPlayerSetup(p)

AssignmentIsGentle ==
  [][/\ \A p \in Player : Kept(p) \/ SetPlayerSetup(p) \/ Shuffle
     /\ EvenlyJoined \/ ChosenByHand]_vars

\* "Hidden player setup does not block readiness" (docs/minigame-sdk.md 124-125): when the run
\* of a game goes on and everybody is ready, a setup that the room's settings hide does not keep
\* the next round from starting.
EnoughPlayers == players # {} /\ Cardinality(players) >= MinPlayers /\ rounds < MaxRounds

HiddenSetupBlocksNobody ==
  [][/\ RoundFinishes /\ round' = "finished" /\ continues' = "yes" /\ manifest.waits
     /\ ~HasSetup(selected, mode)
     => ~EnoughPlayers \/ \E p \in players : ~isReady[p]]_vars
=============================================================================
