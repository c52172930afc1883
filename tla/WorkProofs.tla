------------------------------ MODULE WorkProofs ------------------------------
(***************************************************************************)
(* The work of a player's hands: the choices that are dealt, the drawing   *)
(* and the plans, for every number of players, strokes, points, slots and  *)
(* fields.  Theorems about the instances of Pages, and the invariants they *)
(* rest on.                                                                *)
(*                                                                         *)
(* Dealing, searching and walking are recursive functions.  What they      *)
(* compute is shown by induction over a set of numbers (SetInduction),     *)
(* first that there is such a function, then what its values are.          *)
(***************************************************************************)
EXTENDS Pages, FiniteSetTheorems, SequenceTheorems, WellFoundedInduction, TLAPS

-----------------------------------------------------------------------------
(* Sets of numbers.                                                        *)

\* A set of numbers has a smallest one.
LEMMA Smallest ==
  ASSUME NEW T \in SUBSET Nat, T # {}
  PROVE  \E m \in T : \A y \in T : m <= y
<1> DEFINE R == OpToRel(<, Nat)
<1>1. IsWellFoundedOn(R, Nat)
  BY NatLessThanWellFounded
<1>2. \A x, y \in Nat : <<y, x>> \in R <=> y < x
  BY DEF OpToRel
<1> HIDE DEF R
<1>3. PICK m \in T : \A y \in T : ~(<<y, m>> \in R)
  BY <1>1, WFMin
<1>4. \A y \in T : ~(y < m)
  BY <1>2, <1>3
<1>5. m \in Nat /\ \A y \in T : y \in Nat
  OBVIOUS
<1>6. \A y \in T : m <= y
  BY <1>4, <1>5
<1> QED BY <1>6

\* A set with 0 and with the successors of its numbers has all numbers.
LEMMA SetInduction ==
  ASSUME NEW S, 0 \in S, \A n \in Nat : n \in S => n + 1 \in S
  PROVE  \A n \in Nat : n \in S
<1> DEFINE T == {n \in Nat : n \notin S}
<1> SUFFICES ASSUME T # {} PROVE FALSE
  OBVIOUS
<1>1. T \in SUBSET Nat
  OBVIOUS
<1>2. \A n : n \in T <=> n \in Nat /\ n \notin S
  OBVIOUS
<1> HIDE DEF T
<1>3. PICK m \in T : \A y \in T : m <= y
  BY <1>1, Smallest
<1>4. m \in Nat /\ m \notin S /\ m # 0
  BY <1>2, <1>3
<1>5. m - 1 \in Nat /\ ~(m <= m - 1) /\ (m - 1) + 1 = m
  BY <1>4
<1>6. m - 1 \in S
  BY <1>2, <1>3, <1>5
<1> QED BY <1>4, <1>5, <1>6

-----------------------------------------------------------------------------
(* Dealing choices.                                                        *)

\* The choices before anybody has been dealt one.
Bare(c, unserved) == [p \in Player |-> IF p \in unserved THEN Setup!Undefined ELSE c[p]]

\* Player p is dealt a choice on top of those in D.
Handed(D, ps, p) == UNION {{[d EXCEPT ![p] = o] : o \in Setup!Fewest(d, ps)} : d \in D}

\* What has been dealt to W, when deal is what has been dealt to fewer.
DealtTo(c, ps, unserved, deal, W) ==
  IF W = {} THEN {Bare(c, unserved)}
  ELSE UNION {Handed(deal[W \ {p}], ps, p) : p \in W}

Few(unserved, n) == {W \in SUBSET unserved : Cardinality(W) <= n}

\* There is a deal for everybody, however many they are.
LEMMA DealExists ==
  ASSUME NEW c, NEW ps, NEW unserved, IsFiniteSet(unserved)
  PROVE  \E deal : deal = [W \in SUBSET unserved |-> DealtTo(c, ps, unserved, deal, W)]
<1> DEFINE S == {n \in Nat : \E deal : deal = [W \in Few(unserved, n) |->
                                                 DealtTo(c, ps, unserved, deal, W)]}
<1>1. 0 \in S
  <2> DEFINE deal == [W \in Few(unserved, 0) |-> {Bare(c, unserved)}]
  <2>1. \A W \in Few(unserved, 0) : W = {}
    <3> SUFFICES ASSUME NEW W \in Few(unserved, 0) PROVE W = {}
      OBVIOUS
    <3>1. W \in SUBSET unserved /\ Cardinality(W) <= 0
      BY DEF Few
    <3>2. IsFiniteSet(W)
      BY <3>1, FS_Subset
    <3>3. Cardinality(W) \in Nat
      BY <3>2, FS_CardinalityType
    <3>4. Cardinality(W) = 0
      BY <3>1, <3>3
    <3> QED BY <3>2, <3>4, FS_EmptySet
  <2>2. \A W \in Few(unserved, 0) : deal[W] = DealtTo(c, ps, unserved, deal, W)
    BY <2>1 DEF DealtTo
  <2>3. deal = [W \in Few(unserved, 0) |-> DealtTo(c, ps, unserved, deal, W)]
    BY <2>2
  <2> HIDE DEF deal
  <2> QED BY <2>3
<1>2. ASSUME NEW n \in Nat, n \in S PROVE n + 1 \in S
  <2>1. PICK f : f = [W \in Few(unserved, n) |-> DealtTo(c, ps, unserved, f, W)]
    BY <1>2
  <2> DEFINE deal == [W \in Few(unserved, n + 1) |-> DealtTo(c, ps, unserved, f, W)]
  <2>2. ASSUME NEW W \in Few(unserved, n + 1), NEW p \in W
        PROVE  W \ {p} \in Few(unserved, n) /\ W \ {p} \in Few(unserved, n + 1)
    <3>1. W \in SUBSET unserved /\ Cardinality(W) <= n + 1
      BY DEF Few
    <3>2. IsFiniteSet(W)
      BY <3>1, FS_Subset
    <3>3. Cardinality(W) \in Nat /\ Cardinality(W \ {p}) = Cardinality(W) - 1
      BY <3>2, FS_CardinalityType, FS_RemoveElement
    <3>4. Cardinality(W \ {p}) <= n /\ Cardinality(W \ {p}) <= n + 1
      BY <3>1, <3>3
    <3> QED BY <3>1, <3>4 DEF Few
  <2>3. \A V \in Few(unserved, n) : V \in Few(unserved, n + 1) => deal[V] = f[V]
    <3> SUFFICES ASSUME NEW V \in Few(unserved, n), V \in Few(unserved, n + 1) PROVE deal[V] = f[V]
      OBVIOUS
    <3>1. f[V] = DealtTo(c, ps, unserved, f, V)
      BY <2>1
    <3> QED BY <3>1
  <2>4. ASSUME NEW W \in Few(unserved, n + 1)
        PROVE  DealtTo(c, ps, unserved, deal, W) = DealtTo(c, ps, unserved, f, W)
    <3>1. \A p \in W : deal[W \ {p}] = f[W \ {p}]
      BY <2>2, <2>3
    <3> HIDE DEF deal
    <3> QED BY <3>1 DEF DealtTo
  <2>5. \A W \in Few(unserved, n + 1) : deal[W] = DealtTo(c, ps, unserved, deal, W)
    BY <2>4
  <2>6. deal = [W \in Few(unserved, n + 1) |-> DealtTo(c, ps, unserved, deal, W)]
    BY <2>5
  <2> HIDE DEF deal
  <2> QED BY <2>6
<1>3. \A n \in Nat : n \in S
  <2> HIDE DEF S
  <2> QED BY <1>1, <1>2, SetInduction
<1>4. Cardinality(unserved) \in Nat
  BY FS_CardinalityType
<1>5. Few(unserved, Cardinality(unserved)) = SUBSET unserved
  BY FS_Subset DEF Few
<1> QED BY <1>3, <1>4, <1>5

\* Dealt is such a deal.
LEMMA DealtIsDeal ==
  ASSUME NEW c, NEW ps, NEW unserved, IsFiniteSet(unserved)
  PROVE  \E deal : /\ \A W \in SUBSET unserved : deal[W] = DealtTo(c, ps, unserved, deal, W)
                   /\ Setup!Dealt(c, ps, unserved) = deal[unserved]
<1> DEFINE deal == CHOOSE f : f = [W \in SUBSET unserved |-> DealtTo(c, ps, unserved, f, W)]
<1>1. deal = [W \in SUBSET unserved |-> DealtTo(c, ps, unserved, deal, W)]
  BY DealExists
<1>2. Setup!Dealt(c, ps, unserved) = deal[unserved]
  BY DEF Setup!Dealt, DealtTo, Handed, Bare
<1>3. \A W \in SUBSET unserved : deal[W] = DealtTo(c, ps, unserved, deal, W)
  <2> HIDE DEF deal
  <2> QED BY <1>1
<1> HIDE DEF deal
<1> QED BY <1>2, <1>3

Choices == [Player -> Option \cup {Setup!Undefined}]

\* The instances count sets as FiniteSets does.
LEMMA SameCardinality ==
  \A S : Setup!Cardinality(S) = Cardinality(S) /\ Arena!Cardinality(S) = Cardinality(S)
  BY DEF Setup!Cardinality, Arena!Cardinality, Cardinality

\* Players are counted in numbers.
LEMMA Counts ==
  ASSUME NEW d, NEW ps, IsFiniteSet(ps)
  PROVE  \A x : Setup!Count(d, ps, x) \in Nat
<1> TAKE x
<1>1. IsFiniteSet({p \in ps : d[p] = x})
  BY FS_Subset
<1> QED BY <1>1, FS_CardinalityType, SameCardinality DEF Setup!Count

\* Whoever is dealt option o makes it one larger, and no other option smaller.
LEMMA CountDealt ==
  ASSUME NEW d \in Choices, NEW ps \in SUBSET Player, IsFiniteSet(ps),
         NEW p \in ps, d[p] = Setup!Undefined, NEW o \in Option
  PROVE  LET e == [d EXCEPT ![p] = o]
         IN  /\ Setup!Count(e, ps, o) = Setup!Count(d, ps, o) + 1
             /\ \A x \in Option \ {o} : Setup!Count(e, ps, x) = Setup!Count(d, ps, x)
<1> DEFINE e == [d EXCEPT ![p] = o]
<1>1. \A q \in ps : e[q] = IF q = p THEN o ELSE d[q]
  BY DEF Choices
<1>2. \A x \in Option : d[p] # x
  BY SetupConstants
<1> HIDE DEF e
<1>3. Setup!Count(e, ps, o) = Setup!Count(d, ps, o) + 1
  <2> DEFINE A == {q \in ps : d[q] = o}
  <2>1. {q \in ps : e[q] = o} = A \cup {p}
    BY <1>1
  <2>2. p \notin A /\ IsFiniteSet(A)
    BY <1>2, FS_Subset
  <2> HIDE DEF A
  <2>3. Cardinality(A \cup {p}) = Cardinality(A) + 1
    BY <2>2, FS_AddElement
  <2> QED BY <2>1, <2>3, SameCardinality DEF Setup!Count, A
<1>4. ASSUME NEW x \in Option \ {o} PROVE Setup!Count(e, ps, x) = Setup!Count(d, ps, x)
  <2>1. {q \in ps : e[q] = x} = {q \in ps : d[q] = x}
    BY <1>1, <1>2
  <2> QED BY <2>1 DEF Setup!Count
<1> QED BY <1>3, <1>4 DEF e

\* What is true of choices d when W have been dealt theirs: everybody else keeps his, and
\* nobody was dealt an option that is ahead of another.
Fairly(c, ps, unserved, d, W) ==
  /\ d \in Choices
  /\ \A p \in Player \ unserved : d[p] = c[p]
  /\ \A p \in unserved \ W : d[p] = Setup!Undefined
  /\ \A p \in W : /\ d[p] \in Option
                  /\ \A x \in Option : Setup!Count(d, ps, d[p]) <= Setup!Count(d, ps, x) + 1

\* Handing out one of the rarest options keeps the dealing even.
LEMMA HandedFairly ==
  ASSUME NEW c, NEW ps \in SUBSET Player, IsFiniteSet(ps), NEW unserved \in SUBSET ps,
         NEW W \in SUBSET unserved, NEW p \in W, NEW d, Fairly(c, ps, unserved, d, W \ {p}),
         NEW o \in Setup!Fewest(d, ps)
  PROVE  Fairly(c, ps, unserved, [d EXCEPT ![p] = o], W)
<1> DEFINE e == [d EXCEPT ![p] = o]
<1>1. p \in ps /\ p \in Player /\ d \in Choices /\ d[p] = Setup!Undefined
  BY DEF Fairly
<1>2. o \in Option /\ \A x \in Option : Setup!Count(d, ps, o) <= Setup!Count(d, ps, x)
  BY DEF Setup!Fewest
<1>3. /\ Setup!Count(e, ps, o) = Setup!Count(d, ps, o) + 1
      /\ \A x \in Option \ {o} : Setup!Count(e, ps, x) = Setup!Count(d, ps, x)
  BY <1>1, <1>2, CountDealt
<1>4. e \in Choices /\ \A q \in Player : e[q] = IF q = p THEN o ELSE d[q]
  BY <1>1, <1>2 DEF Choices
<1> HIDE DEF e
<1>5. \A q \in Player \ unserved : e[q] = c[q]
  BY <1>4 DEF Fairly
<1>6. \A q \in unserved \ W : e[q] = Setup!Undefined
  BY <1>4 DEF Fairly
<1>7. ASSUME NEW q \in W
      PROVE  /\ e[q] \in Option
             /\ \A x \in Option : Setup!Count(e, ps, e[q]) <= Setup!Count(e, ps, x) + 1
  <2>1. \A x : Setup!Count(d, ps, x) \in Nat /\ Setup!Count(e, ps, x) \in Nat
    BY Counts
  <2>2. \A x \in Option : Setup!Count(d, ps, x) <= Setup!Count(e, ps, x)
    BY <1>3, <2>1
  <2>3. CASE e[q] = o
    BY <1>2, <1>3, <2>1, <2>2, <2>3
  <2>4. CASE e[q] # o
    <3>1. e[q] = d[q] /\ q \in W \ {p}
      BY <1>4, <2>4
    <3>2. /\ d[q] \in Option
          /\ \A x \in Option : Setup!Count(d, ps, d[q]) <= Setup!Count(d, ps, x) + 1
      BY <3>1 DEF Fairly
    <3>3. Setup!Count(e, ps, e[q]) = Setup!Count(d, ps, d[q])
      BY <1>3, <2>4, <3>1, <3>2
    <3> QED BY <2>1, <2>2, <3>1, <3>2, <3>3
  <2> QED BY <2>3, <2>4
<1>8. Fairly(c, ps, unserved, e, W)
  BY <1>4, <1>5, <1>6, <1>7 DEF Fairly
<1> QED BY <1>8 DEF e

\* However the choices are dealt, they are dealt fairly.
LEMMA DealtFairly ==
  ASSUME NEW c \in Choices, NEW ps \in SUBSET Player, IsFiniteSet(ps), NEW unserved \in SUBSET ps,
         NEW d \in Setup!Dealt(c, ps, unserved)
  PROVE  Fairly(c, ps, unserved, d, unserved)
<1>1. IsFiniteSet(unserved)
  BY FS_Subset
<1>2. PICK deal : /\ \A W \in SUBSET unserved : deal[W] = DealtTo(c, ps, unserved, deal, W)
                  /\ Setup!Dealt(c, ps, unserved) = deal[unserved]
  BY <1>1, DealtIsDeal
<1> DEFINE S == {n \in Nat : \A W \in SUBSET unserved : Cardinality(W) = n =>
                   \A e \in deal[W] : Fairly(c, ps, unserved, e, W)}
<1>3. 0 \in S
  <2> SUFFICES ASSUME NEW W \in SUBSET unserved, Cardinality(W) = 0, NEW e \in deal[W]
               PROVE  Fairly(c, ps, unserved, e, W)
    OBVIOUS
  <2>1. W = {}
    BY <1>1, FS_Subset, FS_EmptySet
  <2>2. e = Bare(c, unserved)
    BY <1>2, <2>1 DEF DealtTo
  <2> QED BY <2>1, <2>2 DEF Fairly, Bare, Choices
<1>4. ASSUME NEW n \in Nat, n \in S PROVE n + 1 \in S
  <2> SUFFICES ASSUME NEW W \in SUBSET unserved, Cardinality(W) = n + 1, NEW e \in deal[W]
               PROVE  Fairly(c, ps, unserved, e, W)
    OBVIOUS
  <2>1. IsFiniteSet(W)
    BY <1>1, FS_Subset
  <2>2. W # {}
    BY <2>1, FS_EmptySet
  <2>3. PICK p \in W : e \in Handed(deal[W \ {p}], ps, p)
    <3>1. deal[W] = UNION {Handed(deal[W \ {p}], ps, p) : p \in W}
      BY <1>2, <2>2, Zenon DEF DealtTo
    <3> QED BY <3>1
  <2>4. PICK f \in deal[W \ {p}] : e \in {[f EXCEPT ![p] = o] : o \in Setup!Fewest(f, ps)}
    <3> DEFINE On(f) == {[f EXCEPT ![p] = o] : o \in Setup!Fewest(f, ps)}
    <3>1. e \in UNION {On(f) : f \in deal[W \ {p}]}
      BY <2>3, Zenon DEF Handed
    <3> HIDE DEF On
    <3>2. \E f \in deal[W \ {p}] : e \in On(f)
      BY <3>1
    <3> QED BY <3>2, Zenon DEF On
  <2>5. Cardinality(W \ {p}) = n
    <3>1. p \in W
      OBVIOUS
    <3>2. Cardinality(W \ {p}) = Cardinality(W) - 1
      BY <2>1, <3>1, FS_RemoveElement
    <3>3. n \in Nat /\ Cardinality(W) = n + 1
      OBVIOUS
    <3> HIDE DEF S
    <3> QED BY <3>2, <3>3
  <2>6. Fairly(c, ps, unserved, f, W \ {p})
    BY <1>4, <2>4, <2>5
  <2>7. PICK o \in Setup!Fewest(f, ps) : e = [f EXCEPT ![p] = o]
    BY <2>4
  <2> QED BY <2>6, <2>7, HandedFairly
<1>5. \A n \in Nat : n \in S
  <2> HIDE DEF S
  <2> QED BY <1>3, <1>4, SetInduction
<1>6. Cardinality(unserved) \in Nat
  BY <1>1, FS_CardinalityType
<1> QED BY <1>2, <1>5, <1>6

\* What a snapshot deals keeps every choice there is, and who gets one joins an option that is
\* not ahead of another.
LEMMA AssignedFairly ==
  ASSUME NEW c \in Choices, NEW ps \in SUBSET Player, IsFiniteSet(ps), NEW g, NEW settings, NEW r,
         NEW d \in Setup!Assigned(c, ps, g, settings, r)
  PROVE  /\ d \in Choices
         /\ \A p \in Player : c[p] \in Option \/ p \notin ps => d[p] = c[p]
         /\ \A p \in ps : d[p] = c[p] \/ \A x \in Option : Setup!Count(d, ps, d[p]) <= Setup!Count(d, ps, x) + 1
<1> DEFINE unserved == {p \in ps : c[p] \notin Option}
<1>1. CASE d = c
  BY <1>1
<1>2. CASE d \in Setup!Dealt(c, ps, unserved)
  <2>1. Fairly(c, ps, unserved, d, unserved)
    BY <1>2, DealtFairly
  <2> QED BY <2>1 DEF Fairly
<1> QED BY <1>1, <1>2 DEF Setup!Assigned

\* The type invariant, and that the room's players are finitely many.
SetupInv == Setup!TypeOK /\ IsFiniteSet(players)

\* A step that deals choices on top of c, which has those of the players that were there.
LEMMA DealsGently ==
  ASSUME SetupInv, NEW c \in Choices, players' \in SUBSET Player, IsFiniteSet(players)',
         NEW g, NEW settings, NEW r, choice' \in Setup!Assigned(c, players', g, settings, r),
         \A p \in players' : IF p \in players THEN c[p] = choice[p] ELSE c[p] \notin Option
  PROVE  choice' \in Choices /\ (\A p \in Player : Setup!Kept(p)) /\ Setup!EvenlyJoined
<1>1. /\ choice' \in Choices
      /\ \A p \in Player : c[p] \in Option \/ p \notin players' => choice'[p] = c[p]
      /\ \A p \in players' : \/ choice'[p] = c[p]
                            \/ \A x \in Option : Setup!Count(choice', players', choice'[p])
                                                 <= Setup!Count(choice', players', x) + 1
  BY AssignedFairly
<1>2. \A p \in Player : Setup!Kept(p)
  BY <1>1 DEF Setup!Kept
<1>3. ASSUME NEW o \in Option, NEW x \in Option, Setup!Joined(o)
      PROVE  Setup!Count(choice', players', o) <= Setup!Count(choice', players', x) + 1
  <2>1. PICK p \in players' : choice'[p] = o /\ (p \notin players \/ choice[p] # o)
    BY <1>3 DEF Setup!Joined
  <2>2. choice'[p] # c[p]
    BY <2>1
  <2> QED BY <1>1, <2>1, <2>2
<1> QED BY <1>1, <1>2, <1>3 DEF Setup!EvenlyJoined

\* Who is ready and the round there is.
Phased ==
  /\ isReady \in [Player -> BOOLEAN] /\ round \in {"none", "active", "finished"}
  /\ continues \in Setup!Answers /\ rounds \in 0..MaxRounds

\* The phase of a round that starts.
LEMMA StartPhased ==
  ASSUME SetupInv, NEW ready \in [Player -> BOOLEAN], Setup!StartRound(ready)
  PROVE  Phased'
<1>1. rounds \in 0..MaxRounds /\ MaxRounds \in Nat
  BY SetupConstants DEF SetupInv, Setup!TypeOK
<1>2. rounds' \in 0..MaxRounds
  BY <1>1 DEF Setup!StartRound
<1> QED BY <1>2 DEF Setup!StartRound, Setup!NoneReady, Setup!Answers, Phased

\* The phase after an action that may start one.
LEMMA AutoStartPhased ==
  ASSUME SetupInv, NEW ready \in [Player -> BOOLEAN], NEW r \in {"none", "active", "finished"},
         NEW c, NEW g, NEW settings, Setup!MaybeAutoStart(r, c, ready, g, settings)
  PROVE  Phased'
<1>1. CASE Setup!StartRound(ready)
  BY <1>1, StartPhased
<1>2. CASE /\ isReady' = ready /\ round' = r /\ UNCHANGED rounds
           /\ continues' = IF r = "none" THEN "none" ELSE continues
  BY <1>2 DEF SetupInv, Setup!TypeOK, Setup!Answers, Phased
<1> QED BY <1>1, <1>2 DEF Setup!MaybeAutoStart

\* What a step may do to choices.
Gentle ==
  /\ \A p \in Player : Setup!Kept(p) \/ Setup!SetPlayerSetup(p) \/ Setup!Shuffle
  /\ Setup!EvenlyJoined \/ Setup!ChosenByHand

\* What is left of the types when choices, the phase and the players are settled.
LEMMA SetupTypes ==
  ASSUME SetupInv, Phased', choice' \in Choices, UNCHANGED manifest,
         mode' \in Setup!Mode \cup {Setup!Undefined}, selected' \in {"none", "teams", "plain"},
         players' \in SUBSET Player, IsFiniteSet(players)'
  PROVE  SetupInv'
BY DEF SetupInv, Setup!TypeOK, Phased, Choices

\* Every action of the setup keeps the invariant.
LEMMA SetupStep ==
  ASSUME SetupInv, Setup!Next
  PROVE  SetupInv' /\ Gentle
<1>1. /\ manifest \in Manifests \cap Setup!Manifest /\ mode \in Setup!Mode \cup {Setup!Undefined}
      /\ selected \in {"none", "teams", "plain"} /\ players \in SUBSET Player
      /\ choice \in Choices /\ Phased /\ IsFiniteSet(players)
  BY DEF SetupInv, Setup!TypeOK, Choices, Phased
<1>2. isReady \in [Player -> BOOLEAN] /\ round \in {"none", "active", "finished"}
  BY <1>1 DEF Phased
<1>3. ASSUME NEW p \in Player, Setup!Join(p) PROVE SetupInv' /\ Gentle
  <2> DEFINE c == [choice EXCEPT ![p] = Setup!Undefined]
  <2>1. /\ p \notin players /\ players' = players \cup {p}
        /\ isReady' = [isReady EXCEPT ![p] = FALSE]
        /\ choice' \in Setup!Assigned(c, players', selected, mode, round)
        /\ UNCHANGED <<manifest, mode, selected, round, continues, rounds>>
    BY <1>3 DEF Setup!Join, Setup!setting, Setup!phase
  <2>2. c \in Choices /\ c[p] \notin Option /\ \A q \in Player \ {p} : c[q] = choice[q]
    BY <1>1, SetupConstants DEF Choices
  <2> HIDE DEF c
  <2>3. players' \in SUBSET Player /\ IsFiniteSet(players)'
    BY <1>1, <2>1, FS_AddElement
  <2>4. \A q \in players' : IF q \in players THEN c[q] = choice[q] ELSE c[q] \notin Option
    BY <1>1, <2>1, <2>2
  <2>5. choice' \in Choices /\ (\A q \in Player : Setup!Kept(q)) /\ Setup!EvenlyJoined
    BY <2>1, <2>2, <2>3, <2>4, DealsGently
  <2>6. Phased'
    BY <1>1, <1>2, <2>1 DEF Phased
  <2> QED BY <1>1, <2>1, <2>3, <2>5, <2>6, SetupTypes DEF Gentle
<1>4. ASSUME NEW p \in Player, Setup!Remove(p) PROVE SetupInv' /\ Gentle
  <2> DEFINE c == [choice EXCEPT ![p] = Setup!Undefined]
  <2>1. /\ p \in players /\ players' = players \ {p}
        /\ isReady' = [isReady EXCEPT ![p] = FALSE]
        /\ choice' \in Setup!Assigned(c, players', selected, mode, round)
        /\ UNCHANGED <<manifest, mode, selected, round, continues, rounds>>
    BY <1>4 DEF Setup!Remove, Setup!setting, Setup!phase
  <2>2. c \in Choices /\ \A q \in Player \ {p} : c[q] = choice[q]
    BY <1>1 DEF Choices
  <2> HIDE DEF c
  <2>3. players' \in SUBSET Player /\ IsFiniteSet(players)'
    BY <1>1, <2>1, FS_RemoveElement
  <2>4. \A q \in players' : IF q \in players THEN c[q] = choice[q] ELSE c[q] \notin Option
    BY <1>1, <2>1, <2>2
  <2>5. choice' \in Choices /\ (\A q \in Player : Setup!Kept(q)) /\ Setup!EvenlyJoined
    BY <2>1, <2>2, <2>3, <2>4, DealsGently
  <2>6. Phased'
    BY <1>1, <1>2, <2>1 DEF Phased
  <2> QED BY <1>1, <2>1, <2>3, <2>5, <2>6, SetupTypes DEF Gentle
\* A step of the players that are there, dealing on top of the choices they have.
<1>5. ASSUME UNCHANGED players, NEW g, NEW settings, NEW r,
             choice' \in Setup!Assigned(choice, players, g, settings, r)
      PROVE  choice' \in Choices /\ (\A q \in Player : Setup!Kept(q)) /\ Setup!EvenlyJoined
  <2>1. players' = players /\ players' \in SUBSET Player /\ IsFiniteSet(players)'
    BY <1>1, <1>5
  <2>2. choice' \in Setup!Assigned(choice, players', g, settings, r)
    BY <1>5, <2>1
  <2> QED BY <1>1, <2>1, <2>2, DealsGently
<1>6. ASSUME NEW p \in Player, Setup!SetReady(p) PROVE SetupInv' /\ Gentle
  <2>1. /\ choice' \in Setup!Assigned(choice, players, selected, mode, round)
        /\ UNCHANGED <<manifest, mode, selected, players>>
    BY <1>6 DEF Setup!SetReady, Setup!setting
  <2>2. PICK b \in BOOLEAN :
          Setup!MaybeAutoStart(round, choice', [isReady EXCEPT ![p] = b], selected, mode)
    BY <1>6 DEF Setup!SetReady
  <2>3. [isReady EXCEPT ![p] = b] \in [Player -> BOOLEAN]
    BY <1>2
  <2>4. Phased'
    BY <1>2, <2>2, <2>3, AutoStartPhased
  <2> QED BY <1>1, <1>5, <2>1, <2>4, SetupTypes DEF Gentle
<1>7. ASSUME NEW p \in Player, Setup!SetPlayerSetup(p) PROVE SetupInv' /\ Gentle
  <2>1. PICK o \in Option, keepsReady \in BOOLEAN : Setup!Choose(p, o, keepsReady)
    BY <1>7 DEF Setup!SetPlayerSetup
  <2>2. PICK dealt \in Setup!Assigned(choice, players, selected, mode, round) :
          choice' = [dealt EXCEPT ![p] = o]
    BY <2>1 DEF Setup!Choose
  <2>3. /\ dealt \in Choices
        /\ \A q \in Player : choice[q] \in Option => dealt[q] = choice[q]
    BY <1>1, AssignedFairly
  <2>4. choice' \in Choices /\ \A q \in Player \ {p} : choice[q] \in Option => choice'[q] = choice[q]
    BY <2>2, <2>3 DEF Choices
  <2>5. [isReady EXCEPT ![p] = keepsReady /\ @] \in [Player -> BOOLEAN]
    BY <1>2
  <2>6. Phased'
    BY <1>2, <2>1, <2>5, AutoStartPhased DEF Setup!Choose
  <2>7. UNCHANGED <<manifest, mode, selected, players>>
    BY <2>1 DEF Setup!Choose, Setup!setting
  <2>8. Gentle
    <3>1. \A q \in Player \ {p} : Setup!Kept(q)
      BY <2>4 DEF Setup!Kept
    <3> QED BY <1>7, <3>1 DEF Gentle, Setup!ChosenByHand
  <2> QED BY <1>1, <2>4, <2>6, <2>7, <2>8, SetupTypes
<1>8. ASSUME NEW g \in {"none", "teams", "plain"}, Setup!SelectGame(g) PROVE SetupInv' /\ Gentle
  <2>1. /\ choice' \in Setup!Assigned(choice, players, g, mode, "none") /\ selected' = g
        /\ Setup!MaybeAutoStart("none", choice', isReady, g, mode)
        /\ UNCHANGED <<manifest, mode, players>>
    BY <1>8 DEF Setup!SelectGame
  <2>2. Phased'
    BY <1>2, <2>1, AutoStartPhased
  <2> QED BY <1>1, <1>5, <2>1, <2>2, SetupTypes DEF Gentle
<1>9. ASSUME NEW m \in Setup!Mode, Setup!SetMode(m) PROVE SetupInv' /\ Gentle
  <2>1. /\ choice' \in Setup!Assigned(choice, players, selected, m, round) /\ mode' = m
        /\ Setup!MaybeAutoStart(round, choice', isReady, selected, m)
        /\ UNCHANGED <<manifest, selected, players>>
    BY <1>9 DEF Setup!SetMode
  <2>2. Phased'
    BY <1>2, <2>1, AutoStartPhased
  <2> QED BY <1>1, <1>5, <2>1, <2>2, SetupTypes DEF Gentle
<1>10. CASE Setup!Shuffle
  <2>1. /\ choice' \in Setup!Dealt(choice, players, players) /\ isReady' = Setup!NoneReady
        /\ UNCHANGED <<manifest, mode, selected, players, round, continues, rounds>>
    BY <1>10 DEF Setup!Shuffle, Setup!setting, Setup!phase
  <2>2. Fairly(choice, players, players, choice', players)
    BY <1>1, <2>1, DealtFairly
  <2>3. Setup!EvenlyJoined
    <3> SUFFICES ASSUME NEW o \in Option, NEW x \in Option, Setup!Joined(o)
                 PROVE  Setup!Count(choice', players', o) <= Setup!Count(choice', players', x) + 1
      BY DEF Setup!EvenlyJoined
    <3>1. PICK p \in players' : choice'[p] = o
      BY DEF Setup!Joined
    <3> QED BY <2>1, <2>2, <3>1 DEF Fairly
  <2>4. Phased'
    BY <1>1, <2>1 DEF Phased, Setup!NoneReady
  <2>5. choice' \in Choices
    BY <2>2 DEF Fairly
  <2> QED BY <1>1, <1>10, <2>1, <2>3, <2>4, <2>5, SetupTypes DEF Gentle
<1>11. CASE Setup!HostStart
  <2>1. /\ choice' \in Setup!Assigned(choice, players, selected, mode, round)
        /\ Setup!StartRound(isReady)
        /\ UNCHANGED <<manifest, mode, selected, players>>
    BY <1>11 DEF Setup!HostStart, Setup!setting
  <2>2. Phased'
    BY <1>2, <2>1, StartPhased
  <2> QED BY <1>1, <1>5, <2>1, <2>2, SetupTypes DEF Gentle
<1>12. CASE Setup!AbortRound
  <2>1. /\ choice' \in Setup!Assigned(choice, players, selected, mode, "none")
        /\ round' = "none" /\ continues' = "none"
        /\ UNCHANGED <<manifest, mode, selected, players, isReady, rounds>>
    BY <1>12 DEF Setup!AbortRound, Setup!setting
  <2>2. Phased'
    BY <1>1, <2>1 DEF Phased, Setup!Answers
  <2> QED BY <1>1, <1>5, <2>1, <2>2, SetupTypes DEF Gentle
<1>13. CASE Setup!RoundFinishes
  <2>1. /\ choice' \in Setup!Assigned(choice, players, selected, mode, round')
        /\ UNCHANGED <<manifest, mode, selected, players>>
    BY <1>13 DEF Setup!RoundFinishes, Setup!setting
  <2>2. Phased'
    <3>1. PICK answer \in Setup!Answers :
            \/ Setup!StartRound(isReady)
            \/ /\ round' = "finished" /\ continues' = answer /\ UNCHANGED rounds
               /\ isReady' = IF manifest.waits /\ answer # "yes" THEN Setup!NoneReady ELSE isReady
      BY <1>13 DEF Setup!RoundFinishes
    <3>2. CASE Setup!StartRound(isReady)
      BY <1>2, <3>2, StartPhased
    <3>3. CASE /\ round' = "finished" /\ continues' = answer /\ UNCHANGED rounds
               /\ isReady' = IF manifest.waits /\ answer # "yes" THEN Setup!NoneReady ELSE isReady
      BY <1>1, <3>3 DEF Phased, Setup!NoneReady
    <3> QED BY <3>1, <3>2, <3>3
  <2> QED BY <1>1, <1>5, <2>1, <2>2, SetupTypes DEF Gentle
<1> QED BY <1>3, <1>4, <1>6, <1>7, <1>8, <1>9, <1>10, <1>11, <1>12, <1>13 DEF Setup!Next

\* A step of something else keeps it.
LEMMA SetupKept == SetupInv /\ UNCHANGED Setup!vars => SetupInv'
  BY DEF SetupInv, Setup!TypeOK, Setup!vars, Setup!setting, Setup!phase

\* The setup begins without players.
LEMMA SetupInit == Setup!Init => SetupInv
<1> SUFFICES ASSUME Setup!Init PROVE SetupInv
  OBVIOUS
<1>1. IsFiniteSet(players)
  BY FS_EmptySet DEF Setup!Init
<1>2. Setup!TypeOK
  BY SetupConstants DEF Setup!Init, Setup!TypeOK, Setup!Answers
<1> QED BY <1>1, <1>2 DEF SetupInv

\* Choices are dealt without touching those that are there, and whoever is dealt one joins an
\* option that is not ahead of another, for every number of players and options
\* (playerSetupAssignments.ts 4-30).
THEOREM ChoicesAreGentle == Setup!Spec => Setup!AssignmentIsGentle
<1>1. SetupInv /\ [Setup!Next]_Setup!vars => SetupInv'
  BY SetupStep, SetupKept
<1>2. SetupInv /\ [Setup!Next]_Setup!vars => [Gentle]_Setup!vars
  BY SetupStep
<1>3. Gentle => /\ \A p \in Player : Setup!Kept(p) \/ Setup!SetPlayerSetup(p) \/ Setup!Shuffle
                /\ Setup!EvenlyJoined \/ Setup!ChosenByHand
  BY DEF Gentle
<1> QED BY SetupInit, <1>1, <1>2, <1>3, PTL DEF Setup!Spec, Setup!AssignmentIsGentle

\* The values of the setup of teams.
THEOREM SetupTypeOK == Setup!Spec => []Setup!TypeOK
<1>1. SetupInv /\ [Setup!Next]_Setup!vars => SetupInv'
  BY SetupStep, SetupKept
<1>2. SetupInv => Setup!TypeOK
  BY DEF SetupInv
<1> QED BY SetupInit, <1>1, <1>2, PTL DEF Setup!Spec
-----------------------------------------------------------------------------
(* The drawing: what the board will be.                                    *)

\* A state of the board, and an input on its way.
Sheets == [strokes : [Drawing!Stroke -> 0..PointLimit], active : Drawing!Stroke \cup {0},
           refused : SUBSET Drawing!Stroke]

Inputs == [kind : {"draw:start", "draw:move", "draw:end", "draw:clear"},
           stroke : Drawing!Stroke \cup {0}, card : 1..MaxCards]

Sheet == [strokes |-> strokes, active |-> activeStrokeId, refused |-> refused]

\* The board of card c when it has handled an input: Handle, as a function.
After(b, m, c) ==
  IF m.card # c THEN b
  ELSE IF m.kind = "draw:start"
       THEN IF Drawing!Cardinality(Drawing!Inked(b.strokes)) >= StrokeLimit
            THEN [b EXCEPT !.refused = @ \cup {m.stroke}]
            ELSE [b EXCEPT !.strokes = [b.strokes EXCEPT ![m.stroke] = 1], !.active = m.stroke]
  ELSE IF m.kind = "draw:move"
       THEN IF b.active = 0 \/ b.strokes[b.active] >= PointLimit
            THEN [b EXCEPT !.refused = @ \cup {m.stroke}]
            ELSE [b EXCEPT !.strokes = [b.strokes EXCEPT ![b.active] = b.strokes[b.active] + 1]]
  ELSE IF m.kind = "draw:end" THEN [b EXCEPT !.active = 0]
  ELSE [b EXCEPT !.strokes = Drawing!Blank, !.active = 0]

\* Inputs that name a stroke where the board needs one.
Proper(m) == m \in Inputs /\ (m.kind \in {"draw:start", "draw:move"} => m.stroke \in Drawing!Stroke)

\* run[i] is the board when the first i inputs of line have been handled.
IsRun(run, line, c, b) ==
  /\ run \in [0..Len(line) -> Sheets] /\ run[0] = b
  /\ \A i \in 1..Len(line) : run[i] = After(run[i - 1], line[i], c)

\* The active stroke has ink, a stroke above top has none, and a stroke that was seen, or had
\* ink, and has none any more never gets any again.
Orderly(run, n, top, seen) ==
  /\ \A j \in 0..n : run[j].active # 0 => run[j].strokes[run[j].active] > 0
  /\ \A j \in 0..n, s \in Drawing!Stroke : s > top => run[j].strokes[s] = 0
  /\ \A s \in Drawing!Stroke, k \in 0..n, m \in 0..n :
       k <= m /\ run[k].strokes[s] = 0 /\ (s \in seen \/ \E j \in 0..k : run[j].strokes[s] > 0)
         => run[m].strokes[s] = 0

\* Strokes are numbered from 1.
LEMMA StrokeNumbers == Drawing!Stroke = 1..MaxStrokes /\ MaxStrokes \in Nat /\ 0 \notin Drawing!Stroke
  BY DrawingConstants DEF Drawing!Stroke

\* A blank board has no points.
LEMMA BlankSheet == Drawing!Blank \in [Drawing!Stroke -> 0..PointLimit] /\ \A s \in Drawing!Stroke : Drawing!Blank[s] = 0
  BY DrawingConstants DEF Drawing!Blank, Drawing!Nothing

\* What an input leaves on a sheet is a sheet.
LEMMA AfterSheet ==
  ASSUME NEW b \in Sheets, NEW m, Proper(m), NEW c
  PROVE  After(b, m, c) \in Sheets
<1>1. /\ b.strokes \in [Drawing!Stroke -> 0..PointLimit] /\ b.active \in Drawing!Stroke \cup {0}
      /\ b.refused \in SUBSET Drawing!Stroke
      /\ b = [strokes |-> b.strokes, active |-> b.active, refused |-> b.refused]
  BY DEF Sheets
<1>2. CASE After(b, m, c) = b
  BY <1>2
<1>3. CASE m.kind = "draw:start" /\ m.card = c
  <2>1. m.stroke \in Drawing!Stroke
    BY <1>3 DEF Proper
  <2>2. [b.strokes EXCEPT ![m.stroke] = 1] \in [Drawing!Stroke -> 0..PointLimit]
    BY <1>1, <2>1, DrawingConstants
  <2> QED BY <1>1, <1>3, <2>1, <2>2 DEF After, Sheets
<1>4. CASE m.kind = "draw:move" /\ m.card = c
  <2>1. m.stroke \in Drawing!Stroke
    BY <1>4 DEF Proper
  <2>2. CASE b.active = 0 \/ b.strokes[b.active] >= PointLimit
    BY <1>1, <1>4, <2>1, <2>2 DEF After, Sheets
  <2>3. CASE ~(b.active = 0 \/ b.strokes[b.active] >= PointLimit)
    <3>1. b.active \in Drawing!Stroke /\ b.strokes[b.active] + 1 \in 0..PointLimit
      BY <1>1, <2>3, DrawingConstants
    <3>2. [b.strokes EXCEPT ![b.active] = b.strokes[b.active] + 1] \in [Drawing!Stroke -> 0..PointLimit]
      BY <1>1, <3>1
    <3> QED BY <1>1, <1>4, <2>3, <3>2 DEF After, Sheets
  <2> QED BY <2>2, <2>3
<1>5. CASE m.kind \in {"draw:end", "draw:clear"} /\ m.card = c
  BY <1>1, <1>5, BlankSheet DEF After, Sheets
<1> QED BY <1>2, <1>3, <1>4, <1>5 DEF Proper, Inputs, After

\* What an input changes.
LEMMA AfterChanges ==
  ASSUME NEW b \in Sheets, NEW m, Proper(m), NEW c,
         b.active # 0 => b.strokes[b.active] > 0
  PROVE  LET e == After(b, m, c)
         IN  /\ e.active # 0 => e.strokes[e.active] > 0
             /\ \A s \in Drawing!Stroke :
                  b.strokes[s] = 0 => e.strokes[s] = 0 \/ (m.kind = "draw:start" /\ s = m.stroke)
<1> DEFINE e == After(b, m, c)
<1>1. /\ b.strokes \in [Drawing!Stroke -> 0..PointLimit] /\ b.active \in Drawing!Stroke \cup {0}
  BY DEF Sheets
<1>2. CASE e = b
  BY <1>2
<1>3. CASE m.kind = "draw:start" /\ m.card = c
  <2>1. m.stroke \in Drawing!Stroke
    BY <1>3 DEF Proper
  <2> QED BY <1>1, <1>3, <2>1 DEF After, Sheets
<1>4. CASE m.kind = "draw:move" /\ m.card = c
  <2>1. CASE b.active = 0 \/ b.strokes[b.active] >= PointLimit
    BY <1>1, <1>4, <2>1 DEF After, Sheets
  <2>2. CASE ~(b.active = 0 \/ b.strokes[b.active] >= PointLimit)
    <3>1. b.active \in Drawing!Stroke /\ b.strokes[b.active] \in Nat
      BY <1>1, <2>2, DrawingConstants
    <3>2. e.active = b.active /\ e.strokes = [b.strokes EXCEPT ![b.active] = b.strokes[b.active] + 1]
      BY <1>4, <2>2 DEF After, Sheets
    <3>3. b.active # 0 /\ b.strokes[b.active] > 0
      BY <2>2
    <3> HIDE DEF e
    <3>4. e.strokes[e.active] > 0
      BY <1>1, <3>1, <3>2
    <3>5. \A s \in Drawing!Stroke : b.strokes[s] = 0 => e.strokes[s] = 0
      BY <1>1, <3>1, <3>2, <3>3
    <3> QED BY <3>4, <3>5 DEF e
  <2> QED BY <2>1, <2>2
<1>5. CASE m.kind \in {"draw:end", "draw:clear"} /\ m.card = c
  BY <1>1, <1>5, BlankSheet DEF After, Sheets
<1> QED BY <1>2, <1>3, <1>4, <1>5 DEF Proper, Inputs, After

\* An input more on the line is a board more in the run.
LEMMA RunExtends ==
  ASSUME NEW line, line \in Seq(Inputs), NEW run, NEW c, NEW b, IsRun(run, line, c, b),
         NEW m, Proper(m), NEW top \in Nat, NEW seen, Orderly(run, Len(line), top, seen),
         NEW above \in Nat, top <= above,
         m.kind = "draw:start" => m.stroke > top /\ m.stroke <= above /\ m.stroke \notin seen
  PROVE  \E longer :
           /\ IsRun(longer, Append(line, m), c, b)
           /\ Orderly(longer, Len(line) + 1, above, seen)
           /\ \A j \in 0..Len(line) : longer[j] = run[j]
           /\ longer[Len(line) + 1] = After(run[Len(line)], m, c)
<1> DEFINE n == Len(line)
           e == After(run[n], m, c)
           longer == [j \in 0..(n + 1) |-> IF j = n + 1 THEN e ELSE run[j]]
<1>1. n \in Nat /\ Len(Append(line, m)) = n + 1 /\ m \in Inputs
  BY DEF Proper
<1>2. \A i \in 1..(n + 1) : Append(line, m)[i] = IF i = n + 1 THEN m ELSE line[i]
  BY <1>1
<1>3. \A j \in 0..n : run[j] \in Sheets
  BY DEF IsRun
<1>4. run[n] \in Sheets /\ (run[n].active # 0 => run[n].strokes[run[n].active] > 0)
  BY <1>1, <1>3 DEF Orderly
<1>5. e \in Sheets
  BY <1>4, AfterSheet
<1>6. /\ e.active # 0 => e.strokes[e.active] > 0
      /\ \A s \in Drawing!Stroke :
           run[n].strokes[s] = 0 => e.strokes[s] = 0 \/ (m.kind = "draw:start" /\ s = m.stroke)
  BY <1>4, AfterChanges
<1> HIDE DEF e
<1>7. /\ \A j \in 0..n : longer[j] = run[j]
      /\ longer[n + 1] = e
      /\ \A j \in 0..(n + 1) : j \in 0..n \/ j = n + 1
  BY <1>1
<1>8. longer \in [0..(n + 1) -> Sheets]
  BY <1>1, <1>3, <1>5
<1> HIDE DEF longer
<1>9. \A i \in 1..(n + 1) : longer[i] = After(longer[i - 1], Append(line, m)[i], c)
  <2> TAKE i \in 1..(n + 1)
  <2>1. CASE i = n + 1
    BY <1>1, <1>2, <1>7, <2>1 DEF e
  <2>2. CASE i # n + 1
    <3>1. i \in 1..n /\ i \in 0..n /\ i - 1 \in 0..n
      BY <1>1, <2>2
    <3>2. run[i] = After(run[i - 1], line[i], c)
      BY <3>1 DEF IsRun
    <3> QED BY <1>2, <1>7, <2>2, <3>1, <3>2
  <2> QED BY <2>1, <2>2
<1>10. IsRun(longer, Append(line, m), c, b)
  <2>1. longer[0] = b
    BY <1>1, <1>7 DEF IsRun
  <2> QED BY <1>1, <1>8, <1>9, <2>1 DEF IsRun
<1>11. Orderly(longer, n + 1, above, seen)
  <2>0. \A s \in Drawing!Stroke : s \in Nat
    BY StrokeNumbers
  <2>1. \A j \in 0..(n + 1) : longer[j].active # 0 => longer[j].strokes[longer[j].active] > 0
    BY <1>6, <1>7 DEF Orderly
  <2>2. ASSUME NEW j \in 0..(n + 1), NEW s \in Drawing!Stroke, s > above
        PROVE  longer[j].strokes[s] = 0
    <3>1. s > top /\ \A i \in 0..n : run[i].strokes[s] = 0
      BY <2>0, <2>2 DEF Orderly
    <3>2. e.strokes[s] = 0
      <4>1. run[n].strokes[s] = 0
        BY <1>1, <3>1
      <4>2. ~(m.kind = "draw:start" /\ s = m.stroke)
        BY <2>0, <2>2
      <4> QED BY <1>6, <4>1, <4>2
    <3> QED BY <1>7, <3>1, <3>2
  <2>3. ASSUME NEW s \in Drawing!Stroke, NEW k \in 0..(n + 1), NEW o \in 0..(n + 1), k <= o,
               longer[k].strokes[s] = 0,
               s \in seen \/ \E j \in 0..k : longer[j].strokes[s] > 0
        PROVE  longer[o].strokes[s] = 0
    <3>1. CASE k = n + 1
      <4>1. o = k
        BY <1>1, <2>3, <3>1
      <4> QED BY <2>3, <4>1
    <3>2. CASE k # n + 1
      <4>1. k \in 0..n /\ 0..k \subseteq 0..n /\ run[k].strokes[s] = 0
        BY <1>1, <1>7, <2>3, <3>2
      <4>2. s \in seen \/ \E j \in 0..k : run[j].strokes[s] > 0
        BY <1>7, <2>3, <4>1
      <4>3. \A i \in 0..n : k <= i => run[i].strokes[s] = 0
        BY <4>1, <4>2 DEF Orderly
      <4>4. CASE o # n + 1
        <5>1. o \in 0..n
          BY <1>1, <4>4
        <5> QED BY <1>7, <2>3, <4>3, <5>1
      <4>5. CASE o = n + 1
        <5>1. run[n].strokes[s] = 0
          BY <1>1, <4>1, <4>3
        <5>2. ~(m.kind = "draw:start" /\ s = m.stroke)
          <6> SUFFICES ASSUME m.kind = "draw:start", s = m.stroke PROVE FALSE
            OBVIOUS
          <6>1. s > top /\ s \notin seen
            OBVIOUS
          <6>2. \A j \in 0..n : run[j].strokes[s] = 0
            BY <6>1 DEF Orderly
          <6>3. ASSUME NEW j \in 0..k, run[j].strokes[s] > 0 PROVE FALSE
            <7>1. j \in 0..n
              BY <4>1
            <7> QED BY <6>2, <6>3, <7>1
          <6> QED BY <4>2, <6>1, <6>3
        <5> QED BY <1>6, <1>7, <4>5, <5>1, <5>2
      <4> QED BY <4>4, <4>5
    <3> QED BY <3>1, <3>2
  <2> HIDE DEF n
  <2> QED BY <2>1, <2>2, <2>3 DEF Orderly
<1> QED BY <1>7, <1>10, <1>11 DEF e

-----------------------------------------------------------------------------
(* The drawing: the invariant.                                             *)

\* Every stroke the board has, or will have, is on the layer of the phone, known to it or hidden.
Seen(run, n) ==
  ~turned /\ resetKey = card =>
    \A j \in 0..n, s \in Drawing!Stroke :
      run[j].strokes[s] > 0 => s \in hiddenStrokes \/ pendingStrokes[s] > 0 \/ model[s] > 0

\* In the end the board has the pen's stroke in hand, and the drawing less what it refused.
Ends(run, n) ==
  ~lost /\ resetKey = card =>
    /\ run[n].active \in {0, pen}
    /\ pen # 0 => run[n].active = pen \/ pen \in run[n].refused
    /\ \A s \in Drawing!Stroke \ run[n].refused : run[n].strokes[s] = drawn[s]

\* On its way there a stroke only grows; one that is off the layer of the phone is complete.
Grows(run, n) ==
  ~lost /\ ~turned /\ resetKey = card =>
    \A s \in Drawing!Stroke \ hiddenStrokes :
      /\ \A j \in 0..n : run[j].strokes[s] <= drawn[s]
      /\ \A j \in 1..n : run[j - 1].strokes[s] <= run[j].strokes[s]
      /\ pendingStrokes[s] = drawn[s] \/ (model[s] = drawn[s] /\ strokes[s] = drawn[s])

\* The inputs on their way are of a card the phone has seen.
WireFits ==
  /\ wire \in Seq(Inputs) /\ (~linked => wire = <<>>)
  /\ \A i \in 1..Len(wire) : wire[i].card <= resetKey
  /\ resetKey <= card
  /\ resetKey # card => Sheet = [strokes |-> Drawing!Blank, active |-> 0, refused |-> {}]

\* The phone's own layer holds a stroke as drawn or not at all.
LayerFits ==
  /\ pen # 0 => /\ pen <= begun /\ pen \notin hiddenStrokes /\ pen \notin ended
                /\ pendingStrokes[pen] = drawn[pen] /\ drawn[pen] > 0
  /\ \A s \in Drawing!Stroke :
       /\ pendingStrokes[s] \in {0, drawn[s]}
       /\ s \in hiddenStrokes => drawn[s] = 0 /\ s <= begun
       /\ s > begun => drawn[s] = 0 /\ model[s] = 0 /\ s \notin ended

RunFits(run) ==
  /\ IsRun(run, wire, card, Sheet)
  /\ Orderly(run, Len(wire), begun, Drawing!Inked(model))
  /\ Seen(run, Len(wire)) /\ Ends(run, Len(wire)) /\ Grows(run, Len(wire))

\* The inductive invariant.
DrawingInv ==
  /\ Drawing!TypeOK /\ WireFits /\ LayerFits /\ Drawing!InkIsShown
  /\ \E run : RunFits(run)

\* What the invariant says of the values.
LEMMA DrawingTypes ==
  ASSUME DrawingInv
  PROVE  /\ card \in 1..MaxCards /\ resetKey \in 1..MaxCards /\ card \in Nat /\ resetKey \in Nat
         /\ strokes \in [Drawing!Stroke -> 0..PointLimit] /\ model \in [Drawing!Stroke -> 0..PointLimit]
         /\ pendingStrokes \in [Drawing!Stroke -> 0..MaxPoints] /\ drawn \in [Drawing!Stroke -> 0..MaxPoints]
         /\ activeStrokeId \in Drawing!Stroke \cup {0} /\ pen \in Drawing!Stroke \cup {0}
         /\ linked \in BOOLEAN /\ lost \in BOOLEAN /\ turned \in BOOLEAN
         /\ ended \in SUBSET Drawing!Stroke /\ hiddenStrokes \in SUBSET Drawing!Stroke
         /\ refused \in SUBSET Drawing!Stroke /\ begun \in 0..MaxStrokes /\ begun \in Nat
         /\ Drawing!Nothing = 0
BY DrawingConstants DEF DrawingInv, Drawing!TypeOK, Drawing!Points, Drawing!Nothing

\* Points are counted in numbers.
LEMMA PointNumbers ==
  ASSUME DrawingInv
  PROVE  \A s \in Drawing!Stroke : /\ s \in Nat /\ strokes[s] \in Nat /\ model[s] \in Nat
                                   /\ pendingStrokes[s] \in Nat /\ drawn[s] \in Nat
BY DrawingTypes, StrokeNumbers, DrawingConstants

\* The types of the next state, put together.
LEMMA DrawingOK ==
  ASSUME card' \in 1..MaxCards, resetKey' \in 1..MaxCards,
         strokes' \in [Drawing!Stroke -> 0..PointLimit], model' \in [Drawing!Stroke -> 0..PointLimit],
         pendingStrokes' \in [Drawing!Stroke -> 0..MaxPoints], drawn' \in [Drawing!Stroke -> 0..MaxPoints],
         activeStrokeId' \in Drawing!Stroke \cup {0}, pen' \in Drawing!Stroke \cup {0},
         linked' \in BOOLEAN, lost' \in BOOLEAN, turned' \in BOOLEAN,
         ended' \in SUBSET Drawing!Stroke, hiddenStrokes' \in SUBSET Drawing!Stroke,
         refused' \in SUBSET Drawing!Stroke, begun' \in 0..MaxStrokes
  PROVE  Drawing!TypeOK'
BY DEF Drawing!TypeOK, Drawing!Points, Drawing!Nothing

\* The boards of a run are boards.
LEMMA RunSheets ==
  ASSUME NEW run, RunFits(run), NEW j \in 0..Len(wire)
  PROVE  /\ run[j] \in Sheets
         /\ \A s \in Drawing!Stroke : run[j].strokes[s] \in Nat
BY DrawingConstants DEF RunFits, IsRun, Sheets

\* What the phone paints, without its definition by cases.
LEMMA PaintedNow ==
  ASSUME DrawingInv, NEW s \in Drawing!Stroke
  PROVE  Drawing!Painted(s) = drawn[s]
           <=> \/ pendingStrokes[s] = drawn[s] /\ (s \in hiddenStrokes \/ model[s] <= drawn[s])
               \/ s \notin hiddenStrokes /\ model[s] = drawn[s] /\ pendingStrokes[s] <= drawn[s]
               \/ s \in hiddenStrokes /\ drawn[s] = 0 /\ pendingStrokes[s] = 0
BY PointNumbers DEF Drawing!Painted, Drawing!Nothing

\* What an input for the board's card does to board b, which makes it board e.
Refuses(b, e, s) == e.strokes = b.strokes /\ e.active = b.active /\ e.refused = b.refused \cup {s}

Starts(b, e, s) ==
  e.strokes = [b.strokes EXCEPT ![s] = 1] /\ e.active = s /\ e.refused = b.refused

Extends(b, e) ==
  /\ b.active # 0 /\ e.strokes = [b.strokes EXCEPT ![b.active] = b.strokes[b.active] + 1]
  /\ e.active = b.active /\ e.refused = b.refused

Finishes(b, e) == e.strokes = b.strokes /\ e.active = 0 /\ e.refused = b.refused

Empties(b, e) == e.strokes = Drawing!Blank /\ e.active = 0 /\ e.refused = b.refused

\* A start opens its stroke or is refused.
LEMMA AfterStart ==
  ASSUME NEW b \in Sheets, NEW m, Proper(m), m.kind = "draw:start", m.card = card,
         NEW e, e = After(b, m, card)
  PROVE  Refuses(b, e, m.stroke) \/ Starts(b, e, m.stroke)
BY DEF After, Sheets, Refuses, Starts

\* A move makes a stroke longer or is refused.
LEMMA AfterMove ==
  ASSUME NEW b \in Sheets, NEW m, Proper(m), m.kind = "draw:move", m.card = card,
         NEW e, e = After(b, m, card)
  PROVE  Refuses(b, e, m.stroke) \/ Extends(b, e)
BY DEF After, Sheets, Refuses, Extends

\* An end closes a stroke.
LEMMA AfterEnd ==
  ASSUME NEW b \in Sheets, NEW m, Proper(m), m.kind = "draw:end", m.card = card,
         NEW e, e = After(b, m, card)
  PROVE  Finishes(b, e)
BY DEF After, Sheets, Finishes

\* Clearing empties the sheet.
LEMMA AfterClear ==
  ASSUME NEW b \in Sheets, NEW m, Proper(m), m.kind = "draw:clear", m.card = card,
         NEW e, e = After(b, m, card)
  PROVE  Empties(b, e)
BY DEF After, Sheets, Empties

\* A run of a line that grew at its end, as long as the board stands still.
LEMMA LineGrows ==
  ASSUME DrawingInv, NEW run, RunFits(run), NEW m, Proper(m), m.card <= resetKey,
         wire' = Append(wire, m), UNCHANGED <<card, strokes, activeStrokeId, refused, resetKey, model>>,
         linked', begun' \in Nat, begun <= begun',
         m.kind = "draw:start" => m.stroke > begun /\ m.stroke <= begun'
  PROVE  /\ WireFits'
         /\ \E longer :
              /\ IsRun(longer, wire', card', Sheet')
              /\ Orderly(longer, Len(wire'), begun', Drawing!Inked(model)')
              /\ Len(wire') = Len(wire) + 1
              /\ \A j \in 0..Len(wire) : longer[j] = run[j]
              /\ longer[Len(wire')] = After(run[Len(wire)], m, card)
<1>1. wire \in Seq(Inputs) /\ m \in Inputs /\ begun \in Nat /\ Sheet' = Sheet
  BY DrawingTypes DEF DrawingInv, WireFits, Proper, Sheet
<1>2. m.kind = "draw:start" => m.stroke \notin Drawing!Inked(model)
  BY StrokeNumbers DEF DrawingInv, LayerFits, Drawing!Inked, Drawing!Nothing, Proper
<1>3. \E longer :
           /\ IsRun(longer, Append(wire, m), card, Sheet)
           /\ Orderly(longer, Len(wire) + 1, begun', Drawing!Inked(model))
           /\ \A j \in 0..Len(wire) : longer[j] = run[j]
           /\ longer[Len(wire) + 1] = After(run[Len(wire)], m, card)
  BY <1>1, <1>2, RunExtends DEF RunFits
<1>4. Len(wire') = Len(wire) + 1 /\ wire' \in Seq(Inputs)
      /\ \A i \in 1..Len(wire') : wire'[i] = IF i = Len(wire) + 1 THEN m ELSE wire[i]
  BY <1>1
<1>5. \A i \in 1..Len(wire') : wire'[i].card <= resetKey
  BY <1>1, <1>4 DEF DrawingInv, WireFits
<1>6. WireFits'
  BY <1>1, <1>4, <1>5 DEF DrawingInv, WireFits
<1>7. Drawing!Inked(model)' = Drawing!Inked(model)
  BY DEF Drawing!Inked
<1> QED BY <1>1, <1>3, <1>4, <1>6, <1>7

\* A run of a line that stays, as long as the board stands still.
LEMMA LineStays ==
  ASSUME DrawingInv, NEW run, RunFits(run),
         UNCHANGED <<wire, card, strokes, activeStrokeId, refused, resetKey, model>>,
         ~linked' => wire = <<>>, begun' \in Nat, begun <= begun'
  PROVE  /\ WireFits'
         /\ IsRun(run, wire', card', Sheet')
         /\ Orderly(run, Len(wire'), begun', Drawing!Inked(model)')
<1>1. Sheet' = Sheet /\ begun \in Nat
  BY DrawingTypes DEF Sheet
<1>2. WireFits'
  BY <1>1 DEF DrawingInv, WireFits
<1>3. Drawing!Inked(model)' = Drawing!Inked(model)
  BY DEF Drawing!Inked
<1>4. Orderly(run, Len(wire), begun', Drawing!Inked(model))
  BY <1>1, StrokeNumbers DEF RunFits, Orderly
<1> QED BY <1>1, <1>2, <1>3, <1>4 DEF RunFits

\* A stroke that grows along a run grows along one that is longer.
LEMMA GrowsOn ==
  ASSUME NEW n \in Nat, NEW run, NEW longer, NEW s, NEW old \in Nat, NEW limit \in Nat, old <= limit,
         \A j \in 0..n : longer[j] = run[j] /\ run[j].strokes[s] \in Nat /\ run[j].strokes[s] <= old,
         \A j \in 1..n : run[j - 1].strokes[s] <= run[j].strokes[s],
         longer[n + 1].strokes[s] \in Nat, run[n].strokes[s] <= longer[n + 1].strokes[s],
         longer[n + 1].strokes[s] <= limit
  PROVE  /\ \A j \in 0..(n + 1) : longer[j].strokes[s] <= limit
         /\ \A j \in 1..(n + 1) : longer[j - 1].strokes[s] <= longer[j].strokes[s]
<1>1. \A j \in 0..(n + 1) : j \in 0..n \/ j = n + 1
  OBVIOUS
<1>2. \A j \in 0..(n + 1) : longer[j].strokes[s] <= limit
  BY <1>1
<1>3. ASSUME NEW j \in 1..(n + 1) PROVE longer[j - 1].strokes[s] <= longer[j].strokes[s]
  <2>1. CASE j = n + 1
    BY <2>1
  <2>2. CASE j # n + 1
    <3>1. j \in 1..n /\ j \in 0..n /\ j - 1 \in 0..n
      BY <2>2
    <3> QED BY <3>1
  <2> QED BY <2>1, <2>2
<1> QED BY <1>2, <1>3

\* The pen comes down.
LEMMA PenDownKeeps == ASSUME DrawingInv, Drawing!PenDown PROVE DrawingInv'
<1> DEFINE p == begun + 1
           m == [kind |-> "draw:start", stroke |-> p, card |-> resetKey]
<1>1. /\ pen = 0 /\ begun < MaxStrokes /\ begun' = p /\ pen' = p
      /\ pendingStrokes' = [pendingStrokes EXCEPT ![p] = 1] /\ drawn' = [drawn EXCEPT ![p] = 1]
      /\ UNCHANGED <<card, strokes, activeStrokeId, refused, resetKey, model, ended, hiddenStrokes,
                     turned, linked>>
      /\ \/ linked /\ wire' = wire \o <<m>> /\ UNCHANGED lost
         \/ ~linked /\ lost' = TRUE /\ UNCHANGED wire
  BY DrawingTypes DEF Drawing!PenDown, Drawing!Send, Drawing!Input, Drawing!board
<1>2. p \in Drawing!Stroke /\ p \in Nat /\ p > begun /\ p # 0 /\ begun \in Nat /\ begun' \in 0..MaxStrokes
  BY <1>1, DrawingTypes, StrokeNumbers, SMTT(60)
<1>3. drawn[p] = 0 /\ model[p] = 0 /\ pendingStrokes[p] = 0 /\ p \notin hiddenStrokes
  BY <1>2, DrawingTypes DEF DrawingInv, LayerFits
<1>4. \A s \in Drawing!Stroke : /\ pendingStrokes'[s] = IF s = p THEN 1 ELSE pendingStrokes[s]
                                /\ drawn'[s] = IF s = p THEN 1 ELSE drawn[s]
  BY <1>1, DrawingTypes
<1>5. Proper(m) /\ m.kind = "draw:start" /\ m.stroke = p /\ m.card = resetKey
  BY <1>2, DrawingTypes DEF Proper, Inputs
<1>6. Drawing!TypeOK'
  <2>1. /\ pendingStrokes' \in [Drawing!Stroke -> 0..MaxPoints] /\ drawn' \in [Drawing!Stroke -> 0..MaxPoints]
        /\ pen' \in Drawing!Stroke \cup {0} /\ lost' \in BOOLEAN
    <3>1. lost' \in BOOLEAN
      BY <1>1, DrawingTypes
    <3>2. 1 \in 0..MaxPoints
      BY DrawingConstants
    <3>3. [pendingStrokes EXCEPT ![p] = 1] \in [Drawing!Stroke -> 0..MaxPoints]
      BY <1>2, <3>2, DrawingTypes
    <3>4. [drawn EXCEPT ![p] = 1] \in [Drawing!Stroke -> 0..MaxPoints]
      BY <1>2, <3>2, DrawingTypes
    <3> QED BY <1>1, <1>2, <3>1, <3>3, <3>4
  <2> QED BY <1>1, <1>2, <2>1, DrawingTypes, DrawingOK
<1>7. p \notin ended
  BY <1>2 DEF DrawingInv, LayerFits
<1> HIDE DEF m
<1>8. LayerFits'
  <2>1. \A s \in Drawing!Stroke :
          /\ pendingStrokes'[s] \in {0, drawn'[s]}
          /\ s \in hiddenStrokes' => drawn'[s] = 0 /\ s <= begun'
          /\ s > begun' => drawn'[s] = 0 /\ model'[s] = 0 /\ s \notin ended'
    BY <1>1, <1>2, <1>3, <1>4, StrokeNumbers DEF DrawingInv, LayerFits
  <2> QED BY <1>1, <1>2, <1>3, <1>4, <1>7, <2>1 DEF LayerFits
<1>9. Drawing!InkIsShown'
  <2> SUFFICES ASSUME ~lost', ~turned', NEW s \in Drawing!Stroke PROVE Drawing!Painted(s)' = drawn'[s]
    BY DEF Drawing!InkIsShown
  <2>1. Drawing!Painted(s) = drawn[s]
    BY <1>1, DrawingTypes DEF DrawingInv, Drawing!InkIsShown
  <2> QED BY <1>1, <1>3, <1>4, <2>1, DrawingTypes, SMTT(60) DEF Drawing!Painted
<1>10. PICK run : RunFits(run)
  BY DEF DrawingInv
<1>11. CASE linked
  <2>1. wire' = Append(wire, m) /\ UNCHANGED <<lost, linked>>
    BY <1>1, <1>11, DrawingTypes DEF DrawingInv, WireFits
  <2>2. /\ WireFits'
        /\ \E longer :
             /\ IsRun(longer, wire', card', Sheet')
             /\ Orderly(longer, Len(wire'), begun', Drawing!Inked(model)')
             /\ Len(wire') = Len(wire) + 1
             /\ \A j \in 0..Len(wire) : longer[j] = run[j]
             /\ longer[Len(wire')] = After(run[Len(wire)], m, card)
    <3>1. m.card <= resetKey /\ linked' /\ begun' \in Nat /\ begun <= begun' /\ m.stroke > begun
          /\ m.stroke <= begun'
      BY <1>1, <1>2, <1>5, <1>11, <2>1, DrawingTypes
    <3> QED BY <1>1, <1>5, <1>10, <2>1, <3>1, LineGrows
  <2>3. PICK longer :
             /\ IsRun(longer, wire', card', Sheet')
             /\ Orderly(longer, Len(wire'), begun', Drawing!Inked(model)')
             /\ Len(wire') = Len(wire) + 1
             /\ \A j \in 0..Len(wire) : longer[j] = run[j]
             /\ longer[Len(wire')] = After(run[Len(wire)], m, card)
    BY <2>2
  <2> DEFINE n == Len(wire)
             b == run[n]
             e == longer[n + 1]
  <2>4. n \in Nat /\ n \in 0..n /\ \A j \in 0..(n + 1) : j \in 0..n \/ j = n + 1
    BY DEF DrawingInv, WireFits
  <2>5. b \in Sheets /\ \A s \in Drawing!Stroke : b.strokes[s] \in Nat
    BY <1>10, <2>4, RunSheets
  <2>6. b.strokes[p] = 0
    BY <1>2, <1>10, <2>4 DEF RunFits, Orderly
  <2>7. resetKey = card => Refuses(b, e, p) \/ Starts(b, e, p)
    BY <1>5, <2>3, <2>5, AfterStart
  <2>8. b.strokes \in [Drawing!Stroke -> 0..PointLimit]
    BY <2>5 DEF Sheets
  <2>9. Seen(longer, Len(wire))'
    <3> SUFFICES ASSUME ~turned', resetKey' = card', NEW j \in 0..Len(wire'), NEW s \in Drawing!Stroke,
                        longer[j].strokes[s] > 0
                 PROVE  s \in hiddenStrokes' \/ pendingStrokes'[s] > 0 \/ model'[s] > 0
      BY DEF Seen
    <3>1. CASE s = p
      BY <1>4, <3>1
    <3>2. CASE s # p
      <4>1. \A i \in 0..n : run[i].strokes[s] > 0 =>
              s \in hiddenStrokes \/ pendingStrokes[s] > 0 \/ model[s] > 0
        BY <1>1, <1>10 DEF RunFits, Seen
      <4>2. \E i \in 0..n : run[i].strokes[s] > 0
        BY <1>1, <2>3, <2>4, <2>7, <2>8, <3>2 DEF Refuses, Starts
      <4> QED BY <1>1, <1>4, <3>2, <4>1, <4>2
    <3> QED BY <3>1, <3>2
  <2>10. Ends(longer, Len(wire))'
    <3> SUFFICES ASSUME ~lost', resetKey' = card'
                 PROVE  /\ e.active \in {0, p} /\ (e.active = p \/ p \in e.refused)
                        /\ \A s \in Drawing!Stroke \ e.refused : e.strokes[s] = drawn'[s]
      BY <1>1, <2>3 DEF Ends
    <3>1. b.active = 0 /\ \A s \in Drawing!Stroke \ b.refused : b.strokes[s] = drawn[s]
      BY <1>1, <1>10, <2>1 DEF RunFits, Ends
    <3>2. resetKey = card
      BY <1>1
    <3> HIDE DEF e, b, p
    <3>3. CASE Refuses(b, e, p)
      BY <1>4, <3>1, <3>3 DEF Refuses
    <3>4. CASE Starts(b, e, p)
      BY <1>2, <1>4, <2>8, <3>1, <3>4 DEF Starts
    <3> QED BY <2>7, <3>2, <3>3, <3>4
  <2>11. Grows(longer, Len(wire))'
    <3> SUFFICES ASSUME ~lost', ~turned', resetKey' = card', NEW s \in Drawing!Stroke \ hiddenStrokes
                 PROVE  /\ \A j \in 0..Len(wire') : longer[j].strokes[s] <= drawn'[s]
                        /\ \A j \in 1..Len(wire') : longer[j - 1].strokes[s] <= longer[j].strokes[s]
                        /\ pendingStrokes'[s] = drawn'[s] \/ (model[s] = drawn'[s] /\ strokes[s] = drawn'[s])
      BY <1>1 DEF Grows
    <3>1. /\ \A j \in 0..n : run[j].strokes[s] <= drawn[s]
          /\ \A j \in 1..n : run[j - 1].strokes[s] <= run[j].strokes[s]
          /\ pendingStrokes[s] = drawn[s] \/ (model[s] = drawn[s] /\ strokes[s] = drawn[s])
      BY <1>1, <1>10, <2>1 DEF RunFits, Grows
    <3>2. drawn[s] <= drawn'[s] /\ drawn'[s] \in Nat /\ drawn[s] \in Nat
      BY <1>3, <1>4, PointNumbers
    <3>3. b.strokes[s] <= e.strokes[s] /\ e.strokes[s] <= drawn'[s] /\ e.strokes[s] \in Nat
      BY <1>1, <1>4, <2>4, <2>5, <2>6, <2>7, <2>8, <3>1, <3>2, SMTT(60) DEF Refuses, Starts
    <3>4. \A j \in 0..n : run[j].strokes[s] \in Nat
      BY <1>10, RunSheets
    <3>5. /\ \A j \in 0..(n + 1) : longer[j].strokes[s] <= drawn'[s]
          /\ \A j \in 1..(n + 1) : longer[j - 1].strokes[s] <= longer[j].strokes[s]
      BY <2>3, <2>4, <3>1, <3>2, <3>3, <3>4, GrowsOn, ZenonT(60)
    <3> QED BY <1>4, <2>3, <3>1, <3>5
  <2> QED BY <1>6, <1>8, <1>9, <2>2, <2>3, <2>9, <2>10, <2>11 DEF DrawingInv, RunFits
<1>12. CASE ~linked
  <2>1. lost' /\ UNCHANGED <<wire, linked>>
    BY <1>1, <1>12
  <2>2. /\ WireFits' /\ IsRun(run, wire', card', Sheet')
        /\ Orderly(run, Len(wire'), begun', Drawing!Inked(model)')
    BY <1>1, <1>2, <1>10, <1>12, <2>1, LineStays, DrawingTypes DEF DrawingInv, WireFits
  <2>3. Ends(run, Len(wire))' /\ Grows(run, Len(wire))'
    BY <2>1 DEF Ends, Grows
  <2>4. Seen(run, Len(wire))'
    BY <1>1, <1>4, <1>10, <2>1 DEF RunFits, Seen
  <2> QED BY <1>6, <1>8, <1>9, <2>2, <2>3, <2>4 DEF DrawingInv, RunFits
<1> QED BY <1>11, <1>12

\* The pen moves.
LEMMA PenMoveKeeps == ASSUME DrawingInv, Drawing!PenMove PROVE DrawingInv'
<1> DEFINE m == [kind |-> "draw:move", stroke |-> pen, card |-> resetKey]
<1>1. /\ pen # 0 /\ pendingStrokes[pen] \in 1..(MaxPoints - 1)
      /\ pendingStrokes' = [pendingStrokes EXCEPT ![pen] = pendingStrokes[pen] + 1]
      /\ drawn' = [drawn EXCEPT ![pen] = drawn[pen] + 1]
      /\ UNCHANGED <<card, strokes, activeStrokeId, refused, resetKey, model, ended, pen, hiddenStrokes,
                     begun, turned, linked>>
      /\ \/ linked /\ wire' = wire \o <<m>> /\ UNCHANGED lost
         \/ ~linked /\ lost' = TRUE /\ UNCHANGED wire
  BY DrawingTypes DEF Drawing!PenMove, Drawing!Send, Drawing!Input, Drawing!board
<1>2. /\ pen \in Drawing!Stroke /\ pen <= begun /\ pen \notin hiddenStrokes /\ pen \notin ended
      /\ pendingStrokes[pen] = drawn[pen] /\ drawn[pen] > 0 /\ drawn[pen] \in Nat
  BY <1>1, DrawingTypes, PointNumbers DEF DrawingInv, LayerFits
<1>3. \A s \in Drawing!Stroke :
        /\ pendingStrokes'[s] = IF s = pen THEN pendingStrokes[s] + 1 ELSE pendingStrokes[s]
        /\ drawn'[s] = IF s = pen THEN drawn[s] + 1 ELSE drawn[s]
  BY <1>1, DrawingTypes
<1>4. Proper(m) /\ m.kind = "draw:move" /\ m.stroke = pen /\ m.card = resetKey
  BY <1>2, DrawingTypes DEF Proper, Inputs
<1> HIDE DEF m
<1>5. Drawing!TypeOK'
  <2>1. pendingStrokes[pen] + 1 \in 0..MaxPoints /\ drawn[pen] + 1 \in 0..MaxPoints
    BY <1>1, <1>2, DrawingConstants
  <2>2. [pendingStrokes EXCEPT ![pen] = pendingStrokes[pen] + 1] \in [Drawing!Stroke -> 0..MaxPoints]
    BY <1>2, <2>1, DrawingTypes
  <2>3. [drawn EXCEPT ![pen] = drawn[pen] + 1] \in [Drawing!Stroke -> 0..MaxPoints]
    BY <1>2, <2>1, DrawingTypes
  <2>4. lost' \in BOOLEAN
    BY <1>1, DrawingTypes
  <2> QED BY <1>1, <2>2, <2>3, <2>4, DrawingTypes, DrawingOK
<1>6. LayerFits'
  <2>1. \A s \in Drawing!Stroke :
          /\ pendingStrokes'[s] \in {0, drawn'[s]}
          /\ s \in hiddenStrokes' => drawn'[s] = 0 /\ s <= begun'
          /\ s > begun' => drawn'[s] = 0 /\ model'[s] = 0 /\ s \notin ended'
    <3> TAKE s \in Drawing!Stroke
    <3>1. CASE s = pen
      BY <1>1, <1>2, <1>3, <3>1, StrokeNumbers, DrawingTypes
    <3>2. CASE s # pen
      <4>1. /\ pendingStrokes[s] \in {0, drawn[s]}
            /\ s \in hiddenStrokes => drawn[s] = 0 /\ s <= begun
            /\ s > begun => drawn[s] = 0 /\ model[s] = 0 /\ s \notin ended
        BY DEF DrawingInv, LayerFits
      <4> QED BY <1>1, <1>3, <3>2, <4>1
    <3> QED BY <3>1, <3>2
  <2> QED BY <1>1, <1>2, <1>3, <2>1 DEF LayerFits
<1>7. Drawing!InkIsShown'
  <2> SUFFICES ASSUME ~lost', ~turned', NEW s \in Drawing!Stroke PROVE Drawing!Painted(s)' = drawn'[s]
    BY DEF Drawing!InkIsShown
  <2>1. Drawing!Painted(s) = drawn[s]
    BY <1>1, DrawingTypes DEF DrawingInv, Drawing!InkIsShown
  <2>2. CASE s = pen
    <3>1. s \notin hiddenStrokes /\ model[s] <= drawn[s] /\ model[s] \in Nat
      BY <1>2, <2>1, <2>2, PointNumbers DEF Drawing!Painted
    <3>2. pendingStrokes'[s] = drawn[s] + 1 /\ drawn'[s] = drawn[s] + 1 /\ drawn[s] \in Nat
      BY <1>2, <1>3, <2>2
    <3> QED BY <1>1, <3>1, <3>2 DEF Drawing!Painted
  <2>3. CASE s # pen
    BY <1>1, <1>3, <2>1, <2>3 DEF Drawing!Painted
  <2> QED BY <2>2, <2>3
<1>8. PICK run : RunFits(run)
  BY DEF DrawingInv
<1>9. CASE linked
  <2>1. wire' = Append(wire, m) /\ UNCHANGED <<lost, linked>>
    BY <1>1, <1>9, DrawingTypes, SMTT(60) DEF DrawingInv, WireFits
  <2>2. /\ WireFits'
        /\ \E longer :
             /\ IsRun(longer, wire', card', Sheet')
             /\ Orderly(longer, Len(wire'), begun', Drawing!Inked(model)')
             /\ Len(wire') = Len(wire) + 1
             /\ \A j \in 0..Len(wire) : longer[j] = run[j]
             /\ longer[Len(wire')] = After(run[Len(wire)], m, card)
    <3>1. m.card <= resetKey /\ linked' /\ begun' \in Nat /\ begun <= begun' /\ m.kind # "draw:start"
      BY <1>1, <1>4, <1>9, DrawingTypes, SMTT(60)
    <3> QED BY <1>1, <1>4, <1>8, <2>1, <3>1, LineGrows
  <2>3. PICK longer :
             /\ IsRun(longer, wire', card', Sheet')
             /\ Orderly(longer, Len(wire'), begun', Drawing!Inked(model)')
             /\ Len(wire') = Len(wire) + 1
             /\ \A j \in 0..Len(wire) : longer[j] = run[j]
             /\ longer[Len(wire')] = After(run[Len(wire)], m, card)
    BY <2>2
  <2> DEFINE n == Len(wire)
             b == run[n]
             e == longer[n + 1]
  <2>4. n \in Nat /\ n \in 0..n /\ \A j \in 0..(n + 1) : j \in 0..n \/ j = n + 1
    BY DEF DrawingInv, WireFits
  <2>5. b \in Sheets /\ \A s \in Drawing!Stroke : b.strokes[s] \in Nat
    BY <1>8, <2>4, RunSheets
  <2>6. b.active # 0 => b.strokes[b.active] > 0
    BY <1>8, <2>4 DEF RunFits, Orderly
  <2>7. resetKey = card => Refuses(b, e, pen) \/ Extends(b, e)
    BY <1>4, <2>3, <2>5, AfterMove
  <2>8. b.strokes \in [Drawing!Stroke -> 0..PointLimit]
    BY <2>5 DEF Sheets
  <2>9. Seen(longer, Len(wire))'
    <3> SUFFICES ASSUME ~turned', resetKey' = card', NEW j \in 0..Len(wire'), NEW s \in Drawing!Stroke,
                        longer[j].strokes[s] > 0
                 PROVE  s \in hiddenStrokes' \/ pendingStrokes'[s] > 0 \/ model'[s] > 0
      BY DEF Seen
    <3>1. \A i \in 0..n : run[i].strokes[s] > 0 =>
            s \in hiddenStrokes \/ pendingStrokes[s] > 0 \/ model[s] > 0
      BY <1>1, <1>8 DEF RunFits, Seen
    <3>2. e.strokes[s] > 0 => b.strokes[s] > 0
      <4>1. CASE Refuses(b, e, pen)
        BY <4>1 DEF Refuses
      <4>2. CASE Extends(b, e)
        <5>1. CASE s = b.active
          BY <2>6, <4>2, <5>1 DEF Extends
        <5>2. CASE s # b.active
          BY <2>8, <4>2, <5>2 DEF Extends
        <5> QED BY <5>1, <5>2
      <4> QED BY <1>1, <2>7, <4>1, <4>2
    <3>3. \E i \in 0..n : run[i].strokes[s] > 0
      BY <2>3, <2>4, <3>2
    <3> QED BY <1>1, <1>3, <3>1, <3>3, PointNumbers
  <2>10. Ends(longer, Len(wire))'
    <3> SUFFICES ASSUME ~lost', resetKey' = card'
                 PROVE  /\ e.active \in {0, pen} /\ (e.active = pen \/ pen \in e.refused)
                        /\ \A s \in Drawing!Stroke \ e.refused : e.strokes[s] = drawn'[s]
      BY <1>1, <2>3 DEF Ends
    <3>1. /\ b.active \in {0, pen} /\ (b.active = pen \/ pen \in b.refused)
          /\ \A s \in Drawing!Stroke \ b.refused : b.strokes[s] = drawn[s]
      BY <1>1, <1>8, <2>1 DEF RunFits, Ends
    <3>2. resetKey = card
      BY <1>1
    <3> HIDE DEF e, b
    <3>3. CASE Refuses(b, e, pen)
      BY <1>3, <3>1, <3>3 DEF Refuses
    <3>4. CASE Extends(b, e)
      <4>1. b.active = pen /\ e.active = pen /\ e.refused = b.refused
        BY <3>1, <3>4 DEF Extends
      <4>2. e.strokes = [b.strokes EXCEPT ![pen] = b.strokes[pen] + 1]
        BY <3>4, <4>1 DEF Extends
      <4> QED BY <1>2, <1>3, <2>8, <3>1, <4>1, <4>2
    <3> QED BY <2>7, <3>2, <3>3, <3>4
  <2>11. Grows(longer, Len(wire))'
    <3> SUFFICES ASSUME ~lost', ~turned', resetKey' = card', NEW s \in Drawing!Stroke \ hiddenStrokes
                 PROVE  /\ \A j \in 0..Len(wire') : longer[j].strokes[s] <= drawn'[s]
                        /\ \A j \in 1..Len(wire') : longer[j - 1].strokes[s] <= longer[j].strokes[s]
                        /\ pendingStrokes'[s] = drawn'[s] \/ (model[s] = drawn'[s] /\ strokes[s] = drawn'[s])
      BY <1>1 DEF Grows
    <3>1. /\ \A j \in 0..n : run[j].strokes[s] <= drawn[s]
          /\ \A j \in 1..n : run[j - 1].strokes[s] <= run[j].strokes[s]
          /\ pendingStrokes[s] = drawn[s] \/ (model[s] = drawn[s] /\ strokes[s] = drawn[s])
      BY <1>1, <1>8, <2>1 DEF RunFits, Grows
    <3>2. drawn[s] <= drawn'[s] /\ drawn'[s] \in Nat /\ drawn[s] \in Nat
      BY <1>3, PointNumbers
    <3>3. b.active \in {0, pen} /\ b.strokes[s] <= drawn[s] /\ b.strokes[s] \in Nat
      BY <1>1, <1>8, <2>1, <2>4, <2>5, <3>1 DEF RunFits, Ends
    <3>4. b.strokes[s] <= e.strokes[s] /\ e.strokes[s] <= drawn'[s] /\ e.strokes[s] \in Nat
      <4>1. CASE Refuses(b, e, pen)
        BY <3>2, <3>3, <4>1 DEF Refuses
      <4>2. CASE Extends(b, e)
        <5>1. CASE s = pen
          BY <1>2, <1>3, <2>8, <3>3, <4>2, <5>1 DEF Extends
        <5>2. CASE s # pen
          BY <2>8, <3>2, <3>3, <4>2, <5>2 DEF Extends
        <5> QED BY <5>1, <5>2
      <4> QED BY <1>1, <2>7, <4>1, <4>2
    <3>5. \A j \in 0..n : run[j].strokes[s] \in Nat
      BY <1>8, RunSheets
    <3>6. /\ \A j \in 0..(n + 1) : longer[j].strokes[s] <= drawn'[s]
          /\ \A j \in 1..(n + 1) : longer[j - 1].strokes[s] <= longer[j].strokes[s]
      BY <2>3, <2>4, <3>1, <3>2, <3>4, <3>5, GrowsOn
    <3>7. pendingStrokes'[s] = drawn'[s] \/ (model[s] = drawn'[s] /\ strokes[s] = drawn'[s])
      BY <1>2, <1>3, <3>1
    <3> QED BY <2>3, <3>6, <3>7
  <2> QED BY <1>5, <1>6, <1>7, <2>2, <2>3, <2>9, <2>10, <2>11 DEF DrawingInv, RunFits
<1>10. CASE ~linked
  <2>1. lost' /\ UNCHANGED <<wire, linked>>
    BY <1>1, <1>10
  <2>2. /\ WireFits' /\ IsRun(run, wire', card', Sheet')
        /\ Orderly(run, Len(wire'), begun', Drawing!Inked(model)')
    BY <1>1, <1>8, <1>10, <2>1, LineStays, DrawingTypes, SMTT(60) DEF DrawingInv, WireFits
  <2>3. Ends(run, Len(wire))' /\ Grows(run, Len(wire))'
    BY <2>1 DEF Ends, Grows
  <2>4. Seen(run, Len(wire))'
    BY <1>1, <1>2, <1>3, <1>8, <2>1 DEF RunFits, Seen
  <2> QED BY <1>5, <1>6, <1>7, <2>2, <2>3, <2>4 DEF DrawingInv, RunFits
<1> QED BY <1>9, <1>10

\* A blank layer of the phone.
LEMMA BlankLayer == Drawing!Blank \in [Drawing!Stroke -> 0..MaxPoints]
BY DrawingConstants DEF Drawing!Blank, Drawing!Nothing

\* The phone's own state when the pen is lifted, or was not down.
LEMMA PenUpKeeps == ASSUME DrawingInv, Drawing!PenUp PROVE DrawingInv'
<1> DEFINE m == [kind |-> "draw:end", stroke |-> pen, card |-> resetKey]
<1>1. /\ pen # 0 /\ ended' = ended \cup {pen} /\ pen' = 0
      /\ UNCHANGED <<card, strokes, activeStrokeId, refused, resetKey, model, pendingStrokes,
                     hiddenStrokes, begun, drawn, turned, linked>>
      /\ \/ linked /\ wire' = wire \o <<m>> /\ UNCHANGED lost
         \/ ~linked /\ lost' = TRUE /\ UNCHANGED wire
  BY DrawingTypes DEF Drawing!PenUp, Drawing!Send, Drawing!EndInput, Drawing!Input, Drawing!board
<1>2. /\ pen \in Drawing!Stroke /\ pen <= begun
  BY <1>1, DrawingTypes DEF DrawingInv, LayerFits
<1>3. Proper(m) /\ m.kind = "draw:end" /\ m.card = resetKey
  BY <1>2, DrawingTypes DEF Proper, Inputs
<1> HIDE DEF m
<1>4. Drawing!TypeOK'
  <2>1. lost' \in BOOLEAN
    BY <1>1, DrawingTypes
  <2> QED BY <1>1, <1>2, <2>1, DrawingTypes, DrawingOK
<1>5. LayerFits'
  <2> SUFFICES ASSUME NEW s \in Drawing!Stroke
               PROVE  /\ pendingStrokes'[s] \in {0, drawn'[s]}
                      /\ s \in hiddenStrokes' => drawn'[s] = 0 /\ s <= begun'
                      /\ s > begun' => drawn'[s] = 0 /\ model'[s] = 0 /\ s \notin ended'
    BY <1>1 DEF LayerFits
  <2>1. s > begun => s # pen
    BY <1>2, StrokeNumbers, DrawingTypes
  <2>2. /\ pendingStrokes[s] \in {0, drawn[s]}
        /\ s \in hiddenStrokes => drawn[s] = 0 /\ s <= begun
        /\ s > begun => drawn[s] = 0 /\ model[s] = 0 /\ s \notin ended
    BY DEF DrawingInv, LayerFits
  <2> QED BY <1>1, <2>1, <2>2
<1>6. Drawing!InkIsShown'
  <2> SUFFICES ASSUME ~lost', ~turned', NEW s \in Drawing!Stroke PROVE Drawing!Painted(s)' = drawn'[s]
    BY DEF Drawing!InkIsShown
  <2>1. Drawing!Painted(s) = drawn[s]
    BY <1>1, DrawingTypes DEF DrawingInv, Drawing!InkIsShown
  <2> QED BY <1>1, <2>1 DEF Drawing!Painted
<1>7. PICK run : RunFits(run)
  BY DEF DrawingInv
<1>8. CASE linked
  <2>1. wire' = Append(wire, m) /\ UNCHANGED <<lost, linked>>
    BY <1>1, <1>8, DrawingTypes, SMTT(60) DEF DrawingInv, WireFits
  <2>2. /\ WireFits'
        /\ \E longer :
             /\ IsRun(longer, wire', card', Sheet')
             /\ Orderly(longer, Len(wire'), begun', Drawing!Inked(model)')
             /\ Len(wire') = Len(wire) + 1
             /\ \A j \in 0..Len(wire) : longer[j] = run[j]
             /\ longer[Len(wire')] = After(run[Len(wire)], m, card)
    <3>1. m.card <= resetKey /\ linked' /\ begun' \in Nat /\ begun <= begun' /\ m.kind # "draw:start"
      BY <1>1, <1>3, <1>8, DrawingTypes
    <3> QED BY <1>1, <1>3, <1>7, <2>1, <3>1, LineGrows
  <2>3. PICK longer :
             /\ IsRun(longer, wire', card', Sheet')
             /\ Orderly(longer, Len(wire'), begun', Drawing!Inked(model)')
             /\ Len(wire') = Len(wire) + 1
             /\ \A j \in 0..Len(wire) : longer[j] = run[j]
             /\ longer[Len(wire')] = After(run[Len(wire)], m, card)
    BY <2>2
  <2> DEFINE n == Len(wire)
             b == run[n]
             e == longer[n + 1]
  <2>4. n \in Nat /\ n \in 0..n /\ \A j \in 0..(n + 1) : j \in 0..n \/ j = n + 1
    BY DEF DrawingInv, WireFits
  <2>5. b \in Sheets /\ \A s \in Drawing!Stroke : b.strokes[s] \in Nat
    BY <1>7, <2>4, RunSheets
  <2>6. resetKey = card => e.strokes = b.strokes /\ e.active = 0 /\ e.refused = b.refused
    BY <1>3, <2>3, <2>5, AfterEnd DEF Finishes
  <2>7. Seen(longer, Len(wire))'
    <3> SUFFICES ASSUME ~turned', resetKey' = card', NEW j \in 0..Len(wire'), NEW s \in Drawing!Stroke,
                        longer[j].strokes[s] > 0
                 PROVE  s \in hiddenStrokes' \/ pendingStrokes'[s] > 0 \/ model'[s] > 0
      BY DEF Seen
    <3>1. \A i \in 0..n : run[i].strokes[s] > 0 =>
            s \in hiddenStrokes \/ pendingStrokes[s] > 0 \/ model[s] > 0
      BY <1>1, <1>7 DEF RunFits, Seen
    <3>2. \E i \in 0..n : run[i].strokes[s] > 0
      BY <1>1, <2>3, <2>4, <2>6
    <3> QED BY <1>1, <3>1, <3>2
  <2>8. Ends(longer, Len(wire))'
    <3> SUFFICES ASSUME ~lost', resetKey' = card'
                 PROVE  /\ e.active = 0
                        /\ \A s \in Drawing!Stroke \ e.refused : e.strokes[s] = drawn'[s]
      BY <1>1, <2>3 DEF Ends
    <3>1. /\ \A s \in Drawing!Stroke \ b.refused : b.strokes[s] = drawn[s]
      BY <1>1, <1>7, <2>1 DEF RunFits, Ends
    <3> HIDE DEF e, b
    <3> QED BY <1>1, <2>6, <3>1
  <2>9. Grows(longer, Len(wire))'
    <3> SUFFICES ASSUME ~lost', ~turned', resetKey' = card', NEW s \in Drawing!Stroke \ hiddenStrokes
                 PROVE  /\ \A j \in 0..Len(wire') : longer[j].strokes[s] <= drawn'[s]
                        /\ \A j \in 1..Len(wire') : longer[j - 1].strokes[s] <= longer[j].strokes[s]
                        /\ pendingStrokes'[s] = drawn'[s] \/ (model[s] = drawn'[s] /\ strokes[s] = drawn'[s])
      BY <1>1 DEF Grows
    <3>1. /\ \A j \in 0..n : run[j].strokes[s] <= drawn[s]
          /\ \A j \in 1..n : run[j - 1].strokes[s] <= run[j].strokes[s]
          /\ pendingStrokes[s] = drawn[s] \/ (model[s] = drawn[s] /\ strokes[s] = drawn[s])
      BY <1>1, <1>7, <2>1 DEF RunFits, Grows
    <3>2. drawn[s] = drawn'[s] /\ drawn[s] \in Nat /\ drawn[s] <= drawn[s]
      BY <1>1, PointNumbers
    <3>3. b.strokes[s] <= e.strokes[s] /\ e.strokes[s] <= drawn'[s] /\ e.strokes[s] \in Nat
      <4>1. e.strokes[s] = b.strokes[s]
        BY <1>1, <2>6
      <4> QED BY <2>4, <2>5, <3>1, <3>2, <4>1
    <3>4. \A j \in 0..n : run[j].strokes[s] \in Nat
      BY <1>7, RunSheets
    <3>5. /\ \A j \in 0..(n + 1) : longer[j].strokes[s] <= drawn'[s]
          /\ \A j \in 1..(n + 1) : longer[j - 1].strokes[s] <= longer[j].strokes[s]
      BY <2>3, <2>4, <3>1, <3>2, <3>3, <3>4, GrowsOn, ZenonT(60)
    <3> QED BY <1>1, <2>3, <3>1, <3>5
  <2> QED BY <1>4, <1>5, <1>6, <2>2, <2>3, <2>7, <2>8, <2>9 DEF DrawingInv, RunFits
<1>9. CASE ~linked
  <2>1. lost' /\ UNCHANGED <<wire, linked>>
    BY <1>1, <1>9
  <2>2. /\ WireFits' /\ IsRun(run, wire', card', Sheet')
        /\ Orderly(run, Len(wire'), begun', Drawing!Inked(model)')
    BY <1>1, <1>7, <1>9, <2>1, LineStays, DrawingTypes DEF DrawingInv, WireFits
  <2>3. Ends(run, Len(wire))' /\ Grows(run, Len(wire))'
    BY <2>1 DEF Ends, Grows
  <2>4. Seen(run, Len(wire))'
    BY <1>1, <1>7, <2>1 DEF RunFits, Seen
  <2> QED BY <1>4, <1>5, <1>6, <2>2, <2>3, <2>4 DEF DrawingInv, RunFits
<1> QED BY <1>8, <1>9

\* Turning the phone: its own layer is forgotten.
LEMMA RotateKeeps == ASSUME DrawingInv, Drawing!Rotate PROVE DrawingInv'
<1> DEFINE m == [kind |-> "draw:end", stroke |-> pen, card |-> resetKey]
<1>1. /\ pendingStrokes' = Drawing!Blank /\ ended' = {} /\ pen' = 0 /\ hiddenStrokes' = {}
      /\ turned' = TRUE
      /\ UNCHANGED <<card, strokes, activeStrokeId, refused, resetKey, model, begun, drawn, linked>>
      /\ \/ pen = 0 /\ UNCHANGED <<wire, lost>>
         \/ pen # 0 /\ linked /\ wire' = Append(wire, m) /\ UNCHANGED lost
         \/ pen # 0 /\ ~linked /\ lost' = TRUE /\ UNCHANGED wire
  <2>1. wire \in Seq(Inputs)
    BY DEF DrawingInv, WireFits
  <2>2. wire \o <<>> = wire /\ wire \o <<m>> = Append(wire, m)
    BY <2>1
  <2>3. CASE pen = 0
    BY <2>2, <2>3, DrawingTypes
    DEF Drawing!Rotate, Drawing!Send, Drawing!EndInput, Drawing!board
  <2>4. CASE pen # 0
    BY <2>2, <2>4, DrawingTypes
    DEF Drawing!Rotate, Drawing!Send, Drawing!EndInput, Drawing!Input, Drawing!board
  <2> QED BY <2>3, <2>4
<1>2. Proper(m) /\ m.kind = "draw:end" /\ m.card = resetKey
  BY DrawingTypes DEF Proper, Inputs
<1> HIDE DEF m
<1>3. Drawing!TypeOK'
  <2>1. lost' \in BOOLEAN
    BY <1>1, DrawingTypes
  <2> QED BY <1>1, <2>1, BlankLayer, DrawingTypes, DrawingOK
<1>4. LayerFits'
  BY <1>1, BlankSheet DEF DrawingInv, LayerFits
<1>5. Drawing!InkIsShown'
  BY <1>1 DEF Drawing!InkIsShown
<1>6. PICK run : RunFits(run)
  BY DEF DrawingInv
<1>7. \A r, n : Seen(r, n)' /\ Grows(r, n)'
  BY <1>1 DEF Seen, Grows
<1>8. CASE wire' = wire
  <2>1. /\ WireFits' /\ IsRun(run, wire', card', Sheet')
        /\ Orderly(run, Len(wire'), begun', Drawing!Inked(model)')
    BY <1>1, <1>6, <1>8, LineStays, DrawingTypes DEF DrawingInv, WireFits
  <2>2. Ends(run, Len(wire))'
    BY <1>1, <1>6, <1>8 DEF RunFits, Ends
  <2> QED BY <1>3, <1>4, <1>5, <1>7, <2>1, <2>2 DEF DrawingInv, RunFits
<1>9. CASE linked /\ wire' = Append(wire, m) /\ UNCHANGED lost
  <2>1. /\ WireFits'
        /\ \E longer :
             /\ IsRun(longer, wire', card', Sheet')
             /\ Orderly(longer, Len(wire'), begun', Drawing!Inked(model)')
             /\ Len(wire') = Len(wire) + 1
             /\ \A j \in 0..Len(wire) : longer[j] = run[j]
             /\ longer[Len(wire')] = After(run[Len(wire)], m, card)
    <3>1. m.card <= resetKey /\ linked' /\ begun' \in Nat /\ begun <= begun' /\ m.kind # "draw:start"
      BY <1>1, <1>2, <1>9, DrawingTypes
    <3> QED BY <1>1, <1>2, <1>6, <1>9, <3>1, LineGrows
  <2>2. PICK longer :
             /\ IsRun(longer, wire', card', Sheet')
             /\ Orderly(longer, Len(wire'), begun', Drawing!Inked(model)')
             /\ longer[Len(wire')] = After(run[Len(wire)], m, card)
    BY <2>1
  <2>3. Ends(longer, Len(wire))'
    <3> SUFFICES ASSUME ~lost', resetKey' = card'
                 PROVE  /\ longer[Len(wire')].active = 0
                        /\ \A s \in Drawing!Stroke \ longer[Len(wire')].refused :
                             longer[Len(wire')].strokes[s] = drawn'[s]
      BY <1>1 DEF Ends
    <3>1. \A s \in Drawing!Stroke \ run[Len(wire)].refused : run[Len(wire)].strokes[s] = drawn[s]
      BY <1>1, <1>6, <1>9 DEF RunFits, Ends
    <3>2. Finishes(run[Len(wire)], longer[Len(wire')])
      <4>1. Len(wire) \in 0..Len(wire)
        BY DEF DrawingInv, WireFits
      <4>2. run[Len(wire)] \in Sheets
        BY <1>6, <4>1, RunSheets
      <4> QED BY <1>1, <1>2, <2>2, <4>2, AfterEnd
    <3> QED BY <1>1, <3>1, <3>2 DEF Finishes
  <2> QED BY <1>3, <1>4, <1>5, <1>7, <2>1, <2>2, <2>3 DEF DrawingInv, RunFits
<1> QED BY <1>1, <1>8, <1>9

\* An empty line of inputs, whatever the board is.
LEMMA EmptyLine ==
  ASSUME NEW b \in Sheets, NEW c, NEW top \in Nat, NEW seen,
         b.active # 0 => b.strokes[b.active] > 0,
         \A s \in Drawing!Stroke : s > top => b.strokes[s] = 0
  PROVE  LET still == [j \in 0..0 |-> b]
         IN IsRun(still, <<>>, c, b) /\ Orderly(still, 0, top, seen)
<1> DEFINE still == [j \in 0..0 |-> b]
<1>1. \A j \in 0..0 : j = 0
  OBVIOUS
<1>2. still[0] = b /\ still \in [0..0 -> Sheets] /\ Len(<<>>) = 0
  OBVIOUS
<1> HIDE DEF still
<1>3. IsRun(still, <<>>, c, b)
  BY <1>2 DEF IsRun
<1>4. Orderly(still, 0, top, seen)
  BY <1>1, <1>2 DEF Orderly
<1> QED BY <1>3, <1>4 DEF still

\* A line of inputs of other cards leaves a blank board blank.
LEMMA OtherCards ==
  ASSUME NEW line, line \in Seq(Inputs), NEW c, NEW top \in Nat, NEW seen, NEW b \in Sheets,
         b.strokes = Drawing!Blank, b.active = 0,
         \A i \in 1..Len(line) : line[i].card # c
  PROVE  LET still == [j \in 0..Len(line) |-> b]
         IN IsRun(still, line, c, b) /\ Orderly(still, Len(line), top, seen)
<1> DEFINE still == [j \in 0..Len(line) |-> b]
<1>1. Len(line) \in Nat
  OBVIOUS
<1>2. /\ \A j \in 0..Len(line) : still[j] = b
      /\ still \in [0..Len(line) -> Sheets]
  OBVIOUS
<1> HIDE DEF still
<1>3. ASSUME NEW i \in 1..Len(line) PROVE still[i] = After(still[i - 1], line[i], c)
  <2>1. i \in 0..Len(line) /\ i - 1 \in 0..Len(line) /\ line[i].card # c
    BY <1>1
  <2> QED BY <1>2, <2>1 DEF After
<1>4. 0 \in 0..Len(line)
  BY <1>1
<1>5. IsRun(still, line, c, b)
  BY <1>2, <1>3, <1>4 DEF IsRun
<1>6. \A s \in Drawing!Stroke : b.strokes[s] = 0 /\ ~(b.strokes[s] > 0)
  BY BlankSheet
<1>7. Orderly(still, Len(line), top, seen)
  BY <1>2, <1>6 DEF Orderly
<1> QED BY <1>5, <1>7 DEF still

\* The board of a state is a board.
LEMMA SheetNow == ASSUME DrawingInv PROVE Sheet \in Sheets
BY DrawingTypes DEF Sheet, Sheets

\* The connection is lost: nothing more reaches the board.
LEMMA CutKeeps == ASSUME DrawingInv, Drawing!LoseConnection PROVE DrawingInv'
<1>1. /\ linked' = FALSE /\ wire' = <<>> /\ lost' = (lost \/ wire # <<>>)
      /\ UNCHANGED <<card, strokes, activeStrokeId, refused, resetKey, model, pendingStrokes, ended,
                     pen, hiddenStrokes, begun, drawn, turned>>
  BY DEF Drawing!LoseConnection, Drawing!board, Drawing!phone
<1>2. Drawing!TypeOK'
  <2>1. lost' \in BOOLEAN /\ linked' \in BOOLEAN
    BY <1>1, DrawingTypes
  <2> QED BY <1>1, <2>1, DrawingTypes, DrawingOK
<1>3. LayerFits'
  BY <1>1 DEF DrawingInv, LayerFits
<1>4. Sheet' = Sheet /\ Drawing!Inked(model)' = Drawing!Inked(model)
  BY <1>1 DEF Sheet, Drawing!Inked
<1>5. WireFits'
  BY <1>1, <1>4 DEF DrawingInv, WireFits
<1>6. Drawing!InkIsShown'
  <2> SUFFICES ASSUME ~lost', ~turned', NEW s \in Drawing!Stroke PROVE Drawing!Painted(s)' = drawn'[s]
    BY DEF Drawing!InkIsShown
  <2>1. Drawing!Painted(s) = drawn[s]
    BY <1>1, DrawingTypes DEF DrawingInv, Drawing!InkIsShown
  <2> QED BY <1>1, <2>1 DEF Drawing!Painted
<1>7. PICK run : RunFits(run)
  BY DEF DrawingInv
<1>8. Len(wire) \in Nat /\ 0 \in 0..Len(wire) /\ Len(wire') = 0 /\ \A j \in 0..0 : j = 0
  BY <1>1 DEF DrawingInv, WireFits
<1>9. run[0] = Sheet /\ Sheet \in Sheets
  BY <1>7, SheetNow DEF RunFits, IsRun
<1>10. PICK still : still = [j \in 0..0 |-> Sheet]
  OBVIOUS
<1>11. still[0] = run[0]
  BY <1>9, <1>10
<1>12. IsRun(still, wire', card', Sheet') /\ Orderly(still, Len(wire'), begun', Drawing!Inked(model)')
  <2>1. Sheet.active # 0 => Sheet.strokes[Sheet.active] > 0
    BY <1>7, <1>8, <1>9 DEF RunFits, Orderly
  <2>2. \A s \in Drawing!Stroke : s > begun => Sheet.strokes[s] = 0
    BY <1>7, <1>8, <1>9 DEF RunFits, Orderly
  <2>3. IsRun(still, <<>>, card, Sheet) /\ Orderly(still, 0, begun, Drawing!Inked(model))
    BY <1>9, <1>10, <2>1, <2>2, EmptyLine, DrawingTypes
  <2> QED BY <1>1, <1>4, <1>8, <2>3
<1>13. Seen(still, Len(wire))'
  BY <1>1, <1>7, <1>8, <1>11 DEF RunFits, Seen
<1>14. Ends(still, Len(wire))'
  BY <1>1, <1>7, <1>8, <1>11 DEF RunFits, Ends
<1>15. Grows(still, Len(wire))'
  <2> SUFFICES ASSUME ~lost', ~turned', resetKey' = card', NEW s \in Drawing!Stroke \ hiddenStrokes
               PROVE  /\ still[0].strokes[s] <= drawn'[s]
                      /\ pendingStrokes'[s] = drawn'[s] \/ (model[s] = drawn'[s] /\ strokes[s] = drawn'[s])
    BY <1>1, <1>8 DEF Grows
  <2>1. ~lost /\ ~turned /\ resetKey = card
    BY <1>1, DrawingTypes
  <2>2. /\ run[0].strokes[s] <= drawn[s]
        /\ pendingStrokes[s] = drawn[s] \/ (model[s] = drawn[s] /\ strokes[s] = drawn[s])
    BY <1>7, <1>8, <2>1 DEF RunFits, Grows
  <2> QED BY <1>1, <1>11, <2>2
<1> QED BY <1>2, <1>3, <1>5, <1>6, <1>12, <1>13, <1>14, <1>15 DEF DrawingInv, RunFits

\* The connection is back, with nothing on its way.
LEMMA BackKeeps == ASSUME DrawingInv, Drawing!Reconnect PROVE DrawingInv'
<1>1. /\ ~linked /\ linked' = TRUE
      /\ UNCHANGED <<card, strokes, activeStrokeId, refused, resetKey, model, pendingStrokes, ended,
                     pen, hiddenStrokes, begun, drawn, turned, wire, lost>>
  BY DEF Drawing!Reconnect, Drawing!board, Drawing!phone
<1>2. Drawing!TypeOK'
  BY <1>1, DrawingTypes, DrawingOK
<1>3. LayerFits'
  BY <1>1 DEF DrawingInv, LayerFits
<1>4. Drawing!InkIsShown'
  <2> SUFFICES ASSUME ~lost', ~turned', NEW s \in Drawing!Stroke PROVE Drawing!Painted(s)' = drawn'[s]
    BY DEF Drawing!InkIsShown
  <2>1. Drawing!Painted(s) = drawn[s]
    BY <1>1 DEF DrawingInv, Drawing!InkIsShown
  <2> QED BY <1>1, <2>1 DEF Drawing!Painted
<1>5. PICK run : RunFits(run)
  BY DEF DrawingInv
<1>6. /\ WireFits' /\ IsRun(run, wire', card', Sheet')
      /\ Orderly(run, Len(wire'), begun', Drawing!Inked(model)')
  BY <1>1, <1>5, LineStays, DrawingTypes DEF DrawingInv, WireFits
<1>7. Seen(run, Len(wire))'
  BY <1>1, <1>5 DEF RunFits, Seen
<1>8. Ends(run, Len(wire))'
  BY <1>1, <1>5 DEF RunFits, Ends
<1>9. Grows(run, Len(wire))'
  BY <1>1, <1>5 DEF RunFits, Grows
<1> QED BY <1>2, <1>3, <1>4, <1>6, <1>7, <1>8, <1>9 DEF DrawingInv, RunFits

\* The game turns to its next card: what is on its way is of a card that is over.
LEMMA CardKeeps == ASSUME DrawingInv, Drawing!NextCard PROVE DrawingInv'
<1>1. /\ card < MaxCards /\ card' = card + 1 /\ strokes' = Drawing!Blank /\ activeStrokeId' = 0
      /\ refused' = {}
      /\ UNCHANGED <<resetKey, model, pendingStrokes, ended, pen, hiddenStrokes, begun, drawn, turned,
                     linked, wire, lost>>
  BY DrawingTypes DEF Drawing!NextCard, Drawing!net, Drawing!phone
<1>2. /\ card' \in 1..MaxCards /\ resetKey' # card' /\ resetKey' <= card'
      /\ \A i \in 1..Len(wire) : wire[i].card # card'
  <2>1. resetKey <= card /\ \A i \in 1..Len(wire) : wire[i] \in Inputs /\ wire[i].card <= resetKey
    BY DEF DrawingInv, WireFits
  <2>2. \A i \in 1..Len(wire) : wire[i].card \in Nat
    BY <2>1, DrawingConstants DEF Inputs
  <2>3. MaxCards \in Nat
    BY DrawingConstants
  <2>4. card' \in 1..MaxCards /\ resetKey < card'
    BY <1>1, <2>1, <2>3, DrawingTypes
  <2>5. ASSUME NEW i \in 1..Len(wire) PROVE wire[i].card # card'
    <3>1. wire[i].card \in Nat /\ wire[i].card <= resetKey
      BY <2>1, <2>2
    <3> QED BY <2>4, <3>1, DrawingTypes
  <2> QED BY <1>1, <2>4, <2>5, DrawingTypes
<1>3. Drawing!TypeOK'
  BY <1>1, <1>2, DrawingTypes, DrawingOK, BlankSheet
<1>4. LayerFits'
  BY <1>1 DEF DrawingInv, LayerFits
<1>5. Drawing!InkIsShown'
  <2> SUFFICES ASSUME ~lost', ~turned', NEW s \in Drawing!Stroke PROVE Drawing!Painted(s)' = drawn'[s]
    BY DEF Drawing!InkIsShown
  <2>1. Drawing!Painted(s) = drawn[s]
    BY <1>1 DEF DrawingInv, Drawing!InkIsShown
  <2> QED BY <1>1, <2>1 DEF Drawing!Painted
<1>6. Sheet' = [strokes |-> Drawing!Blank, active |-> 0, refused |-> {}]
  BY <1>1 DEF Sheet
<1>7. WireFits'
  BY <1>1, <1>2, <1>6 DEF DrawingInv, WireFits
<1>8. PICK still : still = [j \in 0..Len(wire') |-> Sheet']
  OBVIOUS
<1>9. IsRun(still, wire', card', Sheet') /\ Orderly(still, Len(wire'), begun', Drawing!Inked(model)')
  <2>1. Sheet' \in Sheets /\ Sheet'.strokes = Drawing!Blank /\ Sheet'.active = 0
    BY <1>6, BlankSheet DEF Sheets
  <2>2. wire' \in Seq(Inputs) /\ \A i \in 1..Len(wire') : wire'[i].card # card'
    BY <1>1, <1>2 DEF DrawingInv, WireFits
  <2>3. begun' \in Nat
    BY <1>1, DrawingTypes
  <2> QED BY <1>8, <2>1, <2>2, <2>3, OtherCards
<1>10. Seen(still, Len(wire))' /\ Ends(still, Len(wire))' /\ Grows(still, Len(wire))'
  BY <1>2 DEF Seen, Ends, Grows
<1> QED BY <1>3, <1>4, <1>5, <1>7, <1>9, <1>10 DEF DrawingInv, RunFits

\* The board handles the first input on its way.
LEMMA HandleIsAfter ==
  ASSUME DrawingInv, Drawing!Handle
  PROVE  /\ wire # <<>> /\ wire' = Tail(wire) /\ Sheet' = After(Sheet, wire[1], card)
         /\ UNCHANGED <<card, linked, lost, resetKey, model, pendingStrokes, ended, pen, hiddenStrokes,
                        begun, drawn, turned>>
<1>1. /\ wire # <<>> /\ wire' = Tail(wire) /\ wire[1] = Head(wire)
      /\ UNCHANGED <<card, linked, lost, resetKey, model, pendingStrokes, ended, pen, hiddenStrokes,
                     begun, drawn, turned>>
  BY DEF Drawing!Handle, Drawing!phone, Drawing!net
<1> DEFINE m == wire[1]
<1>2. CASE m.card # card
  BY <1>1, <1>2 DEF Drawing!Handle, Sheet, After
<1>3. CASE m.card = card
  <2>1. Drawing!Apply(m)
    BY <1>1, <1>3 DEF Drawing!Handle
  <2>2. CASE m.kind = "draw:start" /\ Drawing!Start(m.stroke)
    BY <1>1, <1>3, <2>2 DEF Drawing!Start, Sheet, After
  <2>3. CASE m.kind = "draw:move" /\ Drawing!Move(m.stroke)
    BY <1>1, <1>3, <2>3, DrawingTypes DEF Drawing!Move, Sheet, After
  <2>4. CASE m.kind = "draw:end" /\ activeStrokeId' = Drawing!Nothing /\ UNCHANGED <<strokes, refused>>
    BY <1>1, <1>3, <2>4, DrawingTypes DEF Sheet, After
  <2>5. CASE m.kind = "draw:clear" /\ Drawing!Clear
    BY <1>1, <1>3, <2>5, DrawingTypes DEF Drawing!Clear, Sheet, After
  <2> QED BY <2>1, <2>2, <2>3, <2>4, <2>5 DEF Drawing!Apply
<1> QED BY <1>1, <1>2, <1>3

\* A run goes on from its second board.
LEMMA RunGoesOn ==
  ASSUME NEW line, line \in Seq(Inputs), line # <<>>, NEW c, NEW b, NEW run, IsRun(run, line, c, b),
         NEW top, NEW seen, Orderly(run, Len(line), top, seen)
  PROVE  \E rest : /\ IsRun(rest, Tail(line), c, After(b, line[1], c))
                   /\ Orderly(rest, Len(Tail(line)), top, seen)
                   /\ \A j \in 0..Len(Tail(line)) : rest[j] = run[j + 1]
<1> DEFINE n == Len(line)
           rest == [j \in 0..(n - 1) |-> run[j + 1]]
<1>1. /\ n \in Nat /\ n >= 1 /\ Len(Tail(line)) = n - 1
      /\ \A i \in 1..(n - 1) : Tail(line)[i] = line[i + 1]
  OBVIOUS
<1> HIDE DEF n
<1>2. \A j \in 0..(n - 1) : rest[j] = run[j + 1] /\ j + 1 \in 0..n /\ j + 1 \in 1..n
  BY <1>1
<1>3. run \in [0..n -> Sheets] /\ run[0] = b /\ \A i \in 1..n : run[i] = After(run[i - 1], line[i], c)
  BY DEF IsRun, n
<1>4. rest \in [0..(n - 1) -> Sheets]
  BY <1>2, <1>3
<1> HIDE DEF rest
<1>5. rest[0] = After(b, line[1], c)
  <2>1. 0 \in 0..(n - 1) /\ 1 \in 1..n /\ 0 + 1 = 1 /\ 1 - 1 = 0
    BY <1>1
  <2> QED BY <1>2, <1>3, <2>1
<1>6. ASSUME NEW i \in 1..(n - 1) PROVE rest[i] = After(rest[i - 1], Tail(line)[i], c)
  <2>1. i \in 0..(n - 1) /\ i - 1 \in 0..(n - 1) /\ (i - 1) + 1 = i /\ i + 1 \in 1..n /\ (i + 1) - 1 = i
    BY <1>1
  <2> QED BY <1>1, <1>2, <1>3, <2>1
<1>7. IsRun(rest, Tail(line), c, After(b, line[1], c))
  BY <1>1, <1>4, <1>5, <1>6 DEF IsRun
<1>8. Orderly(rest, n - 1, top, seen)
  <2>1. \A j \in 0..(n - 1) : rest[j].active # 0 => rest[j].strokes[rest[j].active] > 0
    BY <1>2 DEF Orderly, n
  <2>2. \A j \in 0..(n - 1), s \in Drawing!Stroke : s > top => rest[j].strokes[s] = 0
    BY <1>2 DEF Orderly, n
  <2>3. ASSUME NEW s \in Drawing!Stroke, NEW k \in 0..(n - 1), NEW o \in 0..(n - 1), k <= o,
               rest[k].strokes[s] = 0, s \in seen \/ \E j \in 0..k : rest[j].strokes[s] > 0
        PROVE  rest[o].strokes[s] = 0
    <3>1. k + 1 \in 0..n /\ o + 1 \in 0..n /\ k + 1 <= o + 1 /\ run[k + 1].strokes[s] = 0
      BY <1>1, <1>2, <2>3
    <3>2. s \in seen \/ \E j \in 0..(k + 1) : run[j].strokes[s] > 0
      <4>1. CASE s \in seen
        BY <4>1
      <4>2. CASE \E j \in 0..k : rest[j].strokes[s] > 0
        <5>1. PICK j \in 0..k : rest[j].strokes[s] > 0
          BY <4>2
        <5>2. j \in 0..(n - 1) /\ j + 1 \in 0..(k + 1)
          BY <1>1
        <5> QED BY <1>2, <5>1, <5>2
      <4> QED BY <2>3, <4>1, <4>2
    <3>3. run[o + 1].strokes[s] = 0
      BY <3>1, <3>2 DEF Orderly, n
    <3> QED BY <1>2, <3>3
  <2> QED BY <2>1, <2>2, <2>3 DEF Orderly
<1> QED BY <1>1, <1>2, <1>7, <1>8

\* An input reaches the board.
LEMMA DrawingHandleKeeps == ASSUME DrawingInv, Drawing!Handle PROVE DrawingInv'
<1>1. /\ wire # <<>> /\ wire' = Tail(wire) /\ Sheet' = After(Sheet, wire[1], card)
      /\ UNCHANGED <<card, linked, lost, resetKey, model, pendingStrokes, ended, pen, hiddenStrokes,
                     begun, drawn, turned>>
  BY HandleIsAfter
<1>2. wire \in Seq(Inputs) /\ Len(wire) \in Nat /\ Len(wire) >= 1 /\ Len(wire') = Len(wire) - 1
      /\ wire' \in Seq(Inputs) /\ \A i \in 1..Len(wire') : wire'[i] = wire[i + 1]
  BY <1>1 DEF DrawingInv, WireFits
<1>3. PICK run : RunFits(run)
  BY DEF DrawingInv
<1>4. run[0] = Sheet /\ run[1] = Sheet' /\ run[1] \in Sheets /\ 0 \in 0..Len(wire) /\ 1 \in 1..Len(wire)
  <2>1. 1 \in 1..Len(wire) /\ 1 \in 0..Len(wire) /\ 1 - 1 = 0 /\ 0 \in 0..Len(wire)
    BY <1>2
  <2> QED BY <1>1, <1>3, <2>1 DEF RunFits, IsRun
<1>5. Drawing!TypeOK'
  <2>1. /\ strokes' \in [Drawing!Stroke -> 0..PointLimit] /\ activeStrokeId' \in Drawing!Stroke \cup {0}
        /\ refused' \in SUBSET Drawing!Stroke
    BY <1>4 DEF Sheet, Sheets
  <2> QED BY <1>1, <2>1, DrawingTypes, DrawingOK
<1>6. LayerFits'
  BY <1>1 DEF DrawingInv, LayerFits
<1>7. Drawing!InkIsShown'
  <2> SUFFICES ASSUME ~lost', ~turned', NEW s \in Drawing!Stroke PROVE Drawing!Painted(s)' = drawn'[s]
    BY DEF Drawing!InkIsShown
  <2>1. Drawing!Painted(s) = drawn[s]
    BY <1>1 DEF DrawingInv, Drawing!InkIsShown
  <2> QED BY <1>1, <2>1 DEF Drawing!Painted
<1>8. WireFits'
  <2>1. ASSUME NEW i \in 1..Len(wire') PROVE wire'[i].card <= resetKey
    <3>1. i + 1 \in 1..Len(wire)
      BY <1>2
    <3> QED BY <1>2, <3>1 DEF DrawingInv, WireFits
  <2>2. ASSUME resetKey # card PROVE Sheet' = Sheet
    <3>1. wire[1].card <= resetKey /\ resetKey <= card /\ wire[1] \in Inputs
      BY <1>2, <1>4 DEF DrawingInv, WireFits
    <3>2. wire[1].card # card
      BY <2>2, <3>1, DrawingTypes DEF Inputs
    <3> QED BY <1>1, <3>2 DEF After
  <2>3. ~linked' => wire' = <<>>
    BY <1>1 DEF DrawingInv, WireFits
  <2> QED BY <1>1, <1>2, <2>1, <2>2, <2>3 DEF DrawingInv, WireFits
<1>9. PICK rest : /\ IsRun(rest, wire', card', Sheet')
                  /\ Orderly(rest, Len(wire'), begun', Drawing!Inked(model)')
                  /\ \A j \in 0..Len(wire') : rest[j] = run[j + 1]
  <2>1. Drawing!Inked(model)' = Drawing!Inked(model)
    BY <1>1 DEF Drawing!Inked
  <2> QED BY <1>1, <1>2, <1>3, <2>1, RunGoesOn DEF RunFits
<1>10. \A j \in 0..Len(wire') : j + 1 \in 0..Len(wire)
  BY <1>2
<1>11. Seen(rest, Len(wire))'
  BY <1>1, <1>3, <1>9, <1>10 DEF RunFits, Seen
<1>12. Ends(rest, Len(wire))'
  <2>1. rest[Len(wire')] = run[Len(wire)]
    BY <1>2, <1>9
  <2> QED BY <1>1, <1>3, <2>1 DEF RunFits, Ends
<1>13. Grows(rest, Len(wire))'
  <2> SUFFICES ASSUME ~lost', ~turned', resetKey' = card', NEW s \in Drawing!Stroke \ hiddenStrokes
               PROVE  /\ \A j \in 0..Len(wire') : rest[j].strokes[s] <= drawn'[s]
                      /\ \A j \in 1..Len(wire') : rest[j - 1].strokes[s] <= rest[j].strokes[s]
                      /\ pendingStrokes'[s] = drawn'[s] \/ (model[s] = drawn'[s] /\ strokes'[s] = drawn'[s])
    BY <1>1 DEF Grows
  <2>1. /\ \A j \in 0..Len(wire) : run[j].strokes[s] <= drawn[s]
        /\ \A j \in 1..Len(wire) : run[j - 1].strokes[s] <= run[j].strokes[s]
        /\ pendingStrokes[s] = drawn[s] \/ (model[s] = drawn[s] /\ strokes[s] = drawn[s])
    BY <1>1, <1>3 DEF RunFits, Grows
  <2>2. \A j \in 0..Len(wire') : rest[j].strokes[s] <= drawn'[s]
    BY <1>1, <1>9, <1>10, <2>1
  <2>3. ASSUME NEW j \in 1..Len(wire') PROVE rest[j - 1].strokes[s] <= rest[j].strokes[s]
    <3>1. j \in 0..Len(wire') /\ j - 1 \in 0..Len(wire') /\ (j - 1) + 1 = j /\ j + 1 \in 1..Len(wire) /\ (j + 1) - 1 = j
      BY <1>2
    <3> QED BY <1>9, <2>1, <3>1
  <2>4. strokes[s] = drawn[s] => strokes'[s] = drawn[s]
    <3>1. run[1 - 1].strokes[s] <= run[1].strokes[s] /\ 1 \in 0..Len(wire)
      BY <1>2, <1>4, <2>1
    <3>2. strokes[s] <= strokes'[s] /\ strokes'[s] <= drawn[s]
      BY <1>4, <2>1, <3>1 DEF Sheet
    <3>3. strokes'[s] \in Nat
      BY <1>4, DrawingConstants DEF Sheet, Sheets
    <3> QED BY <3>2, <3>3, PointNumbers
  <2> QED BY <1>1, <2>1, <2>2, <2>3, <2>4
<1> QED BY <1>5, <1>6, <1>7, <1>8, <1>9, <1>11, <1>12, <1>13 DEF DrawingInv, RunFits

\* A snapshot of the card the phone draws on: what the board has is taken off the phone's layer.
LEMMA SnapshotOfThisCard == ASSUME DrawingInv, Drawing!Snapshot, card = resetKey PROVE DrawingInv'
<1>1. /\ model' = strokes
      /\ pendingStrokes' = [s \in Drawing!Stroke |-> IF Drawing!Confirmed(s) THEN 0 ELSE pendingStrokes[s]]
      /\ ended' = {s \in ended : ~Drawing!Confirmed(s)}
      /\ turned' = (turned /\ (wire # <<>> \/ refused # {}))
      /\ UNCHANGED <<resetKey, card, strokes, activeStrokeId, refused, linked, wire, lost, pen, hiddenStrokes,
                     begun, drawn>>
  BY DrawingTypes DEF Drawing!Snapshot, Drawing!board, Drawing!net
<1>2. \A s \in Drawing!Stroke :
        Drawing!Confirmed(s) => s \in ended /\ strokes[s] # 0 /\ strokes[s] >= pendingStrokes[s]
  BY DrawingTypes DEF Drawing!Confirmed
<1>3. ASSUME NEW s \in Drawing!Stroke
      PROVE  \/ Drawing!Confirmed(s) /\ pendingStrokes'[s] = 0
             \/ ~Drawing!Confirmed(s) /\ pendingStrokes'[s] = pendingStrokes[s]
  BY <1>1
<1>4. Drawing!TypeOK'
  <2>1. pendingStrokes' \in [Drawing!Stroke -> 0..MaxPoints]
    BY <1>1, DrawingTypes, DrawingConstants
  <2>2. ended' \in SUBSET Drawing!Stroke /\ turned' \in BOOLEAN
    BY <1>1, DrawingTypes
  <2> HIDE DEF Drawing!Confirmed
  <2> QED BY <1>1, <2>1, <2>2, DrawingTypes, DrawingOK
<1>5. PICK run : RunFits(run)
  BY DEF DrawingInv
<1>6. /\ wire \in Seq(Inputs) /\ Len(wire) \in Nat /\ 0 \in 0..Len(wire)
      /\ run[0] = Sheet /\ run[0].strokes = strokes
  BY <1>5 DEF DrawingInv, WireFits, RunFits, IsRun, Sheet
<1>7. LayerFits'
  <2> SUFFICES ASSUME NEW s \in Drawing!Stroke
               PROVE  /\ pendingStrokes'[s] \in {0, drawn[s]}
                      /\ s > begun => model'[s] = 0 /\ s \notin ended'
                      /\ s = pen => pendingStrokes'[s] = drawn[s] /\ s \notin ended'
    BY <1>1, DrawingTypes DEF DrawingInv, LayerFits
  <2>1. pendingStrokes'[s] \in {0, drawn[s]}
    BY <1>3 DEF DrawingInv, LayerFits
  <2>2. s > begun => model'[s] = 0 /\ s \notin ended'
    <3>1. s > begun => run[0].strokes[s] = 0 /\ s \notin ended
      BY <1>5, <1>6 DEF DrawingInv, LayerFits, RunFits, Orderly
    <3> QED BY <1>1, <1>6, <3>1
  <2>3. s = pen => pendingStrokes'[s] = drawn[s] /\ s \notin ended'
    <3>1. s = pen => s # 0
      BY StrokeNumbers
    <3>2. s = pen => pendingStrokes[s] = drawn[s] /\ s \notin ended
      BY <3>1 DEF DrawingInv, LayerFits
    <3> QED BY <1>1, <1>2, <1>3, <3>2
  <2> QED BY <2>1, <2>2, <2>3
<1>8. WireFits'
  BY <1>1 DEF DrawingInv, WireFits, Sheet
<1>9. /\ IsRun(run, wire', card', Sheet')
      /\ Orderly(run, Len(wire'), begun', Drawing!Inked(model)')
  <2>1. IsRun(run, wire', card', Sheet')
    BY <1>1, <1>5 DEF RunFits, Sheet
  <2>2. \A s \in Drawing!Inked(model)' : s \in Drawing!Stroke /\ run[0].strokes[s] > 0
    BY <1>1, <1>6, PointNumbers, DrawingTypes DEF Drawing!Inked
  <2>3. \A k \in 0..Len(wire) : 0 \in 0..k
    OBVIOUS
  <2>4. Orderly(run, Len(wire), begun, Drawing!Inked(model)')
    BY <1>5, <2>2, <2>3 DEF RunFits, Orderly
  <2> QED BY <1>1, <2>1, <2>4
<1>10. turned /\ ~turned' => wire = <<>> /\ refused = {} /\ Len(wire) = 0
  BY <1>1
<1>11. Seen(run, Len(wire))'
  <2> SUFFICES ASSUME ~turned', NEW j \in 0..Len(wire), NEW s \in Drawing!Stroke,
                      run[j].strokes[s] > 0, strokes[s] = 0
               PROVE  s \in hiddenStrokes \/ pendingStrokes'[s] > 0
    BY <1>1, PointNumbers DEF Seen
  <2>1. Len(wire) # 0
    BY <1>6
  <2>2. ~turned
    BY <1>10, <2>1
  <2>3. s \in hiddenStrokes \/ pendingStrokes[s] > 0 \/ model[s] > 0
    BY <1>5, <2>2 DEF RunFits, Seen
  <2>4. model[s] = 0
    <3> SUFFICES ASSUME model[s] # 0 PROVE FALSE
      OBVIOUS
    <3>1. s \in Drawing!Inked(model)
      BY DrawingTypes DEF Drawing!Inked
    <3>2. run[j].strokes[s] = 0
      BY <1>5, <1>6, <3>1 DEF RunFits, Orderly
    <3> QED BY <3>2
  <2>5. ~Drawing!Confirmed(s)
    BY <1>2
  <2> QED BY <1>3, <2>3, <2>4, <2>5
<1>12. Ends(run, Len(wire))'
  BY <1>1, <1>5 DEF RunFits, Ends
<1>13. Grows(run, Len(wire))'
  <2> SUFFICES ASSUME ~lost, ~turned', NEW s \in Drawing!Stroke \ hiddenStrokes
               PROVE  /\ \A j \in 0..Len(wire) : run[j].strokes[s] <= drawn[s]
                      /\ \A j \in 1..Len(wire) : run[j - 1].strokes[s] <= run[j].strokes[s]
                      /\ pendingStrokes'[s] = drawn[s] \/ strokes[s] = drawn[s]
    BY <1>1 DEF Grows
  <2>1. CASE turned
    <3>1. wire = <<>> /\ refused = {} /\ Len(wire) = 0 /\ run[0].refused = {}
      BY <1>6, <1>10, <2>1 DEF Sheet
    <3>2. run[0].strokes[s] = drawn[s]
      BY <1>5, <3>1 DEF RunFits, Ends
    <3>3. strokes[s] = drawn[s] /\ drawn[s] <= drawn[s]
      BY <1>6, <3>2, PointNumbers
    <3>4. \A j \in 0..Len(wire) : j = 0
      BY <3>1
    <3>5. \A j \in 1..Len(wire) : FALSE
      BY <3>1
    <3> QED BY <3>2, <3>3, <3>4, <3>5
  <2>2. CASE ~turned
    <3>1. /\ \A j \in 0..Len(wire) : run[j].strokes[s] <= drawn[s]
          /\ \A j \in 1..Len(wire) : run[j - 1].strokes[s] <= run[j].strokes[s]
          /\ pendingStrokes[s] = drawn[s] \/ strokes[s] = drawn[s]
      BY <1>5, <2>2 DEF RunFits, Grows
    <3>2. strokes[s] <= drawn[s]
      BY <1>6, <3>1
    <3>3. Drawing!Confirmed(s) => strokes[s] >= pendingStrokes[s]
      BY <1>2
    <3>4. pendingStrokes'[s] = drawn[s] \/ strokes[s] = drawn[s]
      BY <1>3, <3>1, <3>2, <3>3, PointNumbers
    <3> QED BY <3>1, <3>4
  <2> QED BY <2>1, <2>2
<1>14. Drawing!InkIsShown'
  <2> SUFFICES ASSUME ~lost', ~turned', NEW s \in Drawing!Stroke PROVE Drawing!Painted(s)' = drawn'[s]
    BY DEF Drawing!InkIsShown
  <2>1. pendingStrokes'[s] \in {0, drawn[s]} /\ drawn[s] \in Nat /\ strokes[s] \in Nat
    BY <1>1, <1>7, PointNumbers DEF LayerFits
  <2>2. CASE s \in hiddenStrokes
    <3>1. drawn[s] = 0
      BY <2>2 DEF DrawingInv, LayerFits
    <3> QED BY <1>1, <2>1, <2>2, <3>1, DrawingTypes DEF Drawing!Painted
  <2>3. CASE s \notin hiddenStrokes
    <3>1. strokes[s] <= drawn[s] /\ (pendingStrokes'[s] = drawn[s] \/ strokes[s] = drawn[s])
      BY <1>1, <1>6, <1>13, <2>3 DEF Grows
    <3> QED BY <1>1, <2>1, <2>3, <3>1 DEF Drawing!Painted
  <2> QED BY <2>2, <2>3
<1> QED BY <1>4, <1>7, <1>8, <1>9, <1>11, <1>12, <1>13, <1>14 DEF DrawingInv, RunFits

\* The first snapshot of a card: the phone starts afresh.
LEMMA SnapshotOfNewCard == ASSUME DrawingInv, Drawing!Snapshot, card # resetKey PROVE DrawingInv'
<1> DEFINE m == [kind |-> "draw:end", stroke |-> pen, card |-> resetKey]
<1>1. /\ resetKey' = card /\ model' = strokes /\ pendingStrokes' = Drawing!Blank /\ ended' = {} /\ pen' = 0
      /\ hiddenStrokes' = {} /\ drawn' = Drawing!Blank /\ turned' = FALSE /\ lost' = FALSE
      /\ wire' = wire \/ wire' = Append(wire, m)
      /\ linked /\ UNCHANGED <<card, strokes, activeStrokeId, refused, begun, linked>>
  <2>1. wire \in Seq(Inputs)
    BY DEF DrawingInv, WireFits
  <2>2. wire \o <<>> = wire /\ wire \o <<m>> = Append(wire, m)
    BY <2>1
  <2> QED BY <2>2, DrawingTypes
      DEF Drawing!Snapshot, Drawing!EndInput, Drawing!Input, Drawing!board
<1>2. m \in Inputs /\ m.card = resetKey /\ resetKey <= card
  BY DrawingTypes DEF Inputs, DrawingInv, WireFits
<1> HIDE DEF m
<1>3. Sheet' = [strokes |-> Drawing!Blank, active |-> 0, refused |-> {}] /\ strokes = Drawing!Blank
      /\ refused = {} /\ activeStrokeId = 0
  BY <1>1 DEF DrawingInv, WireFits, Sheet
<1>4. Drawing!TypeOK'
  <2>1. lost' \in BOOLEAN /\ turned' \in BOOLEAN
    BY <1>1
  <2> QED BY <1>1, <2>1, BlankLayer, DrawingTypes, DrawingOK
<1>5. LayerFits'
  BY <1>1, <1>3, BlankSheet DEF LayerFits
<1>6. Drawing!InkIsShown'
  <2> SUFFICES ASSUME NEW s \in Drawing!Stroke PROVE Drawing!Painted(s)' = drawn'[s]
    BY DEF Drawing!InkIsShown
  <2> QED BY <1>1, <1>3, BlankSheet, DrawingTypes DEF Drawing!Painted
<1>7. wire' \in Seq(Inputs) /\ \A i \in 1..Len(wire') : wire'[i].card < card
  <2>1. /\ wire \in Seq(Inputs) /\ \A i \in 1..Len(wire) : wire[i].card <= resetKey /\ wire[i] \in Inputs
    BY DEF DrawingInv, WireFits
  <2>2. resetKey < card
    BY <1>2, DrawingTypes
  <2>3. ASSUME NEW i \in 1..Len(wire) PROVE wire[i].card < card
    BY <2>1, <2>2, DrawingTypes, SMTT(60) DEF Inputs
  <2>4. CASE wire' = wire
    BY <2>1, <2>3, <2>4
  <2>5. CASE wire' = Append(wire, m)
    <3>1. /\ wire' \in Seq(Inputs) /\ Len(wire') = Len(wire) + 1
          /\ \A i \in 1..Len(wire') : wire'[i] = IF i = Len(wire) + 1 THEN m ELSE wire[i]
      BY <1>2, <2>1, <2>5
    <3> QED BY <1>2, <2>1, <2>2, <2>3, <3>1
  <2> QED BY <1>1, <2>4, <2>5
<1>8. WireFits'
  <2>1. ASSUME NEW i \in 1..Len(wire') PROVE wire'[i].card <= resetKey'
    <3>1. wire'[i] \in Inputs /\ wire'[i].card < card
      BY <1>7
    <3>2. wire'[i].card \in Nat
      BY <3>1, DrawingConstants DEF Inputs
    <3> QED BY <1>1, <3>1, <3>2, DrawingTypes, SMTT(60)
  <2>2. resetKey' = card' /\ card' \in Nat /\ linked'
    BY <1>1, DrawingTypes
  <2> QED BY <1>7, <2>1, <2>2 DEF WireFits
<1>9. PICK still : still = [j \in 0..Len(wire') |-> Sheet']
  OBVIOUS
<1>10. Sheet' \in Sheets /\ Sheet'.strokes = Drawing!Blank /\ Sheet'.active = 0
  BY <1>3, BlankSheet DEF Sheets
<1>11. IsRun(still, wire', card', Sheet') /\ Orderly(still, Len(wire'), begun', Drawing!Inked(model)')
  <2>1. \A i \in 1..Len(wire') : wire'[i].card # card'
    BY <1>1, <1>7, DrawingTypes, SMTT(60) DEF Inputs
  <2>2. begun' \in Nat
    BY <1>1, DrawingTypes
  <2> QED BY <1>7, <1>9, <1>10, <2>1, <2>2, OtherCards
<1>12. Len(wire') \in Nat /\ \A j \in 0..Len(wire') : still[j] = Sheet'
  BY <1>7, <1>9
<1>13. Seen(still, Len(wire))'
  BY <1>10, <1>12, BlankSheet DEF Seen
<1>14. Ends(still, Len(wire))'
  BY <1>1, <1>10, <1>12 DEF Ends
<1>15. Grows(still, Len(wire))'
  <2>1. \A j \in 1..Len(wire') : j \in 0..Len(wire') /\ j - 1 \in 0..Len(wire')
    BY <1>12
  <2> QED BY <1>1, <1>10, <1>12, <2>1, BlankSheet DEF Grows
<1> QED BY <1>4, <1>5, <1>6, <1>8, <1>11, <1>13, <1>14, <1>15 DEF DrawingInv, RunFits

\* Clearing the drawing: what the phone knows of is hidden until the board is empty.
LEMMA ClearKeeps == ASSUME DrawingInv, Drawing!ClearDrawing PROVE DrawingInv'
<1> DEFINE up == [kind |-> "draw:end", stroke |-> pen, card |-> resetKey]
           m == [kind |-> "draw:clear", stroke |-> 0, card |-> resetKey]
<1>1. /\ hiddenStrokes' = hiddenStrokes \cup Drawing!Inked(model) \cup Drawing!Inked(pendingStrokes)
      /\ pendingStrokes' = Drawing!Blank /\ ended' = {} /\ pen' = 0 /\ drawn' = Drawing!Blank
      /\ UNCHANGED <<card, strokes, activeStrokeId, refused, resetKey, model, begun, turned, linked>>
      /\ \/ /\ linked /\ lost' = FALSE
            /\ \/ wire' = Append(wire, m)
               \/ pen # 0 /\ wire' = Append(Append(wire, up), m)
         \/ ~linked /\ lost' = TRUE /\ UNCHANGED wire
  <2>1. wire \in Seq(Inputs)
    BY DEF DrawingInv, WireFits
  <2>2. CASE linked
    <3>1. (wire \o <<>>) \o <<m>> = Append(wire, m) /\ (wire \o <<up>>) \o <<m>> = Append(Append(wire, up), m)
      BY <2>1
    <3>2. CASE pen = 0
      BY <2>2, <3>1, <3>2, DrawingTypes DEF Drawing!ClearDrawing, Drawing!EndInput, Drawing!Input, Drawing!board
    <3>3. CASE pen # 0
      BY <2>2, <3>1, <3>3, DrawingTypes DEF Drawing!ClearDrawing, Drawing!EndInput, Drawing!Input, Drawing!board
    <3> QED BY <3>2, <3>3
  <2>3. CASE ~linked
    BY <2>3, DrawingTypes DEF Drawing!ClearDrawing, Drawing!board
  <2> QED BY <2>2, <2>3, DrawingTypes
<1>2. Proper(m) /\ m.kind = "draw:clear" /\ m.card = resetKey
  BY DrawingTypes DEF Proper, Inputs
<1>3. pen # 0 => Proper(up) /\ up.kind = "draw:end" /\ up.card = resetKey
  BY DrawingTypes DEF Proper, Inputs
<1> HIDE DEF m, up
<1>4. /\ hiddenStrokes \subseteq hiddenStrokes'
      /\ \A s \in Drawing!Stroke : s \in hiddenStrokes' \/ (model[s] = 0 /\ pendingStrokes[s] = 0)
  BY <1>1, DrawingTypes DEF Drawing!Inked
<1>5. Drawing!TypeOK'
  <2>1. lost' \in BOOLEAN /\ hiddenStrokes' \in SUBSET Drawing!Stroke
    BY <1>1, DrawingTypes DEF Drawing!Inked
  <2> QED BY <1>1, <2>1, BlankLayer, DrawingTypes, DrawingOK
<1>6. LayerFits'
  <2>1. ASSUME NEW s \in Drawing!Stroke, s \in hiddenStrokes' PROVE s <= begun
    <3>1. s \in hiddenStrokes \/ model[s] # 0 \/ pendingStrokes[s] # 0
      BY <1>1, <2>1, DrawingTypes DEF Drawing!Inked
    <3>2. ~(s > begun)
      BY <3>1, PointNumbers, DrawingTypes DEF DrawingInv, LayerFits
    <3> QED BY <3>2, StrokeNumbers, DrawingTypes
  <2>2. \A s \in Drawing!Stroke : s > begun => model[s] = 0
    BY DEF DrawingInv, LayerFits
  <2> QED BY <1>1, <2>1, <2>2, BlankSheet DEF LayerFits
<1>7. Drawing!InkIsShown'
  <2> SUFFICES ASSUME NEW s \in Drawing!Stroke PROVE Drawing!Painted(s)' = drawn'[s]
    BY DEF Drawing!InkIsShown
  <2> QED BY <1>1, <1>4, BlankSheet, DrawingTypes DEF Drawing!Painted
<1>8. PICK run : RunFits(run)
  BY DEF DrawingInv
<1>9. wire \in Seq(Inputs) /\ Len(wire) \in Nat /\ Sheet' = Sheet /\ Drawing!Inked(model)' = Drawing!Inked(model)
  BY <1>1 DEF DrawingInv, WireFits, Sheet, Drawing!Inked
<1>10. CASE linked
  \* The line with the end of the pen's stroke.
  <2> DEFINE Ended(line, more) ==
          /\ line \in Seq(Inputs) /\ wire' = Append(line, m)
          /\ \A i \in 1..Len(line) : line[i].card <= resetKey
          /\ IsRun(more, line, card, Sheet) /\ Orderly(more, Len(line), begun, Drawing!Inked(model))
          /\ \A j \in 0..Len(line) : \E i \in 0..Len(wire) : more[j].strokes = run[i].strokes
  <2>1. \E line, more : Ended(line, more)
    <3>1. CASE wire' = Append(wire, m)
      <4>1. \A i \in 1..Len(wire) : wire[i].card <= resetKey
        BY DEF DrawingInv, WireFits
      <4> QED BY <1>8, <1>9, <3>1, <4>1 DEF RunFits
    <3>2. CASE pen # 0 /\ wire' = Append(Append(wire, up), m)
      <4>1. PICK more :
              /\ IsRun(more, Append(wire, up), card, Sheet)
              /\ Orderly(more, Len(wire) + 1, begun, Drawing!Inked(model))
              /\ \A j \in 0..Len(wire) : more[j] = run[j]
              /\ more[Len(wire) + 1] = After(run[Len(wire)], up, card)
        <5>1. begun \in Nat /\ begun <= begun /\ up.kind # "draw:start"
          BY <1>3, <3>2, DrawingTypes
        <5>2. IsRun(run, wire, card, Sheet) /\ Orderly(run, Len(wire), begun, Drawing!Inked(model))
          BY <1>8 DEF RunFits
        <5>3. wire \in Seq(Inputs) /\ Proper(up)
          BY <1>3, <1>9, <3>2
        <5> QED BY <5>1, <5>2, <5>3, RunExtends, SMTT(60)
      <4>2. up \in Inputs /\ Append(wire, up) \in Seq(Inputs) /\ Len(Append(wire, up)) = Len(wire) + 1
            /\ \A i \in 1..(Len(wire) + 1) : Append(wire, up)[i] = IF i = Len(wire) + 1 THEN up ELSE wire[i]
        BY <1>3, <1>9, <3>2 DEF Proper
      <4>3. \A i \in 1..Len(Append(wire, up)) : Append(wire, up)[i].card <= resetKey
        BY <1>3, <3>2, <4>2, DrawingTypes, SMTT(60) DEF DrawingInv, WireFits
      <4>4. more[Len(wire) + 1].strokes = run[Len(wire)].strokes
        <5>1. run[Len(wire)] \in Sheets
          BY <1>8, <1>9, RunSheets
        <5> QED BY <1>3, <3>2, <4>1, <5>1 DEF After, Sheets
      <4>5. \A j \in 0..(Len(wire) + 1) : \E i \in 0..Len(wire) : more[j].strokes = run[i].strokes
        <5>1. Len(wire) \in 0..Len(wire) /\ \A j \in 0..(Len(wire) + 1) : j \in 0..Len(wire) \/ j = Len(wire) + 1
          BY <1>9
        <5> QED BY <4>1, <4>4, <5>1
      <4>6. /\ Append(wire, up) \in Seq(Inputs) /\ wire' = Append(Append(wire, up), m)
            /\ \A i \in 1..Len(Append(wire, up)) : Append(wire, up)[i].card <= resetKey
            /\ IsRun(more, Append(wire, up), card, Sheet)
            /\ Orderly(more, Len(Append(wire, up)), begun, Drawing!Inked(model))
            /\ \A j \in 0..Len(Append(wire, up)) : \E i \in 0..Len(wire) : more[j].strokes = run[i].strokes
        BY <3>2, <4>1, <4>2, <4>3, <4>5
      <4>7. PICK line : line = Append(wire, up)
        OBVIOUS
      <4>8. Ended(line, more)
        BY <4>6, <4>7, Zenon
      <4> HIDE DEF Ended
      <4> QED BY <4>8
    <3> QED BY <1>1, <1>10, <3>1, <3>2
  <2> HIDE DEF Ended
  <2>14. PICK line, more : Ended(line, more)
    BY <2>1
  <2>2.   /\ line \in Seq(Inputs) /\ wire' = Append(line, m)
          /\ \A i \in 1..Len(line) : line[i].card <= resetKey
          /\ IsRun(more, line, card, Sheet) /\ Orderly(more, Len(line), begun, Drawing!Inked(model))
          /\ \A j \in 0..Len(line) : \E i \in 0..Len(wire) : more[j].strokes = run[i].strokes
    BY <2>14 DEF Ended
  <2>3. PICK longer :
          /\ IsRun(longer, Append(line, m), card, Sheet)
          /\ Orderly(longer, Len(line) + 1, begun, Drawing!Inked(model))
          /\ \A j \in 0..Len(line) : longer[j] = more[j]
          /\ longer[Len(line) + 1] = After(more[Len(line)], m, card)
    <3>1. begun \in Nat /\ begun <= begun /\ m.kind # "draw:start"
      BY <1>2, DrawingTypes
    <3> QED BY <1>2, <2>2, <3>1, RunExtends
  <2>4. /\ Len(line) \in Nat /\ m \in Inputs /\ wire' \in Seq(Inputs) /\ Len(wire') = Len(line) + 1
        /\ \A i \in 1..Len(wire') : wire'[i] = IF i = Len(line) + 1 THEN m ELSE line[i]
        /\ \A j \in 0..Len(wire') : j \in 0..Len(line) \/ j = Len(line) + 1
        /\ Len(line) \in 0..Len(line)
    BY <1>2, <2>2 DEF Proper
  <2>5. more[Len(line)] \in Sheets
    BY <2>2, <2>4 DEF IsRun
  <2>6. resetKey = card => longer[Len(line) + 1].strokes = Drawing!Blank /\ longer[Len(line) + 1].active = 0
    BY <1>2, <2>3, <2>5, AfterClear DEF Empties
  <2>7. WireFits'
    <3>1. \A i \in 1..Len(wire') : wire'[i].card <= resetKey
      BY <1>2, <2>2, <2>4, DrawingTypes
    <3> QED BY <1>1, <1>9, <1>10, <2>4, <3>1 DEF DrawingInv, WireFits
  <2>8. ASSUME ~turned, resetKey = card, NEW j \in 0..Len(wire'), NEW s \in Drawing!Stroke, s \notin hiddenStrokes'
        PROVE  longer[j].strokes[s] = 0
    <3>1. CASE j = Len(line) + 1
      BY <2>6, <2>8, <3>1, BlankSheet
    <3>2. CASE j \in 0..Len(line)
      <4>1. PICK i \in 0..Len(wire) : longer[j].strokes = run[i].strokes
        BY <2>2, <2>3, <3>2
      <4>2. run[i].strokes[s] \in Nat
        BY <1>8, RunSheets
      <4>3. ~(run[i].strokes[s] > 0)
        BY <1>4, <1>8, <2>8 DEF RunFits, Seen
      <4> QED BY <4>1, <4>2, <4>3
    <3> QED BY <2>4, <3>1, <3>2
  <2>9. Seen(longer, Len(wire))'
    BY <1>1, <2>8 DEF Seen
  <2>10. Ends(longer, Len(wire))'
    BY <1>1, <2>4, <2>6 DEF Ends
  <2>11. Grows(longer, Len(wire))'
    <3> SUFFICES ASSUME ~turned, resetKey = card, NEW s \in Drawing!Stroke \ hiddenStrokes'
                 PROVE  /\ \A j \in 0..Len(wire') : longer[j].strokes[s] <= 0
                        /\ \A j \in 1..Len(wire') : longer[j - 1].strokes[s] <= longer[j].strokes[s]
      BY <1>1, BlankSheet DEF Grows
    <3>1. \A j \in 0..Len(wire') : longer[j].strokes[s] = 0
      BY <2>8
    <3>2. \A j \in 1..Len(wire') : j \in 0..Len(wire') /\ j - 1 \in 0..Len(wire')
      BY <2>4
    <3> QED BY <3>1, <3>2
  <2>12. IsRun(longer, wire', card', Sheet') /\ Orderly(longer, Len(wire'), begun', Drawing!Inked(model)')
    BY <1>1, <1>9, <2>2, <2>3, <2>4
  <2> QED BY <1>5, <1>6, <1>7, <2>7, <2>9, <2>10, <2>11, <2>12 DEF DrawingInv, RunFits
<1>11. CASE ~linked
  <2>1. lost' /\ UNCHANGED <<wire, linked>>
    BY <1>1, <1>11
  <2>2. /\ WireFits' /\ IsRun(run, wire', card', Sheet')
        /\ Orderly(run, Len(wire'), begun', Drawing!Inked(model)')
    BY <1>1, <1>8, <1>11, <2>1, LineStays, DrawingTypes DEF DrawingInv, WireFits
  <2>3. Ends(run, Len(wire))' /\ Grows(run, Len(wire))'
    BY <2>1 DEF Ends, Grows
  <2>4. Seen(run, Len(wire))'
    BY <1>1, <1>4, <1>8, <2>1, PointNumbers DEF RunFits, Seen
  <2> QED BY <1>5, <1>6, <1>7, <2>2, <2>3, <2>4 DEF DrawingInv, RunFits
<1> QED BY <1>10, <1>11, DrawingTypes

\* The board begins blank.
LEMMA DrawingInit == ASSUME Drawing!Init PROVE DrawingInv
<1>1. /\ card = 1 /\ strokes = Drawing!Blank /\ activeStrokeId = 0 /\ refused = {}
      /\ linked = TRUE /\ wire = <<>> /\ lost = FALSE /\ resetKey = 1 /\ model = Drawing!Blank
      /\ pendingStrokes = Drawing!Blank /\ ended = {} /\ pen = 0 /\ hiddenStrokes = {} /\ begun = 0
      /\ drawn = Drawing!Blank /\ turned = FALSE
  BY DEF Drawing!Init, Drawing!Nothing
<1>2. Drawing!TypeOK
  <2>1. 1 \in 1..MaxCards /\ 0 \in 0..MaxStrokes
    BY DrawingConstants
  <2>2. /\ {strokes, model} \subseteq Drawing!Points(PointLimit)
        /\ {pendingStrokes, drawn} \subseteq Drawing!Points(MaxPoints)
    BY <1>1, BlankSheet, BlankLayer DEF Drawing!Points
  <2> QED BY <1>1, <2>1, <2>2 DEF Drawing!TypeOK, Drawing!Nothing
<1>3. WireFits
  BY <1>1 DEF WireFits
<1>4. LayerFits
  BY <1>1, BlankSheet DEF LayerFits
<1>5. Drawing!InkIsShown
  BY <1>1, BlankSheet DEF Drawing!InkIsShown, Drawing!Painted, Drawing!Nothing
<1>6. Sheet = [strokes |-> Drawing!Blank, active |-> 0, refused |-> {}] /\ Sheet \in Sheets
  BY <1>1, BlankSheet DEF Sheet, Sheets
<1>7. PICK still : still = [j \in 0..Len(wire) |-> Sheet]
  OBVIOUS
<1>8. IsRun(still, wire, card, Sheet) /\ Orderly(still, Len(wire), begun, Drawing!Inked(model))
  <2>1. wire \in Seq(Inputs) /\ Len(wire) = 0 /\ begun \in Nat
    BY <1>1
  <2>2. \A i \in 1..Len(wire) : wire[i].card # card
    BY <2>1
  <2> QED BY <1>6, <1>7, <2>1, <2>2, OtherCards
<1>9. /\ Len(wire) = 0 /\ still[0] = Sheet
      /\ \A j \in 0..Len(wire) : still[j] = Sheet
      /\ \A j \in 1..Len(wire) : FALSE
  BY <1>1, <1>7
<1>10. Seen(still, Len(wire)) /\ Ends(still, Len(wire))
  BY <1>1, <1>6, <1>9, BlankSheet DEF Seen, Ends
<1>11. Grows(still, Len(wire))
  BY <1>1, <1>6, <1>9, BlankSheet DEF Grows
<1> QED BY <1>2, <1>3, <1>4, <1>5, <1>8, <1>10, <1>11 DEF DrawingInv, RunFits

\* A step of something else.
LEMMA DrawingStays == ASSUME DrawingInv, UNCHANGED Drawing!vars PROVE DrawingInv'
<1>1. UNCHANGED <<card, strokes, activeStrokeId, refused, linked, wire, lost, resetKey, model,
                  pendingStrokes, ended, pen, hiddenStrokes, begun, drawn, turned>>
  BY DEF Drawing!vars, Drawing!board, Drawing!phone, Drawing!net
<1>2. Sheet' = Sheet /\ Drawing!Inked(model)' = Drawing!Inked(model)
  BY <1>1 DEF Sheet, Drawing!Inked
<1>3. Drawing!TypeOK' /\ LayerFits' /\ WireFits'
  BY <1>1, <1>2 DEF DrawingInv, Drawing!TypeOK, LayerFits, WireFits
<1>4. Drawing!InkIsShown'
  BY <1>1 DEF DrawingInv, Drawing!InkIsShown, Drawing!Painted
<1>5. PICK run : RunFits(run)
  BY DEF DrawingInv
<1>6. Seen(run, Len(wire))' /\ Ends(run, Len(wire))' /\ Grows(run, Len(wire))'
  BY <1>1, <1>5 DEF RunFits, Seen, Ends, Grows
<1>7. IsRun(run, wire', card', Sheet') /\ Orderly(run, Len(wire'), begun', Drawing!Inked(model)')
  BY <1>1, <1>2, <1>5 DEF RunFits
<1> QED BY <1>3, <1>4, <1>6, <1>7 DEF DrawingInv, RunFits

\* Every step of the drawing keeps the invariant.
LEMMA DrawingKept == ASSUME DrawingInv, [Drawing!Next]_(Drawing!vars) PROVE DrawingInv'
<1>1. CASE Drawing!Snapshot
  BY <1>1, SnapshotOfThisCard, SnapshotOfNewCard
<1> QED BY <1>1, PenDownKeeps, PenMoveKeeps, PenUpKeeps, ClearKeeps, RotateKeeps, DrawingHandleKeeps, CardKeeps,
           CutKeeps, BackKeeps, DrawingStays DEF Drawing!Next

\* The board when all has arrived: the last board of the run is the board there is.
LEMMA DrawingArrives == ASSUME DrawingInv PROVE Drawing!StrokesSettle
<1> SUFFICES ASSUME Drawing!Settled, NEW s \in Drawing!Stroke \ refused PROVE strokes[s] = drawn[s]
  BY DEF DrawingInv, Drawing!StrokesSettle, Drawing!BoardIsTheDrawing
<1>1. PICK run : RunFits(run)
  BY DEF DrawingInv
<1>2. Len(wire) = 0 /\ run[0] = Sheet
  BY <1>1 DEF Drawing!Settled, RunFits, IsRun
<1> QED BY <1>1, <1>2 DEF RunFits, Ends, Drawing!Settled, Sheet

\* The phone shows the drawing unless an input was lost in an outage or it has just been turned,
\* and the board is the drawing when everything has arrived and nothing was lost.
THEOREM DrawingSettles == Drawing!Spec => []Drawing!StrokesSettle
<1>1. DrawingInv => Drawing!StrokesSettle
  BY DrawingArrives
<1>2. Drawing!Init => DrawingInv
  BY DrawingInit
<1>3. DrawingInv /\ [Drawing!Next]_(Drawing!vars) => DrawingInv'
  BY DrawingKept
<1> QED BY <1>1, <1>2, <1>3, PTL DEF Drawing!Spec

\* The values a drawing takes.
THEOREM DrawingTypeOK == Drawing!Spec => []Drawing!TypeOK
<1>1. DrawingInv => Drawing!TypeOK
  BY DEF DrawingInv
<1>2. Drawing!Init => DrawingInv
  BY DrawingInit
<1>3. DrawingInv /\ [Drawing!Next]_(Drawing!vars) => DrawingInv'
  BY DrawingKept
<1> QED BY <1>1, <1>2, <1>3, PTL DEF Drawing!Spec

-----------------------------------------------------------------------------
(* The plans of a round.                                                   *)

SlotNumbers == 0..(Slots - 1)

\* The first slot that is not among those of a set, as FindFirstOpenSlot finds it.
LEMMA FirstOpenSlot ==
  ASSUME NEW filled,
         NEW first, first = IF SlotNumbers \subseteq filled THEN Slots - 1 ELSE Arena!Min(SlotNumbers \ filled)
  PROVE  /\ first \in SlotNumbers
         /\ ~(SlotNumbers \subseteq filled) => first \notin filled
<1> DEFINE T == SlotNumbers \ filled
<1>1. CASE SlotNumbers \subseteq filled
  BY <1>1, ArenaConstants DEF SlotNumbers
<1>2. CASE ~(SlotNumbers \subseteq filled)
  <2>1. first = Arena!Min(T)
    BY <1>2
  <2>2. T # {} /\ T \in SUBSET Nat
    BY <1>2, ArenaConstants DEF SlotNumbers
  <2>3. \E m \in T : \A y \in T : m <= y
    <3> HIDE DEF T
    <3> QED BY <2>2, Smallest
  <2>4. Arena!Min(T) \in T
    BY <2>3 DEF Arena!Min
  <2> QED BY <1>2, <2>1, <2>4
<1> QED BY <1>1, <1>2

\* Counting on from a slot, round the end, comes to every other slot.
LEMMA SlotsComeRound ==
  ASSUME NEW slot \in SlotNumbers, NEW x \in SlotNumbers, x # slot
  PROVE  \E i \in 1..Slots : (slot + i) % Slots = x
<1>1. Slots \in Nat /\ Slots > 0 /\ slot \in Nat /\ x \in Nat /\ slot < Slots /\ x < Slots
  BY ArenaConstants DEF SlotNumbers
<1>2. CASE x > slot
  <2>1. x - slot \in 1..Slots /\ slot + (x - slot) = x
    BY <1>1, <1>2
  <2>2. x % Slots = x
    BY <1>1
  <2> QED BY <2>1, <2>2
<1>3. CASE x < slot
  <2>1. (x - slot) + Slots \in 1..Slots /\ slot + ((x - slot) + Slots) = x + Slots
    BY <1>1, <1>3
  <2>2. (x + Slots) % Slots = x
    BY <1>1
  <2> QED BY <2>1, <2>2
<1> QED BY <1>1, <1>2, <1>3

\* The slot after one, as FindNextOpenSlotAfter finds it.
LEMMA NextOpenSlot ==
  ASSUME NEW slot \in SlotNumbers
  PROVE  /\ Arena!FindNextOpenSlotAfter(slot) \in SlotNumbers
         /\ ~(SlotNumbers \subseteq Arena!Filled \cup {slot})
              => Arena!FindNextOpenSlotAfter(slot) \notin Arena!Filled \cup {slot}
<1> DEFINE open == {i \in 1..Slots : (slot + i) % Slots \notin Arena!Filled \cup {slot}}
<1>1. Arena!FindNextOpenSlotAfter(slot) = IF open = {} THEN slot ELSE (slot + Arena!Min(open)) % Slots
  BY DEF Arena!FindNextOpenSlotAfter
<1>2. Slots \in Nat \ {0} /\ slot \in Nat
  BY ArenaConstants DEF SlotNumbers
<1>3. open \in SUBSET Nat
  BY <1>2
<1>4. CASE open = {}
  <2>1. ASSUME NEW x \in SlotNumbers, x \notin Arena!Filled \cup {slot} PROVE FALSE
    <3>1. PICK i \in 1..Slots : (slot + i) % Slots = x
      BY <2>1, SlotsComeRound
    <3>2. i \in open
      BY <2>1, <3>1
    <3> QED BY <1>4, <3>2
  <2> HIDE DEF open
  <2> QED BY <1>1, <1>4, <2>1
<1>5. CASE open # {}
  <2>1. \E m \in open : \A y \in open : m <= y
    <3> HIDE DEF open
    <3> QED BY <1>3, <1>5, Smallest
  <2>2. Arena!Min(open) \in open
    BY <2>1 DEF Arena!Min
  <2>3. PICK m \in open : m = Arena!Min(open)
    BY <2>2
  <2>4. m \in Nat /\ (slot + m) % Slots \notin Arena!Filled \cup {slot}
    BY <1>2, <2>3
  <2>5. (slot + m) % Slots \in SlotNumbers
    BY <1>2, <2>4 DEF SlotNumbers
  <2> HIDE DEF open
  <2> QED BY <1>1, <1>5, <2>3, <2>4, <2>5
<1> QED BY <1>4, <1>5

\* A plan of an action for a slot, and two that do not go together.
Planned == [slot : SlotNumbers, figure : DOMAIN Home, mode : Arena!Mode]

Clash(p, q) == p.figure = q.figure \/ (p.mode = "sprint" /\ q.mode = "sprint")

\* The values of a draft.
ArenaTypes ==
  /\ holes \subseteq Board /\ slotIndex \in SlotNumbers
  /\ figureId \in DOMAIN Home \cup {Arena!Nobody} /\ plan \in Arena!Mode
  /\ way \in Seq(Board) /\ target \in Board \cup {Arena!NoField}
  /\ DOMAIN ownPlans \subseteq SlotNumbers /\ ownPlans = [s \in DOMAIN ownPlans |-> ownPlans[s]]
  /\ \A s \in DOMAIN ownPlans : ownPlans[s] \in Planned /\ ownPlans[s].slot = s
  /\ onTheWay \in Seq(Planned)
  /\ clashing \in BOOLEAN /\ confirms \in 0..MaxConfirms /\ slotPicks \in 0..ArenaPicks

\* With a plan on its way nothing is drafted; without, the draft goes with every plan of another
\* slot.  Either way the next slot is open, as long as the player goes where the phone leads.
PlansFit ==
  ~clashing =>
    /\ \A s, t \in DOMAIN ownPlans : s # t => ~Clash(ownPlans[s], ownPlans[t])
    /\ onTheWay # <<>> =>
         /\ Len(onTheWay) = 1 /\ figureId = Arena!Nobody /\ plan = "move"
         /\ \A s \in DOMAIN ownPlans \ {onTheWay[1].slot} : ~Clash(ownPlans[s], onTheWay[1])
    /\ onTheWay = <<>> =>
         \A s \in DOMAIN ownPlans \ {slotIndex} :
           /\ figureId # Arena!Nobody => ownPlans[s].figure # figureId
           /\ plan = "sprint" => ownPlans[s].mode # "sprint"
    /\ slotPicks = 0 =>
         LET filled == DOMAIN ownPlans \cup {onTheWay[i].slot : i \in DOMAIN onTheWay}
         IN  ~(SlotNumbers \subseteq filled) => slotIndex \notin filled

ArenaInv == ArenaTypes /\ PlansFit

-----------------------------------------------------------------------------
(* The search: the functions it is made of.                                *)

Begin(from) == [visited |-> {from}, queue |-> <<[at |-> from, way |-> <<>>]>>, found |-> <<>>]

\* There is a function of turns for every length.
LEMMA TurnsExist ==
  ASSUME NEW from, NEW to, NEW limit
  PROVE  \A m \in Nat : \E turn : turn = [n \in 0..m |->
           IF n = 0 THEN Begin(from) ELSE Arena!Expand(turn[n - 1], n, to, limit)]
<1> DEFINE S == {m \in Nat : \E turn : turn = [n \in 0..m |->
                   IF n = 0 THEN Begin(from) ELSE Arena!Expand(turn[n - 1], n, to, limit)]}
<1>1. 0 \in S
  <2> DEFINE turn == [n \in 0..0 |-> Begin(from)]
  <2>1. \A n \in 0..0 : n = 0
    OBVIOUS
  <2>2. turn = [n \in 0..0 |-> IF n = 0 THEN Begin(from) ELSE Arena!Expand(turn[n - 1], n, to, limit)]
    BY <2>1
  <2> HIDE DEF turn
  <2> QED BY <2>2
<1>2. ASSUME NEW m \in Nat, m \in S PROVE m + 1 \in S
  <2>1. PICK f : f = [n \in 0..m |->
                        IF n = 0 THEN Begin(from) ELSE Arena!Expand(f[n - 1], n, to, limit)]
    BY <1>2
  <2> DEFINE turn == [n \in 0..(m + 1) |->
                        IF n = 0 THEN Begin(from) ELSE Arena!Expand(f[n - 1], n, to, limit)]
  <2>2. ASSUME NEW n \in 0..m PROVE turn[n] = f[n]
    <3>1. n \in 0..(m + 1)
      OBVIOUS
    <3>2. turn[n] = IF n = 0 THEN Begin(from) ELSE Arena!Expand(f[n - 1], n, to, limit)
      BY <3>1
    <3>3. f[n] = IF n = 0 THEN Begin(from) ELSE Arena!Expand(f[n - 1], n, to, limit)
      BY <2>1
    <3> QED BY <3>2, <3>3
  <2>3. \A n \in 0..(m + 1) : n # 0 => n - 1 \in 0..m
    OBVIOUS
  <2>4. turn = [n \in 0..(m + 1) |->
                  IF n = 0 THEN Begin(from) ELSE Arena!Expand(turn[n - 1], n, to, limit)]
    <3>1. \A n \in 0..(m + 1) : turn[n] = IF n = 0 THEN Begin(from) ELSE Arena!Expand(f[n - 1], n, to, limit)
      OBVIOUS
    <3>2. turn = [n \in 0..(m + 1) |-> turn[n]]
      OBVIOUS
    <3> HIDE DEF turn
    <3>3. \A n \in 0..(m + 1) :
            turn[n] = IF n = 0 THEN Begin(from) ELSE Arena!Expand(turn[n - 1], n, to, limit)
      BY <2>2, <2>3, <3>1
    <3> QED BY <3>2, <3>3
  <2> HIDE DEF turn
  <2> QED BY <2>4
<1> HIDE DEF S
<1>3. \A m \in Nat : m \in S
  BY <1>1, <1>2, SetInduction
<1> QED BY <1>3 DEF S

\* Turns is that function.
LEMMA TurnsAre ==
  ASSUME NEW from, NEW to, NEW limit, IsFiniteSet(Board)
  PROVE  LET turn == Arena!Turns(from, to, limit)
         IN  /\ turn[0] = Begin(from)
             /\ \A n \in 1..Cardinality(Board) : turn[n] = Arena!Expand(turn[n - 1], n, to, limit)
<1> DEFINE turn == CHOOSE f : f = [n \in 0..Cardinality(Board) |->
                     IF n = 0 THEN Begin(from) ELSE Arena!Expand(f[n - 1], n, to, limit)]
<1>1. Cardinality(Board) \in Nat
  BY FS_CardinalityType
<1>2. turn = [n \in 0..Cardinality(Board) |->
                     IF n = 0 THEN Begin(from) ELSE Arena!Expand(turn[n - 1], n, to, limit)]
  BY <1>1, TurnsExist
<1>3. Arena!Turns(from, to, limit) = turn
  BY SameCardinality DEF Arena!Turns, Begin
<1> HIDE DEF turn
<1>4. \A n \in 0..Cardinality(Board) :
        turn[n] = IF n = 0 THEN Begin(from) ELSE Arena!Expand(turn[n - 1], n, to, limit)
  BY <1>2
<1>5. 0 \in 0..Cardinality(Board) /\ \A n \in 1..Cardinality(Board) : n \in 0..Cardinality(Board) /\ n # 0
  BY <1>1
<1> QED BY <1>3, <1>4, <1>5

\* Visits goes through the six neighbours in their order.
LEMMA VisitsAre ==
  ASSUME NEW search, NEW from, NEW to
  PROVE  LET after == Arena!Visits(search, from, to)
         IN  /\ after[0] = search
             /\ \A i \in 1..6 : after[i] = Arena!Visit(after[i - 1], Arena!GetNeighbors(from.at)[i], from, to)
<1> DEFINE V(q, i) == Arena!Visit(q, Arena!GetNeighbors(from.at)[i], from, to)
           v1 == V(search, 1)
           v2 == V(v1, 2)
           v3 == V(v2, 3)
           v4 == V(v3, 4)
           v5 == V(v4, 5)
           v6 == V(v5, 6)
           g == [i \in 0..6 |-> IF i = 0 THEN search ELSE IF i = 1 THEN v1 ELSE IF i = 2 THEN v2
                                ELSE IF i = 3 THEN v3 ELSE IF i = 4 THEN v4 ELSE IF i = 5 THEN v5 ELSE v6]
           after == CHOOSE f : f = [i \in 0..6 |-> IF i = 0 THEN search ELSE V(f[i - 1], i)]
<1> HIDE DEF v1, v2, v3, v4, v5, v6, V
<1>1. /\ v1 = V(search, 1) /\ v2 = V(v1, 2) /\ v3 = V(v2, 3) /\ v4 = V(v3, 4) /\ v5 = V(v4, 5)
      /\ v6 = V(v5, 6)
  BY DEF v1, v2, v3, v4, v5, v6
<1>2. /\ g[0] = search /\ g[1] = v1 /\ g[2] = v2 /\ g[3] = v3 /\ g[4] = v4 /\ g[5] = v5 /\ g[6] = v6
      /\ g = [i \in 0..6 |-> g[i]]
  OBVIOUS
<1> HIDE DEF g
<1>3. g = [i \in 0..6 |-> IF i = 0 THEN search ELSE V(g[i - 1], i)]
  <2>1. \A i \in 0..6 : i \in {0, 1, 2, 3, 4, 5, 6}
    OBVIOUS
  <2>2. \A i \in 0..6 : g[i] = IF i = 0 THEN search ELSE V(g[i - 1], i)
    <3> TAKE i \in 0..6
    <3>1. CASE i = 0
      BY <1>2, <3>1
    <3>2. CASE i = 1
      BY <1>1, <1>2, <3>2
    <3>3. CASE i = 2
      BY <1>1, <1>2, <3>3
    <3>4. CASE i = 3
      BY <1>1, <1>2, <3>4
    <3>5. CASE i = 4
      BY <1>1, <1>2, <3>5
    <3>6. CASE i = 5
      BY <1>1, <1>2, <3>6
    <3>7. CASE i = 6
      BY <1>1, <1>2, <3>7
    <3> QED BY <2>1, <3>1, <3>2, <3>3, <3>4, <3>5, <3>6, <3>7
  <2> QED BY <1>2, <2>2
<1>4. after = [i \in 0..6 |-> IF i = 0 THEN search ELSE V(after[i - 1], i)]
  BY <1>3
<1>5. Arena!Visits(search, from, to) = after
  BY DEF Arena!Visits, V
<1> HIDE DEF after
<1>6. after[0] = search /\ \A i \in 1..6 : after[i] = V(after[i - 1], i)
  BY <1>4
<1> QED BY <1>5, <1>6 DEF V

\* Walking, one step at a time.
LEMMA WalksAre ==
  ASSUME NEW from
  PROVE  /\ Arena!Within(from, 0) = {from}
         /\ \A n \in 0..3 : Arena!Within(from, n + 1) = Arena!Onwards(Arena!Within(from, n))
<1> DEFINE w1 == Arena!Onwards({from})
           w2 == Arena!Onwards(w1)
           w3 == Arena!Onwards(w2)
           w4 == Arena!Onwards(w3)
           g == [n \in 0..4 |-> IF n = 0 THEN {from} ELSE IF n = 1 THEN w1 ELSE IF n = 2 THEN w2
                                ELSE IF n = 3 THEN w3 ELSE w4]
           reach == CHOOSE f : f = [n \in 0..4 |-> IF n = 0 THEN {from} ELSE Arena!Onwards(f[n - 1])]
<1> HIDE DEF w1, w2, w3, w4
<1>1. /\ w1 = Arena!Onwards({from}) /\ w2 = Arena!Onwards(w1) /\ w3 = Arena!Onwards(w2)
      /\ w4 = Arena!Onwards(w3)
  BY DEF w1, w2, w3, w4
<1>2. /\ g[0] = {from} /\ g[1] = w1 /\ g[2] = w2 /\ g[3] = w3 /\ g[4] = w4
      /\ g = [n \in 0..4 |-> g[n]]
  OBVIOUS
<1> HIDE DEF g
<1>3. g = [n \in 0..4 |-> IF n = 0 THEN {from} ELSE Arena!Onwards(g[n - 1])]
  <2>1. \A n \in 0..4 : n \in {0, 1, 2, 3, 4}
    OBVIOUS
  <2>2. \A n \in 0..4 : g[n] = IF n = 0 THEN {from} ELSE Arena!Onwards(g[n - 1])
    <3> TAKE n \in 0..4
    <3>1. CASE n = 0
      BY <1>2, <3>1
    <3>2. CASE n = 1
      BY <1>1, <1>2, <3>2
    <3>3. CASE n = 2
      BY <1>1, <1>2, <3>3
    <3>4. CASE n = 3
      BY <1>1, <1>2, <3>4
    <3>5. CASE n = 4
      BY <1>1, <1>2, <3>5
    <3> QED BY <2>1, <3>1, <3>2, <3>3, <3>4, <3>5
  <2> QED BY <1>2, <2>2
<1>4. reach = [n \in 0..4 |-> IF n = 0 THEN {from} ELSE Arena!Onwards(reach[n - 1])]
  BY <1>3
<1>5. Arena!Walks(from) = reach
  BY DEF Arena!Walks
<1> HIDE DEF reach
<1>6. reach[0] = {from} /\ \A n \in 0..3 : reach[n + 1] = Arena!Onwards(reach[n])
  <2>1. \A n \in 0..4 : reach[n] = IF n = 0 THEN {from} ELSE Arena!Onwards(reach[n - 1])
    BY <1>4
  <2>2. \A n \in 0..3 : n + 1 \in 0..4 /\ n + 1 # 0 /\ (n + 1) - 1 = n
    OBVIOUS
  <2> QED BY <2>1, <2>2
<1> QED BY <1>5, <1>6 DEF Arena!Within

\* Neighbours touch, and fields that touch are neighbours.
LEMMA NeighboursTouch ==
  ASSUME NEW a \in Int \X Int, NEW b \in Int \X Int
  PROVE  Arena!Touch(a, b) <=> \E i \in 1..6 : b = Arena!GetNeighbors(a)[i]
<1> DEFINE x == b[1] - a[1]
           y == b[2] - a[2]
<1>1. /\ a[1] \in Int /\ a[2] \in Int /\ b[1] \in Int /\ b[2] \in Int /\ b = <<b[1], b[2]>>
      /\ x \in Int /\ y \in Int
  OBVIOUS
<1>2. /\ Arena!GetNeighbors(a)[1] = <<a[1] + 1, a[2] + 0>> /\ Arena!GetNeighbors(a)[2] = <<a[1] + 1, a[2] + -1>>
      /\ Arena!GetNeighbors(a)[3] = <<a[1] + 0, a[2] + -1>> /\ Arena!GetNeighbors(a)[4] = <<a[1] + -1, a[2] + 0>>
      /\ Arena!GetNeighbors(a)[5] = <<a[1] + -1, a[2] + 1>> /\ Arena!GetNeighbors(a)[6] = <<a[1] + 0, a[2] + 1>>
  BY DEF Arena!GetNeighbors, Arena!HexDirections, Arena!AddCoords
<1>3. (\E i \in 1..6 : b = Arena!GetNeighbors(a)[i]) <=>
        \/ (x = 1 /\ y = 0) \/ (x = 1 /\ y = -1) \/ (x = 0 /\ y = -1)
        \/ (x = -1 /\ y = 0) \/ (x = -1 /\ y = 1) \/ (x = 0 /\ y = 1)
  <2> DEFINE some == \E i \in 1..6 : b = Arena!GetNeighbors(a)[i]
  <2>1. some <=>
          \/ b = Arena!GetNeighbors(a)[1] \/ b = Arena!GetNeighbors(a)[2] \/ b = Arena!GetNeighbors(a)[3]
          \/ b = Arena!GetNeighbors(a)[4] \/ b = Arena!GetNeighbors(a)[5] \/ b = Arena!GetNeighbors(a)[6]
    <3>1. \A i \in 1..6 : i = 1 \/ i = 2 \/ i = 3 \/ i = 4 \/ i = 5 \/ i = 6
      OBVIOUS
    <3>2. 1 \in 1..6 /\ 2 \in 1..6 /\ 3 \in 1..6 /\ 4 \in 1..6 /\ 5 \in 1..6 /\ 6 \in 1..6
      OBVIOUS
    <3> QED BY <3>1, <3>2, Zenon
  <2>2. \A u, v \in Int : b = <<a[1] + u, a[2] + v>> <=> x = u /\ y = v
    BY <1>1
  <2>3. /\ b = Arena!GetNeighbors(a)[1] <=> (x = 1 /\ y = 0)
        /\ b = Arena!GetNeighbors(a)[2] <=> (x = 1 /\ y = -1)
        /\ b = Arena!GetNeighbors(a)[3] <=> (x = 0 /\ y = -1)
        /\ b = Arena!GetNeighbors(a)[4] <=> (x = -1 /\ y = 0)
        /\ b = Arena!GetNeighbors(a)[5] <=> (x = -1 /\ y = 1)
        /\ b = Arena!GetNeighbors(a)[6] <=> (x = 0 /\ y = 1)
    <3> HIDE DEF x, y
    <3>1. 0 \in Int /\ 1 \in Int /\ -1 \in Int
      OBVIOUS
    <3> QED BY <1>2, <2>2, <3>1
  <2> HIDE DEF x, y, some
  <2>4. some <=>
          \/ (x = 1 /\ y = 0) \/ (x = 1 /\ y = -1) \/ (x = 0 /\ y = -1)
          \/ (x = -1 /\ y = 0) \/ (x = -1 /\ y = 1) \/ (x = 0 /\ y = 1)
    <3>1. ASSUME some
          PROVE  \/ (x = 1 /\ y = 0) \/ (x = 1 /\ y = -1) \/ (x = 0 /\ y = -1)
                 \/ (x = -1 /\ y = 0) \/ (x = -1 /\ y = 1) \/ (x = 0 /\ y = 1)
      BY <2>1, <2>3, <3>1, Zenon
    <3>2. ASSUME \/ (x = 1 /\ y = 0) \/ (x = 1 /\ y = -1) \/ (x = 0 /\ y = -1)
                 \/ (x = -1 /\ y = 0) \/ (x = -1 /\ y = 1) \/ (x = 0 /\ y = 1)
          PROVE  some
      BY <2>1, <2>3, <3>2, Zenon
    <3> QED BY <3>1, <3>2
  <2> QED BY <2>4 DEF some
<1>4. Arena!HexDistance(a, b) = (Arena!Distance(-x) + Arena!Distance(-y) + Arena!Distance(-x - y)) \div 2
  BY <1>1 DEF Arena!HexDistance
<1>5. ASSUME NEW u \in Int, NEW v \in Int
      PROVE  ((Arena!Distance(-u) + Arena!Distance(-v) + Arena!Distance(-u - v)) \div 2 = 1) <=>
               \/ (u = 1 /\ v = 0) \/ (u = 1 /\ v = -1) \/ (u = 0 /\ v = -1)
               \/ (u = -1 /\ v = 0) \/ (u = -1 /\ v = 1) \/ (u = 0 /\ v = 1)
  <2> DEFINE sum == Arena!Distance(-u) + Arena!Distance(-v) + Arena!Distance(-u - v)
  <2> DEFINE near == \/ (u = 1 /\ v = 0) \/ (u = 1 /\ v = -1) \/ (u = 0 /\ v = -1)
                     \/ (u = -1 /\ v = 0) \/ (u = -1 /\ v = 1) \/ (u = 0 /\ v = 1)
  <2>1. sum \in Nat /\ (sum \in {2, 3} <=> near)
    <3>0. \A n \in Int : Arena!Distance(n) = IF n < 0 THEN -n ELSE n
      BY DEF Arena!Distance
    <3>1. CASE u >= 0 /\ v >= 0
      <4>1. sum = u + v + (u + v)
        BY <3>0, <3>1
      <4> HIDE DEF sum
      <4> QED BY <1>5, <3>1, <4>1
    <3>2. CASE u < 0 /\ v < 0
      <4>1. sum = -u - v + (-u - v)
        BY <3>0, <3>2
      <4> HIDE DEF sum
      <4> QED BY <1>5, <3>2, <4>1
    <3>3. CASE u >= 0 /\ v < 0 /\ u + v >= 0
      <4>1. sum = u + u
        BY <3>0, <3>3
      <4> HIDE DEF sum
      <4> QED BY <1>5, <3>3, <4>1
    <3>4. CASE u >= 0 /\ v < 0 /\ u + v < 0
      <4>1. sum = -v - v
        BY <3>0, <3>4
      <4> HIDE DEF sum
      <4> QED BY <1>5, <3>4, <4>1
    <3>5. CASE u < 0 /\ v >= 0 /\ u + v >= 0
      <4>1. sum = v + v
        BY <3>0, <3>5
      <4> HIDE DEF sum
      <4> QED BY <1>5, <3>5, <4>1
    <3>6. CASE u < 0 /\ v >= 0 /\ u + v < 0
      <4>1. sum = -u - u
        BY <3>0, <3>6
      <4> HIDE DEF sum
      <4> QED BY <1>5, <3>6, <4>1
    <3> HIDE DEF sum, near
    <3> QED BY <3>1, <3>2, <3>3, <3>4, <3>5, <3>6
  <2>2. \A n \in Nat : n \div 2 = 1 <=> n \in {2, 3}
    OBVIOUS
  <2> HIDE DEF sum
  <2>3. sum \div 2 = 1 <=> sum \in {2, 3}
    BY <2>1, <2>2
  <2> QED BY <2>1, <2>3 DEF sum
<1> HIDE DEF x, y
<1> QED BY <1>1, <1>3, <1>4, <1>5 DEF Arena!Touch

-----------------------------------------------------------------------------
(* The search: breadth first.                                              *)

Queued   == [at : Board, way : Seq(Board)]
Searches == [visited : SUBSET Board, queue : Seq(Queued), found : Seq(Board)]

\* A way over open fields that touch, and none shorter.
Led(from, limit, at, walk) ==
  /\ walk \in Seq(Board) /\ Len(walk) <= limit
  /\ at = IF walk = <<>> THEN from ELSE walk[Len(walk)]
  /\ \A i \in 1..Len(walk) :
       Arena!Open(walk[i]) /\ Arena!Touch(IF i = 1 THEN from ELSE walk[i - 1], walk[i])
  /\ at \in Arena!Within(from, Len(walk))
  /\ walk # <<>> => at \notin Arena!Within(from, Len(walk) - 1)

Level(q, i) == Len(q.queue[i].way)

\* A search that has come to item k: no field is queued twice, and they are queued by distance.
Searching(q, k, from, to, limit) ==
  /\ q \in Searches /\ from \in q.visited
  /\ \A i \in 1..Len(q.queue) :
       q.queue[i].at \in q.visited /\ Led(from, limit, q.queue[i].at, q.queue[i].way)
  /\ \A b \in q.visited : \E i \in 1..Len(q.queue) : q.queue[i].at = b
  /\ \A i, j \in 1..Len(q.queue) : q.queue[i].at = q.queue[j].at => i = j
  /\ \A i, j \in 1..Len(q.queue) : i <= j => Level(q, i) <= Level(q, j)
  /\ k \in 1..Len(q.queue) => \A j \in 1..Len(q.queue) : Level(q, j) <= Level(q, k) + 1
  /\ q.found = <<>> => to \notin q.visited
  /\ q.found # <<>> => Led(from, limit, to, q.found)

\* All open neighbours of an item have been visited, and so it is with every item before k.
Looked(q, i) == \A b \in Board : Arena!Open(b) /\ Arena!Touch(q.queue[i].at, b) => b \in q.visited

Expanded(q, k, limit) ==
  q.found = <<>> => \A i \in 1..Len(q.queue) : i < k /\ Level(q, i) < limit => Looked(q, i)

\* More steps reach at least as much.
LEMMA WalksGrow ==
  ASSUME NEW from
  PROVE  \A k, l \in 0..4 : k <= l => Arena!Within(from, k) \subseteq Arena!Within(from, l)
<1> DEFINE W(n) == Arena!Within(from, n)
<1>1. \A n \in 0..3 : W(n) \subseteq W(n + 1)
  BY WalksAre DEF Arena!Onwards
<1> HIDE DEF W
<1>2. W(0) \subseteq W(1) /\ W(1) \subseteq W(2) /\ W(2) \subseteq W(3) /\ W(3) \subseteq W(4)
  <2>1. /\ 0 \in 0..3 /\ 1 \in 0..3 /\ 2 \in 0..3 /\ 3 \in 0..3
        /\ 0 + 1 = 1 /\ 1 + 1 = 2 /\ 2 + 1 = 3 /\ 3 + 1 = 4
    OBVIOUS
  <2> QED BY <1>1, <2>1
<1>3. ASSUME NEW k \in 0..4, NEW l \in 0..4, k <= l PROVE W(k) \subseteq W(l)
  <2>1. k \in {0, 1, 2, 3, 4} /\ l \in {0, 1, 2, 3, 4}
    OBVIOUS
  <2>2. CASE k = 0
    BY <1>2, <2>1, <2>2
  <2>3. CASE k = 1
    BY <1>2, <1>3, <2>1, <2>3
  <2>4. CASE k = 2
    BY <1>2, <1>3, <2>1, <2>4
  <2>5. CASE k = 3
    BY <1>2, <1>3, <2>1, <2>5
  <2>6. CASE k = 4
    BY <1>3, <2>1, <2>6
  <2> QED BY <2>1, <2>2, <2>3, <2>4, <2>5, <2>6
<1> QED BY <1>3 DEF W

\* A search that has looked from everything nearer than depth has visited all that is so near.
LEMMA Covers ==
  ASSUME NEW q, NEW k, NEW from \in Board, NEW to, NEW limit \in 0..4, Searching(q, k, from, to, limit),
         NEW depth \in 0..limit, \A i \in 1..Len(q.queue) : Level(q, i) < depth => Looked(q, i)
  PROVE  Arena!Within(from, depth) \subseteq q.visited
<1> DEFINE S == {l \in Nat : l <= depth => Arena!Within(from, l) \subseteq q.visited}
<1>1. 0 \in S
  BY WalksAre DEF Searching
<1>2. ASSUME NEW l \in Nat, l \in S PROVE l + 1 \in S
  <2> SUFFICES ASSUME l + 1 <= depth, NEW b \in Arena!Within(from, l + 1) PROVE b \in q.visited
    OBVIOUS
  <2>1. l \in 0..3 /\ l \in 0..4 /\ l < depth /\ Arena!Within(from, l) \subseteq q.visited
    BY <1>2
  <2> HIDE DEF S
  <2>2. Arena!Within(from, l + 1) = Arena!Onwards(Arena!Within(from, l))
    BY <2>1, WalksAre
  <2>3. CASE b \in Arena!Within(from, l)
    BY <2>1, <2>3
  <2>4. CASE b \notin Arena!Within(from, l)
    <3>1. /\ b \in Board /\ Arena!Open(b)
          /\ \E a \in Arena!Within(from, l) : Arena!Touch(a, b)
      BY <2>2, <2>4 DEF Arena!Onwards
    <3>2. PICK a \in Arena!Within(from, l) : Arena!Touch(a, b)
      BY <3>1
    <3>3. PICK i \in 1..Len(q.queue) : q.queue[i].at = a
      BY <2>1 DEF Searching
    <3>4. Level(q, i) < depth
      <4> SUFFICES ASSUME ~(Level(q, i) < depth) PROVE FALSE
        OBVIOUS
      <4>1. Led(from, limit, a, q.queue[i].way)
        BY <3>3 DEF Searching
      <4>2. Level(q, i) \in Nat /\ Level(q, i) <= limit
        BY <4>1 DEF Led, Level
      <4>3. Level(q, i) - 1 \in 0..4 /\ l <= Level(q, i) - 1 /\ Level(q, i) # 0
        BY <2>1, <4>2
      <4>4. a \in Arena!Within(from, Level(q, i) - 1)
        BY <2>1, <4>3, WalksGrow
      <4> QED BY <4>1, <4>3, <4>4 DEF Led, Level
    <3> QED BY <3>1, <3>2, <3>3, <3>4 DEF Looked
  <2> QED BY <2>3, <2>4
<1>3. \A l \in Nat : l \in S
  <2> HIDE DEF S
  <2> QED BY <1>1, <1>2, SetInduction
<1>4. depth \in S /\ depth <= depth
  BY <1>3
<1> QED BY <1>4

\* A way goes on to a neighbour of its end that is not as near.
LEMMA LedOn ==
  ASSUME NEW from \in Board, NEW limit \in 0..4, NEW at, NEW walk, Led(from, limit, at, walk),
         Len(walk) < limit, NEW near, Arena!Open(near), Arena!Touch(at, near),
         near \notin Arena!Within(from, Len(walk))
  PROVE  Led(from, limit, near, Append(walk, near))
<1> DEFINE longer == Append(walk, near)
<1>1. near \in Board /\ walk \in Seq(Board) /\ Len(walk) \in 0..3
  <2>1. near \in Board /\ walk \in Seq(Board)
    BY DEF Arena!Open, Led
  <2>2. Len(walk) \in Nat
    BY <2>1
  <2>3. \A n \in Nat : n < limit => n \in 0..3
    OBVIOUS
  <2> HIDE DEF longer
  <2> QED BY <2>1, <2>2, <2>3
<1>2. /\ longer \in Seq(Board) /\ Len(longer) = Len(walk) + 1 /\ longer # <<>>
      /\ \A i \in 1..Len(longer) : longer[i] = IF i = Len(walk) + 1 THEN near ELSE walk[i]
      /\ longer[Len(walk) + 1] = near
  <2>1. longer \in Seq(Board) /\ Len(longer) = Len(walk) + 1 /\ longer[Len(walk) + 1] = near
    BY <1>1
  <2>2. \A i \in 1..Len(walk) : longer[i] = walk[i]
    BY <1>1
  <2> HIDE DEF longer
  <2>3. \A i \in 1..Len(longer) : i = Len(walk) + 1 \/ i \in 1..Len(walk)
    BY <1>1, <2>1
  <2>4. longer # <<>>
    BY <1>1, <2>1
  <2> QED BY <2>1, <2>2, <2>3, <2>4
<1> HIDE DEF longer
<1>3. near \in Arena!Within(from, Len(walk) + 1)
  <2>1. Arena!Within(from, Len(walk) + 1) = Arena!Onwards(Arena!Within(from, Len(walk)))
    BY <1>1, WalksAre
  <2> QED BY <1>1, <2>1 DEF Led, Arena!Onwards
<1>4. ASSUME NEW i \in 1..Len(longer)
      PROVE  Arena!Open(longer[i]) /\ Arena!Touch(IF i = 1 THEN from ELSE longer[i - 1], longer[i])
  <2>1. CASE i = Len(walk) + 1
    <3>1. at = IF i = 1 THEN from ELSE longer[i - 1]
      <4>1. CASE walk = <<>>
        BY <1>1, <2>1, <4>1 DEF Led
      <4>2. CASE walk # <<>>
        <5>1. Len(walk) \in 1..Len(longer) /\ i - 1 = Len(walk) /\ i # 1
          BY <1>1, <1>2, <2>1, <4>2
        <5> QED BY <1>1, <1>2, <4>2, <5>1 DEF Led
      <4> QED BY <4>1, <4>2
    <3>2. longer[i] = near
      BY <1>2, <2>1
    <3> QED BY <3>1, <3>2
  <2>2. CASE i # Len(walk) + 1
    <3>1. i \in 1..Len(walk) /\ (i # 1 => i - 1 \in 1..Len(walk) /\ i - 1 \in 1..Len(longer) /\ i - 1 # Len(walk) + 1)
      BY <1>1, <1>2, <2>2
    <3>2. longer[i] = walk[i] /\ (i # 1 => longer[i - 1] = walk[i - 1])
      BY <1>2, <2>2, <3>1
    <3> QED BY <3>1, <3>2 DEF Led
  <2> QED BY <2>1, <2>2
<1>5. Len(longer) <= limit /\ Len(longer) - 1 = Len(walk) /\ longer[Len(longer)] = near
  BY <1>1, <1>2
<1> QED BY <1>2, <1>3, <1>4, <1>5 DEF Led, longer

\* Looking at a neighbour of the item in hand keeps the search in order.
LEMMA VisitKeeps ==
  ASSUME NEW q, NEW k, NEW from \in Board, NEW to \in Board, NEW limit \in 0..4,
         Searching(q, k, from, to, limit), Expanded(q, k, limit), k \in 1..Len(q.queue),
         Level(q, k) < limit, NEW near, near \in Board => Arena!Touch(q.queue[k].at, near),
         NEW e, e = Arena!Visit(q, near, q.queue[k], to)
  PROVE  /\ Searching(e, k, from, to, limit) /\ Expanded(e, k, limit)
         /\ k \in 1..Len(e.queue) /\ e.queue[k] = q.queue[k] /\ q.visited \subseteq e.visited
         /\ e.found = <<>> => q.found = <<>> /\ (Arena!Open(near) => near \in e.visited)
<1>1. /\ q \in Searches /\ q.queue \in Seq(Queued) /\ Len(q.queue) \in Nat /\ q.visited \in SUBSET Board
      /\ q.found \in Seq(Board)
      /\ q = [visited |-> q.visited, queue |-> q.queue, found |-> q.found]
  BY DEF Searching, Searches
<1>2. \A i \in 1..Len(q.queue) : /\ q.queue[i] \in Queued /\ q.queue[i].way \in Seq(Board)
                                 /\ Level(q, i) \in Nat /\ q.queue[i].at \in Board
  <2> TAKE i \in 1..Len(q.queue)
  <2>1. q.queue[i] \in Queued
    BY <1>1
  <2>2. q.queue[i].way \in Seq(Board) /\ q.queue[i].at \in Board
    BY <2>1 DEF Queued
  <2> QED BY <2>1, <2>2 DEF Level
<1>3. CASE q.found # <<>> \/ near \in q.visited \/ ~Arena!Open(near)
  <2>1. e = q
    BY <1>3 DEF Arena!Visit
  <2> QED BY <1>3, <2>1
<1>4. CASE ~(q.found # <<>> \/ near \in q.visited \/ ~Arena!Open(near))
  <2> DEFINE walk == q.queue[k].way
             longer == Append(walk, near)
  <2>1. near \in Board /\ Arena!Open(near) /\ near \notin q.visited /\ q.found = <<>>
        /\ Arena!Touch(q.queue[k].at, near)
    BY <1>4 DEF Arena!Open
  <2>2. Led(from, limit, q.queue[k].at, walk) /\ walk \in Seq(Board) /\ Len(walk) = Level(q, k)
        /\ Len(walk) \in 0..limit
    <3>1. Led(from, limit, q.queue[k].at, walk)
      BY DEF Searching
    <3> QED BY <1>2, <3>1 DEF Level
  <2>3. near \notin Arena!Within(from, Len(walk))
    <3>1. ASSUME NEW i \in 1..Len(q.queue), Level(q, i) < Len(walk) PROVE Looked(q, i)
      <4>1. ~(k <= i)
        <5> SUFFICES ASSUME k <= i PROVE FALSE
          OBVIOUS
        <5>1. Level(q, k) <= Level(q, i)
          BY DEF Searching
        <5> QED BY <1>2, <2>2, <3>1, <5>1
      <4>2. i < k /\ Level(q, i) < limit
        BY <1>2, <2>2, <3>1, <4>1
      <4> QED BY <2>1, <4>2 DEF Expanded
    <3>2. Arena!Within(from, Len(walk)) \subseteq q.visited
      BY <2>2, <3>1, Covers
    <3> QED BY <2>1, <3>2
  <2>4. Led(from, limit, near, longer) /\ longer \in Seq(Board) /\ longer # <<>>
        /\ Len(longer) = Len(walk) + 1
    <3>1. longer \in Seq(Board) /\ Len(longer) = Len(walk) + 1 /\ longer # <<>>
      <4>1. longer \in Seq(Board) /\ Len(longer) = Len(walk) + 1 /\ Len(walk) \in Nat
        BY <2>1, <2>2
      <4> HIDE DEF longer
      <4> QED BY <4>1
    <3>2. Led(from, limit, near, longer)
      BY <2>1, <2>2, <2>3, LedOn
    <3> QED BY <3>1, <3>2
  <2> HIDE DEF longer
  <2>5. CASE near = to
    <3>1. e = [q EXCEPT !.found = longer]
      BY <1>4, <2>5 DEF Arena!Visit, longer
    <3>2. /\ e \in Searches /\ e.queue = q.queue /\ e.visited = q.visited /\ e.found = longer
      BY <1>1, <2>4, <3>1 DEF Searches
    <3>3. \A i : Level(e, i) = Level(q, i)
      BY <3>2 DEF Level
    <3>4. Searching(e, k, from, to, limit)
      <4>1. e.found # <<>> /\ Led(from, limit, to, e.found)
        BY <2>4, <2>5, <3>2
      <4> QED BY <3>2, <3>3, <4>1 DEF Searching
    <3>5. Expanded(e, k, limit)
      BY <2>4, <3>2 DEF Expanded
    <3> QED BY <2>4, <3>2, <3>4, <3>5
  <2>6. CASE near # to
    <3> DEFINE item == [at |-> near, way |-> longer]
               n == Len(q.queue)
    <3>1. e = [q EXCEPT !.visited = q.visited \cup {near}, !.queue = Append(q.queue, item)]
      BY <1>4, <2>6 DEF Arena!Visit, longer
    <3>2. item \in Queued /\ item.at = near /\ item.way = longer
      BY <2>1, <2>4 DEF Queued
    <3> HIDE DEF item
    <3>3. /\ e.queue = Append(q.queue, item) /\ e.visited = q.visited \cup {near} /\ e.found = q.found
          /\ e = [visited |-> e.visited, queue |-> e.queue, found |-> e.found]
      BY <1>1, <3>1
    <3>4. e.queue \in Seq(Queued) /\ Len(e.queue) = n + 1 /\ e.queue[n + 1] = item
          /\ \A i \in 1..n : e.queue[i] = q.queue[i]
      BY <1>1, <3>2, <3>3
    <3>5. e \in Searches
      BY <1>1, <2>1, <3>3, <3>4 DEF Searches
    <3>6. n \in Nat /\ \A i \in 1..Len(e.queue) : i \in 1..n \/ i = n + 1
      BY <1>1, <3>4
    <3> HIDE DEF n
    <3>7. /\ \A i \in 1..n : Level(e, i) = Level(q, i) /\ Level(q, i) \in Nat
          /\ Level(e, n + 1) = Level(q, k) + 1
      BY <1>2, <2>2, <2>4, <3>2, <3>4 DEF Level, n
    <3>8. k \in 1..n /\ k \in 1..Len(e.queue) /\ e.queue[k] = q.queue[k] /\ Level(e, k) = Level(q, k)
      BY <3>4, <3>6, <3>7 DEF n
    <3>9. Searching(e, k, from, to, limit)
      <4>1. from \in e.visited
        BY <3>3 DEF Searching
      <4>2. ASSUME NEW i \in 1..Len(e.queue)
            PROVE  e.queue[i].at \in e.visited /\ Led(from, limit, e.queue[i].at, e.queue[i].way)
        <5>1. CASE i = n + 1
          BY <2>4, <3>2, <3>3, <3>4, <5>1
        <5>2. CASE i \in 1..n
          BY <3>3, <3>4, <5>2 DEF Searching, n
        <5> QED BY <3>6, <5>1, <5>2
      <4>3. ASSUME NEW b \in e.visited PROVE \E i \in 1..Len(e.queue) : e.queue[i].at = b
        <5>1. CASE b = near
          <6>1. n + 1 \in 1..Len(e.queue)
            BY <3>4, <3>6
          <6> QED BY <3>2, <3>4, <5>1, <6>1
        <5>2. CASE b \in q.visited
          <6>1. PICK i \in 1..n : q.queue[i].at = b
            BY <5>2 DEF Searching, n
          <6>2. i \in 1..Len(e.queue)
            BY <3>4, <3>6
          <6> QED BY <3>4, <6>1, <6>2
        <5> QED BY <3>3, <5>1, <5>2
      <4>4. ASSUME NEW i \in 1..Len(e.queue), NEW j \in 1..Len(e.queue), e.queue[i].at = e.queue[j].at
            PROVE  i = j
        <5>1. ASSUME NEW o \in 1..n PROVE e.queue[o].at # near
          <6>1. q.queue[o].at \in q.visited
            BY DEF Searching, n
          <6> QED BY <2>1, <3>4, <6>1
        <5>2. e.queue[n + 1].at = near
          BY <3>2, <3>4
        <5>3. CASE i \in 1..n /\ j \in 1..n
          BY <3>4, <4>4, <5>3 DEF Searching, n
        <5> QED BY <3>6, <4>4, <5>1, <5>2, <5>3
      <4>5. ASSUME NEW i \in 1..Len(e.queue), NEW j \in 1..Len(e.queue), i <= j
            PROVE  Level(e, i) <= Level(e, j)
        <5>1. CASE i \in 1..n /\ j \in 1..n
          BY <3>7, <4>5, <5>1 DEF Searching, n
        <5>2. CASE i \in 1..n /\ j = n + 1
          <6>1. Level(q, i) <= Level(q, k) + 1
            BY <3>8, <5>2 DEF Searching, n
          <6> QED BY <3>7, <5>2, <6>1
        <5>3. CASE i = n + 1 /\ j = n + 1
          BY <3>7, <3>8, <5>3
        <5>4. CASE i = n + 1 /\ j \in 1..n
          BY <3>6, <4>5, <5>4
        <5> QED BY <3>6, <5>1, <5>2, <5>3, <5>4
      <4>6. ASSUME NEW j \in 1..Len(e.queue) PROVE Level(e, j) <= Level(e, k) + 1
        <5>1. CASE j \in 1..n
          BY <3>7, <3>8, <5>1 DEF Searching, n
        <5>2. CASE j = n + 1
          BY <3>7, <3>8, <5>2
        <5> QED BY <3>6, <5>1, <5>2
      <4>7. e.found = <<>> /\ to \notin e.visited
        BY <2>1, <2>6, <3>3 DEF Searching
      <4> QED BY <3>5, <4>1, <4>2, <4>3, <4>4, <4>5, <4>6, <4>7 DEF Searching
    <3>10. Expanded(e, k, limit)
      <4> SUFFICES ASSUME NEW i \in 1..Len(e.queue), i < k, Level(e, i) < limit PROVE Looked(e, i)
        BY DEF Expanded
      <4>1. i \in 1..n
        BY <3>6, <3>8
      <4>2. Looked(q, i)
        BY <2>1, <3>7, <4>1 DEF Expanded, n
      <4> QED BY <3>3, <3>4, <4>1, <4>2 DEF Looked
    <3> QED BY <2>1, <3>3, <3>8, <3>9, <3>10
  <2> QED BY <2>5, <2>6
<1> QED BY <1>3, <1>4

\* What a search in its course consists of.
LEMMA SearchTypes ==
  ASSUME NEW q, NEW k, NEW from, NEW to, NEW limit, Searching(q, k, from, to, limit)
  PROVE  /\ q \in Searches /\ q.queue \in Seq(Queued) /\ Len(q.queue) \in Nat /\ q.found \in Seq(Board)
         /\ \A i \in 1..Len(q.queue) : /\ q.queue[i] \in Queued /\ q.queue[i].way \in Seq(Board)
                                       /\ Level(q, i) \in Nat /\ q.queue[i].at \in Board
<1>1. q \in Searches /\ q.queue \in Seq(Queued) /\ Len(q.queue) \in Nat /\ q.found \in Seq(Board)
  BY DEF Searching, Searches
<1>2. ASSUME NEW i \in 1..Len(q.queue)
      PROVE  /\ q.queue[i] \in Queued /\ q.queue[i].way \in Seq(Board)
             /\ Level(q, i) \in Nat /\ q.queue[i].at \in Board
  <2>1. q.queue[i] \in Queued
    BY <1>1
  <2>2. q.queue[i].way \in Seq(Board) /\ q.queue[i].at \in Board
    BY <2>1 DEF Queued
  <2> QED BY <2>1, <2>2 DEF Level
<1> QED BY <1>1, <1>2

\* A turn of the loop: the item in hand has been looked from, or needs no looking from.
LEMMA TurnKeeps ==
  ASSUME NEW q, NEW k \in Nat, NEW from \in Board, NEW to \in Board, NEW limit \in 0..4,
         Searching(q, k, from, to, limit), Expanded(q, k, limit),
         NEW e, e = Arena!Expand(q, k, to, limit), k >= 1
  PROVE  Searching(e, k + 1, from, to, limit) /\ Expanded(e, k + 1, limit)
<1> DEFINE On(r) == Searching(r, k + 1, from, to, limit) /\ Expanded(r, k + 1, limit)
<1>1. ASSUME NEW r, Searching(r, k, from, to, limit), Expanded(r, k, limit),
             r.found = <<>> /\ k \in 1..Len(r.queue) /\ Level(r, k) < limit => Looked(r, k)
      PROVE  On(r)
  <2>1. Len(r.queue) \in Nat /\ \A i \in 1..Len(r.queue) : Level(r, i) \in Nat
    BY <1>1, SearchTypes
  <2>2. ASSUME k + 1 \in 1..Len(r.queue), NEW j \in 1..Len(r.queue)
        PROVE  Level(r, j) <= Level(r, k + 1) + 1
    <3>1. k \in 1..Len(r.queue)
      BY <2>1, <2>2
    <3>2. Level(r, j) <= Level(r, k) + 1
      BY <1>1, <3>1 DEF Searching
    <3>3. Level(r, k) <= Level(r, k + 1)
      <4>1. k <= k + 1
        OBVIOUS
      <4> QED BY <1>1, <2>2, <3>1, <4>1 DEF Searching
    <3> QED BY <2>1, <2>2, <3>1, <3>2, <3>3
  <2>3. Searching(r, k + 1, from, to, limit)
    BY <1>1, <2>2 DEF Searching
  <2>4. Expanded(r, k + 1, limit)
    <3> SUFFICES ASSUME r.found = <<>>, NEW i \in 1..Len(r.queue), i < k + 1, Level(r, i) < limit
                 PROVE  Looked(r, i)
      BY DEF Expanded
    <3>1. i < k \/ i = k
      BY <2>1
    <3> QED BY <1>1, <3>1 DEF Expanded
  <2> QED BY <2>3, <2>4
<1>2. CASE q.found # <<>> \/ k > Len(q.queue) \/ Len(q.queue[k].way) >= limit
  <2>1. e = q
    BY <1>2 DEF Arena!Expand
  <2>2. Len(q.queue) \in Nat /\ (k \in 1..Len(q.queue) => Level(q, k) \in Nat)
    BY SearchTypes
  <2>3. ~(q.found = <<>> /\ k \in 1..Len(q.queue) /\ Level(q, k) < limit)
    BY <1>2, <2>2 DEF Level
  <2> QED BY <1>1, <2>1, <2>3
<1>3. CASE ~(q.found # <<>> \/ k > Len(q.queue) \/ Len(q.queue[k].way) >= limit)
  <2> DEFINE after == Arena!Visits(q, q.queue[k], to)
             near(i) == Arena!GetNeighbors(q.queue[k].at)[i]
  <2>1. /\ after[0] = q /\ e = after[6]
        /\ \A i \in 1..6 : after[i] = Arena!Visit(after[i - 1], near(i), q.queue[k], to)
    <3>1. e = after[6]
      BY <1>3 DEF Arena!Expand
    <3> QED BY <3>1, VisitsAre
  <2>2. k \in 1..Len(q.queue) /\ Level(q, k) < limit
    <3>1. Len(q.queue) \in Nat
      BY SearchTypes
    <3>2. k \in 1..Len(q.queue)
      BY <1>3, <3>1
    <3>3. Level(q, k) \in Nat
      BY <3>2, SearchTypes
    <3> QED BY <1>3, <3>2, <3>3 DEF Level
  <2>3. q.queue[k].at \in Board /\ Board \subseteq Int \X Int
    BY <2>2, SearchTypes, ArenaConstants
  <2>4. \A b \in Board : Arena!Touch(q.queue[k].at, b) <=> \E i \in 1..6 : b = near(i)
    BY <2>3, NeighboursTouch
  <2> HIDE DEF after, near
  <2> DEFINE So(i) == /\ Searching(after[i], k, from, to, limit) /\ Expanded(after[i], k, limit)
                      /\ k \in 1..Len(after[i].queue) /\ after[i].queue[k] = q.queue[k]
                      /\ after[i].found = <<>> =>
                           \A j \in 1..i : Arena!Open(near(j)) => near(j) \in after[i].visited
             S == {i \in Nat : i <= 6 => So(i)}
  <2>5. 0 \in S
    <3>1. So(0)
      BY <2>1, <2>2
    <3> HIDE DEF So
    <3> QED BY <3>1
  <2>6. ASSUME NEW i \in Nat, i \in S PROVE i + 1 \in S
    <3> SUFFICES ASSUME i + 1 <= 6 PROVE So(i + 1)
      OBVIOUS
    <3>1. So(i) /\ i + 1 \in 1..6 /\ (i + 1) - 1 = i
      BY <2>6
    <3> HIDE DEF S
    <3>2. near(i + 1) \in Board => Arena!Touch(q.queue[k].at, near(i + 1))
      BY <2>4, <3>1
    <3>3. after[i + 1] = Arena!Visit(after[i], near(i + 1), after[i].queue[k], to)
      BY <2>1, <3>1
    <3>4. Level(after[i], k) < limit
      BY <2>2, <3>1 DEF Level
    <3>5. /\ Searching(after[i + 1], k, from, to, limit) /\ Expanded(after[i + 1], k, limit)
          /\ k \in 1..Len(after[i + 1].queue) /\ after[i + 1].queue[k] = after[i].queue[k]
          /\ after[i].visited \subseteq after[i + 1].visited
          /\ after[i + 1].found = <<>> =>
               after[i].found = <<>> /\ (Arena!Open(near(i + 1)) => near(i + 1) \in after[i + 1].visited)
      <4>1. /\ Searching(after[i], k, from, to, limit) /\ Expanded(after[i], k, limit)
            /\ k \in 1..Len(after[i].queue) /\ after[i].queue[k] = q.queue[k]
        BY <3>1
      <4> HIDE DEF So
      <4>2. near(i + 1) \in Board => Arena!Touch(after[i].queue[k].at, near(i + 1))
        BY <3>2, <4>1
      <4>3. PICK r, d, next : r = after[i] /\ d = after[i + 1] /\ next = near(i + 1)
        OBVIOUS
      <4>4. /\ Searching(r, k, from, to, limit) /\ Expanded(r, k, limit) /\ k \in 1..Len(r.queue)
            /\ Level(r, k) < limit /\ (next \in Board => Arena!Touch(r.queue[k].at, next))
            /\ d = Arena!Visit(r, next, r.queue[k], to)
        BY <3>3, <3>4, <4>1, <4>2, <4>3
      <4>5. /\ Searching(d, k, from, to, limit) /\ Expanded(d, k, limit)
            /\ k \in 1..Len(d.queue) /\ d.queue[k] = r.queue[k] /\ r.visited \subseteq d.visited
            /\ d.found = <<>> => r.found = <<>> /\ (Arena!Open(next) => next \in d.visited)
        BY <4>4, VisitKeeps
      <4> QED BY <4>3, <4>5
    <3>6. ASSUME after[i + 1].found = <<>>, NEW j \in 1..(i + 1), Arena!Open(near(j))
          PROVE  near(j) \in after[i + 1].visited
      <4>1. j \in 1..i \/ j = i + 1
        OBVIOUS
      <4> QED BY <3>1, <3>5, <3>6, <4>1
    <3> QED BY <3>1, <3>5, <3>6
  <2>7. So(6)
    <3>1. \A i \in Nat : i \in S
      <4> HIDE DEF S
      <4> QED BY <2>5, <2>6, SetInduction
    <3>2. 6 \in S /\ 6 <= 6
      BY <3>1
    <3> HIDE DEF So
    <3> QED BY <3>2
  <2>8. e.found = <<>> => Looked(e, k)
    BY <2>1, <2>4, <2>7 DEF Looked
  <2>9. Searching(e, k, from, to, limit) /\ Expanded(e, k, limit)
    BY <2>1, <2>7
  <2> HIDE DEF On, So, S
  <2>10. On(e)
    BY <1>1, <2>8, <2>9
  <2> QED BY <2>10 DEF On
<1> QED BY <1>2, <1>3

\* The search ends with a shortest way, exactly if there is one within the limit.
LEMMA SearchEnds ==
  ASSUME NEW from \in Board, NEW to \in Board, to # from, NEW limit \in 0..4
  PROVE  LET found == Arena!Turns(from, to, limit)[Cardinality(Board)].found
         IN  /\ found # <<>> => Led(from, limit, to, found)
             /\ found = <<>> => to \notin Arena!Within(from, limit)
<1> DEFINE turn == Arena!Turns(from, to, limit)
           size == Cardinality(Board)
           S == {n \in Nat : n <= size => Searching(turn[n], n + 1, from, to, limit) /\ Expanded(turn[n], n + 1, limit)}
<1>1. size \in Nat /\ IsFiniteSet(Board)
  BY FS_CardinalityType, ArenaConstants
<1>2. turn[0] = Begin(from) /\ \A n \in 1..size : turn[n] = Arena!Expand(turn[n - 1], n, to, limit)
  BY <1>1, TurnsAre
<1> HIDE DEF turn, size
<1>3. Searching(Begin(from), 1, from, to, limit) /\ Expanded(Begin(from), 1, limit)
  <2> DEFINE q == Begin(from)
             item == [at |-> from, way |-> <<>>]
  <2>1. q.visited = {from} /\ q.queue = <<item>> /\ q.found = <<>>
    BY DEF Begin
  <2>2. item \in Queued /\ item.at = from /\ item.way = <<>>
    BY DEF Queued
  <2> HIDE DEF item
  <2>3. q \in Searches
    BY <2>2 DEF Begin, Searches, item
  <2> HIDE DEF q
  <2>4. Len(q.queue) = 1 /\ \A i \in 1..Len(q.queue) : i = 1 /\ q.queue[i] = item /\ Level(q, i) = 0
    BY <2>1, <2>2 DEF Level
  <2>5. Led(from, limit, from, <<>>)
    BY WalksAre DEF Led
  <2>6. Searching(q, 1, from, to, limit)
    <3>1. \A b \in q.visited : \E i \in 1..Len(q.queue) : q.queue[i].at = b
      <4>1. 1 \in 1..Len(q.queue)
        BY <2>4
      <4> QED BY <2>1, <2>2, <2>4, <4>1
    <3>2. \A i \in 1..Len(q.queue) :
            q.queue[i].at \in q.visited /\ Led(from, limit, q.queue[i].at, q.queue[i].way)
      BY <2>1, <2>2, <2>4, <2>5
    <3> QED BY <2>1, <2>3, <2>4, <3>1, <3>2 DEF Searching
  <2>7. Expanded(q, 1, limit)
    BY <2>4 DEF Expanded
  <2> QED BY <2>6, <2>7 DEF q
<1>4. 0 \in S
  BY <1>2, <1>3
<1>5. ASSUME NEW n \in Nat, n \in S PROVE n + 1 \in S
  <2> SUFFICES ASSUME n + 1 <= size
               PROVE  /\ Searching(turn[n + 1], (n + 1) + 1, from, to, limit)
                      /\ Expanded(turn[n + 1], (n + 1) + 1, limit)
    OBVIOUS
  <2>1. n + 1 \in 1..size /\ (n + 1) - 1 = n /\ n + 1 \in Nat /\ n + 1 >= 1
    BY <1>1
  <2>2. Searching(turn[n], n + 1, from, to, limit) /\ Expanded(turn[n], n + 1, limit)
    BY <1>1, <1>5
  <2>3. turn[n + 1] = Arena!Expand(turn[n], n + 1, to, limit)
    BY <1>2, <2>1
  <2> QED BY <2>1, <2>2, <2>3, TurnKeeps
<1>6. PICK q : q = turn[size] /\ Searching(q, size + 1, from, to, limit) /\ Expanded(q, size + 1, limit)
  <2>1. \A n \in Nat : n \in S
    <3> HIDE DEF S
    <3> QED BY <1>4, <1>5, SetInduction
  <2>2. size \in S /\ size <= size
    BY <1>1, <2>1
  <2> QED BY <2>2
<1> HIDE DEF S
\* No field is queued twice.
<1>7. Len(q.queue) \in Nat /\ Len(q.queue) <= size
  <2>1. q.queue \in Seq(Queued) /\ Len(q.queue) \in Nat
    BY <1>6 DEF Searching, Searches
  <2> SUFFICES ASSUME ~(Len(q.queue) <= size) PROVE FALSE
    BY <2>1
  <2> DEFINE f == [i \in 1..Len(q.queue) |-> q.queue[i].at]
  <2>2. f \in [1..Len(q.queue) -> Board]
    BY <1>6, SearchTypes
  <2>3. IsFiniteSet(1..Len(q.queue)) /\ Cardinality(1..Len(q.queue)) = Len(q.queue)
    <3>1. 1 \in Int /\ Len(q.queue) \in Int /\ (1 > Len(q.queue) => Len(q.queue) = 0)
      BY <2>1
    <3>2. IsFiniteSet(1..Len(q.queue))
          /\ Cardinality(1..Len(q.queue)) = IF 1 > Len(q.queue) THEN 0 ELSE Len(q.queue) - 1 + 1
      BY <3>1, FS_Interval
    <3> QED BY <2>1, <3>1, <3>2
  <2>4. \A i \in 1..Len(q.queue) : f[i] = q.queue[i].at
    OBVIOUS
  <2> HIDE DEF f
  <2>5. Cardinality(Board) < Cardinality(1..Len(q.queue))
    BY <1>1, <2>1, <2>3 DEF size
  <2>6. PICK i, j \in 1..Len(q.queue) : i # j /\ f[i] = f[j]
    BY <1>1, <2>2, <2>3, <2>5, FS_PigeonHole
  <2> QED BY <1>6, <2>4, <2>6 DEF Searching
<1>8. q.found = <<>> => to \notin Arena!Within(from, limit)
  <2> SUFFICES ASSUME q.found = <<>> PROVE to \notin Arena!Within(from, limit)
    OBVIOUS
  <2>1. \A i \in 1..Len(q.queue) : i < size + 1
    BY <1>1, <1>7
  <2>2. \A i \in 1..Len(q.queue) : Level(q, i) < limit => Looked(q, i)
    BY <1>6, <2>1 DEF Expanded
  <2>3. limit \in 0..limit
    OBVIOUS
  <2>4. Arena!Within(from, limit) \subseteq q.visited
    BY <1>6, <2>2, <2>3, Covers
  <2> QED BY <1>6, <2>4 DEF Searching
<1>9. q.found # <<>> => Led(from, limit, to, q.found)
  BY <1>6 DEF Searching
<1> QED BY <1>6, <1>8, <1>9 DEF turn, size

\* A way that is found is one over the board.
LEMMA PathFound ==
  ASSUME NEW from \in Board, NEW to \in Board, NEW limit \in 0..4
  PROVE  LET found == Arena!FindShortestMovePath(from, to, limit)
         IN  /\ found \in Seq(Board)
             /\ found # <<>> <=> to \in Arena!Within(from, limit) \ {from}
             /\ found # <<>> => Led(from, limit, to, found)
<1> DEFINE found == Arena!FindShortestMovePath(from, to, limit)
<1>1. CASE from = to
  BY <1>1 DEF Arena!FindShortestMovePath
<1>2. CASE limit = 0
  <2>1. Arena!Within(from, 0) = {from}
    BY WalksAre
  <2> QED BY <1>2, <2>1 DEF Arena!FindShortestMovePath
<1>3. CASE from # to /\ limit # 0
  <2>1. found = Arena!Turns(from, to, limit)[Cardinality(Board)].found
    BY <1>3, SameCardinality DEF Arena!FindShortestMovePath
  <2>2. /\ found # <<>> => Led(from, limit, to, found)
        /\ found = <<>> => to \notin Arena!Within(from, limit)
    BY <1>3, <2>1, SearchEnds
  <2> HIDE DEF found
  <2>3. found \in Seq(Board)
    <3>1. CASE found = <<>>
      BY <3>1
    <3>2. CASE found # <<>>
      BY <2>2, <3>2 DEF Led
    <3> QED BY <3>1, <3>2
  <2>4. found # <<>> => to \in Arena!Within(from, limit)
    <3> SUFFICES ASSUME found # <<>> PROVE to \in Arena!Within(from, limit)
      OBVIOUS
    <3>1. Len(found) \in 0..4 /\ limit \in 0..4 /\ Len(found) <= limit /\ to \in Arena!Within(from, Len(found))
      <4>1. Len(found) \in Nat
        BY <2>3
      <4>2. Len(found) <= limit /\ to \in Arena!Within(from, Len(found))
        BY <2>2 DEF Led
      <4>3. \A n \in Nat : n <= limit => n \in 0..4
        OBVIOUS
      <4> QED BY <4>1, <4>2, <4>3
    <3> QED BY <3>1, WalksGrow
  <2> QED BY <1>3, <2>2, <2>3, <2>4 DEF found
<1> QED BY <1>1, <1>2, <1>3

\* The search against walking, on every board.
LEMMA ShortestWays == Arena!WaysAreShortest
<1> SUFFICES ASSUME NEW f \in DOMAIN Home, NEW to \in Board, NEW limit \in {2, 4}
             PROVE  LET from == Home[f]
                        found == Arena!FindShortestMovePath(from, to, limit)
                        steps == <<from>> \o found
                    IN  /\ found # <<>> <=> to \in Arena!Within(from, limit) \ {from}
                        /\ found # <<>> =>
                             /\ Arena!Last(found) = to /\ to \notin Arena!Within(from, Len(found) - 1)
                             /\ \A i \in DOMAIN found :
                                  Arena!Open(found[i]) /\ Arena!Touch(steps[i], steps[i + 1])
  BY DEF Arena!WaysAreShortest, Arena!Figure
<1> DEFINE from == Home[f]
           found == Arena!FindShortestMovePath(from, to, limit)
           steps == <<from>> \o found
<1>1. from \in Board /\ limit \in 0..4
  BY ArenaConstants
<1>2. /\ found \in Seq(Board)
      /\ found # <<>> <=> to \in Arena!Within(from, limit) \ {from}
      /\ found # <<>> => Led(from, limit, to, found)
  BY <1>1, PathFound
<1> HIDE DEF from, found
<1>3. ASSUME found # <<>>
      PROVE  /\ Arena!Last(found) = to /\ to \notin Arena!Within(from, Len(found) - 1)
             /\ \A i \in DOMAIN found : Arena!Open(found[i]) /\ Arena!Touch(steps[i], steps[i + 1])
  <2>1. Led(from, limit, to, found)
    BY <1>2, <1>3
  <2>2. Arena!Last(found) = to /\ to \notin Arena!Within(from, Len(found) - 1)
    BY <1>3, <2>1 DEF Led, Arena!Last
  <2>3. DOMAIN found = 1..Len(found) /\ Len(found) \in Nat
    BY <1>2
  <2>4. steps[1] = from /\ \A i \in 1..Len(found) : steps[i + 1] = found[i]
    BY <1>1, <1>2
  <2>5. ASSUME NEW i \in 1..Len(found) PROVE Arena!Open(found[i]) /\ Arena!Touch(steps[i], steps[i + 1])
    <3>1. steps[i] = IF i = 1 THEN from ELSE found[i - 1]
      <4>1. CASE i = 1
        BY <2>4, <4>1
      <4>2. CASE i # 1
        <5>1. i - 1 \in 1..Len(found) /\ (i - 1) + 1 = i
          BY <2>3, <4>2
        <5> QED BY <2>4, <4>2, <5>1
      <4> QED BY <4>1, <4>2
    <3> QED BY <2>1, <2>4, <3>1 DEF Led
  <2> QED BY <2>2, <2>3, <2>5
<1> QED BY <1>2, <1>3 DEF from, found

-----------------------------------------------------------------------------
(* Planning: the invariant.                                                *)

\* Slots are numbered from 0, and nobody is no figure.
LEMMA FilledSlots ==
  /\ Arena!Filled = DOMAIN ownPlans /\ Arena!Figure = DOMAIN Home /\ SlotNumbers = 0..(Slots - 1)
  /\ 0 \in SlotNumbers /\ Arena!Nobody \notin DOMAIN Home
BY ArenaConstants DEF Arena!Filled, Arena!Figure, SlotNumbers

\* Planning begins with nothing planned.
LEMMA ArenaStarts == ASSUME Arena!Init PROVE ArenaInv
<1>1. ArenaTypes
  <2>1. holes \subseteq Board /\ slotIndex \in SlotNumbers /\ figureId = Arena!Nobody /\ plan \in Arena!Mode
    BY FilledSlots DEF Arena!Init, Arena!Mode
  <2>2. way \in Seq(Board) /\ onTheWay \in Seq(Planned)
    BY DEF Arena!Init
  <2>3. DOMAIN ownPlans = {} /\ ownPlans = [s \in DOMAIN ownPlans |-> ownPlans[s]]
    BY DEF Arena!Init
  <2>4. clashing \in BOOLEAN /\ confirms \in 0..MaxConfirms /\ slotPicks \in 0..ArenaPicks
    <3>1. clashing = FALSE /\ confirms = 0 /\ slotPicks = 0
      BY DEF Arena!Init
    <3>2. MaxConfirms \in Nat /\ ArenaPicks \in Nat
      BY ArenaConstants
    <3>3. confirms \in 0..MaxConfirms /\ slotPicks \in 0..ArenaPicks
      BY <3>1, <3>2
    <3> QED BY <3>1, <3>3
  <2>5. target \in Board \cup {Arena!NoField}
    BY DEF Arena!Init
  <2> QED BY <2>1, <2>2, <2>3, <2>4, <2>5 DEF ArenaTypes
<1>2. PlansFit
  BY DEF Arena!Init, PlansFit
<1> QED BY <1>1, <1>2 DEF ArenaInv

\* Another slot is picked.
LEMMA SlotPickKeeps == ASSUME ArenaInv, NEW s \in SlotNumbers, Arena!PickSlot(s) PROVE ArenaInv'
<1>1. /\ s # slotIndex /\ slotPicks < ArenaPicks /\ slotPicks' = slotPicks + 1 /\ slotIndex' = s
      /\ clashing' = (clashing \/ figureId # Arena!Nobody \/ plan # "move" \/ onTheWay # <<>>)
      /\ UNCHANGED <<holes, figureId, plan, way, target, ownPlans, onTheWay, confirms>>
  BY DEF Arena!PickSlot, Arena!Drafting
<1>2. slotPicks' \in 0..ArenaPicks /\ slotPicks' # 0
  BY <1>1, ArenaConstants DEF ArenaInv, ArenaTypes
<1>3. ArenaTypes'
  BY <1>1, <1>2 DEF ArenaInv, ArenaTypes
<1>4. PlansFit'
  BY <1>1, <1>2 DEF ArenaInv, PlansFit
<1> QED BY <1>3, <1>4 DEF ArenaInv

\* An action is picked.
LEMMA ModePickKeeps == ASSUME ArenaInv, NEW m \in Arena!Mode, Arena!PickMode(m) PROVE ArenaInv'
<1>1. /\ plan' = m /\ way' = <<>> /\ target' = Arena!NoField
      /\ m = "sprint" => \A s \in DOMAIN ownPlans \ {slotIndex} : ownPlans[s].mode # "sprint"
      /\ clashing' = (clashing \/ onTheWay # <<>>)
      /\ UNCHANGED <<holes, slotIndex, figureId, ownPlans, onTheWay, confirms, slotPicks>>
  BY DEF Arena!PickMode, Arena!Drafting, Arena!ResetTargets, Arena!CardReserved, Arena!Filled
<1>2. ArenaTypes'
  BY <1>1 DEF ArenaInv, ArenaTypes
<1>3. PlansFit'
  BY <1>1 DEF ArenaInv, PlansFit
<1> QED BY <1>2, <1>3 DEF ArenaInv

\* A figure is pressed.
LEMMA FigurePressKeeps == ASSUME ArenaInv, NEW f \in DOMAIN Home, Arena!PressFigure(f) PROVE ArenaInv'
<1>1. /\ figureId' = f /\ way' = <<>> /\ target' = Arena!NoField
      /\ \A s \in DOMAIN ownPlans \ {slotIndex} : ownPlans[s].figure # f
      /\ clashing' = (clashing \/ onTheWay # <<>>)
      /\ UNCHANGED <<holes, slotIndex, plan, ownPlans, onTheWay, confirms, slotPicks>>
  BY DEF Arena!PressFigure, Arena!Drafting, Arena!SelectFigure, Arena!PlannedElsewhere, Arena!Filled
<1>2. ArenaTypes'
  BY <1>1 DEF ArenaInv, ArenaTypes
<1>3. PlansFit'
  BY <1>1 DEF ArenaInv, PlansFit
<1> QED BY <1>2, <1>3 DEF ArenaInv

\* A field is pressed.
LEMMA FieldPressKeeps == ASSUME ArenaInv, NEW field \in Board, Arena!PressField(field) PROVE ArenaInv'
<1> DEFINE found == Arena!FindShortestMovePath(Home[figureId], field, Arena!PathLimit(plan))
<1>1. /\ figureId # Arena!Nobody
      /\ UNCHANGED <<holes, slotIndex, figureId, plan, ownPlans, onTheWay, clashing, confirms, slotPicks>>
      /\ way' \in {<<>>, found, way} /\ target' \in {target, field}
  BY DEF Arena!PressField, Arena!Drafting
<1>2. found \in Seq(Board)
  <2>1. figureId \in DOMAIN Home
    BY <1>1 DEF ArenaInv, ArenaTypes
  <2>2. Home[figureId] \in Board
    BY <2>1, ArenaConstants
  <2>3. Arena!PathLimit(plan) \in 0..4
    BY DEF Arena!PathLimit
  <2> QED BY <2>2, <2>3, PathFound
<1> HIDE DEF found
<1>3. way' \in Seq(Board)
  <2>1. way \in Seq(Board)
    BY DEF ArenaInv, ArenaTypes
  <2>2. <<>> \in Seq(Board)
    OBVIOUS
  <2>3. way' = <<>> \/ way' = found \/ way' = way
    BY <1>1
  <2> QED BY <1>2, <2>1, <2>2, <2>3
<1>4. ArenaTypes'
  BY <1>1, <1>3 DEF ArenaInv, ArenaTypes
<1>5. PlansFit'
  BY <1>1 DEF ArenaInv, PlansFit
<1> QED BY <1>4, <1>5 DEF ArenaInv

\* The draft is sent, and goes with every plan there is.
LEMMA ConfirmKeeps == ASSUME ArenaInv, Arena!ConfirmSlot PROVE ArenaInv'
<1> DEFINE p == [slot |-> slotIndex, figure |-> figureId, mode |-> plan]
<1>1. /\ figureId # Arena!Nobody /\ confirms < MaxConfirms /\ confirms' = confirms + 1
      /\ onTheWay' = Append(onTheWay, p)
      /\ clashing' = (clashing \/ onTheWay # <<>>)
      /\ slotIndex' = Arena!FindNextOpenSlotAfter(slotIndex)
      /\ figureId' = Arena!Nobody /\ plan' = "move" /\ way' = <<>> /\ target' = Arena!NoField
      /\ UNCHANGED <<holes, ownPlans, slotPicks>>
  BY DEF Arena!ConfirmSlot, Arena!Drafting, Arena!Complete, Arena!ResetTargets
<1>2. p \in Planned /\ p.slot = slotIndex /\ p.figure = figureId /\ p.mode = plan
  BY <1>1 DEF ArenaInv, ArenaTypes, Planned
<1> HIDE DEF p
<1>3. slotIndex \in SlotNumbers
  BY DEF ArenaInv, ArenaTypes
<1>4. /\ slotIndex' \in SlotNumbers
      /\ ~(SlotNumbers \subseteq DOMAIN ownPlans \cup {slotIndex}) =>
           slotIndex' \notin DOMAIN ownPlans \cup {slotIndex}
  BY <1>1, <1>3, NextOpenSlot DEF Arena!Filled
<1>5. onTheWay' \in Seq(Planned)
  BY <1>1, <1>2 DEF ArenaInv, ArenaTypes
<1>6. confirms' \in 0..MaxConfirms
  BY <1>1, ArenaConstants, SMTT(60) DEF ArenaInv, ArenaTypes
<1>7. ArenaTypes'
  BY <1>1, <1>4, <1>5, <1>6 DEF ArenaInv, ArenaTypes, Arena!Mode
<1>8. PlansFit'
  <2> SUFFICES ASSUME ~clashing' PROVE PlansFit'
    BY DEF PlansFit
  <2>1. ~clashing /\ onTheWay = <<>> /\ onTheWay' = <<p>>
    <3>1. ~clashing /\ onTheWay = <<>>
      BY <1>1
    <3>2. Append(<<>>, p) = <<p>>
      OBVIOUS
    <3> QED BY <1>1, <3>1, <3>2
  <2>2. /\ \A s, t \in DOMAIN ownPlans : s # t => ~Clash(ownPlans[s], ownPlans[t])
        /\ \A s \in DOMAIN ownPlans \ {slotIndex} :
           /\ ownPlans[s].figure # figureId
           /\ plan = "sprint" => ownPlans[s].mode # "sprint"
    BY <1>1, <2>1 DEF ArenaInv, PlansFit
  <2>3. Len(onTheWay') = 1 /\ onTheWay'[1] = p /\ DOMAIN onTheWay' = {1} /\ onTheWay' # <<>>
    BY <2>1
  <2>4. \A s \in DOMAIN ownPlans \ {slotIndex} : ~Clash(ownPlans[s], p)
    BY <1>2, <2>2 DEF Clash
  <2>5. {onTheWay'[i].slot : i \in DOMAIN onTheWay'} = {slotIndex}
    BY <1>2, <2>3
  <2> QED BY <1>1, <1>2, <1>4, <2>2, <2>3, <2>4, <2>5 DEF PlansFit
<1> QED BY <1>7, <1>8 DEF ArenaInv

\* A plan comes back, and the draft was empty since it was sent.
LEMMA ReturnKeeps == ASSUME ArenaInv, Arena!PlanReturns PROVE ArenaInv'
<1> DEFINE p == Head(onTheWay)
           filled == DOMAIN ownPlans \cup {p.slot}
<1>1. /\ onTheWay # <<>> /\ onTheWay' = Tail(onTheWay)
      /\ ownPlans' = [s \in filled |-> IF s = p.slot THEN p ELSE ownPlans[s]]
      /\ \/ /\ slotIndex' = Arena!FindFirstOpenSlot' /\ figureId' = Arena!Nobody /\ plan' = "move"
            /\ way' = <<>> /\ target' = Arena!NoField
         \/ UNCHANGED <<slotIndex, figureId, plan, way, target>>
      /\ UNCHANGED <<holes, clashing, confirms, slotPicks>>
  BY DEF Arena!PlanReturns, Arena!Filled, Arena!ResetTargets, Arena!draft
<1>2. p = onTheWay[1] /\ p \in Planned /\ p.slot \in SlotNumbers /\ onTheWay' \in Seq(Planned)
      /\ DOMAIN onTheWay = 1..Len(onTheWay) /\ 1 \in DOMAIN onTheWay
  <2>1. onTheWay \in Seq(Planned) /\ onTheWay # <<>>
    BY <1>1 DEF ArenaInv, ArenaTypes
  <2>2. p \in Planned /\ p = onTheWay[1] /\ Tail(onTheWay) \in Seq(Planned)
    BY <2>1
  <2>3. DOMAIN onTheWay = 1..Len(onTheWay) /\ 1 \in DOMAIN onTheWay
    BY <2>1
  <2> HIDE DEF p
  <2> QED BY <1>1, <2>2, <2>3 DEF Planned
<1> HIDE DEF p
<1>3. /\ DOMAIN ownPlans' = filled
      /\ \A s \in filled : ownPlans'[s] = IF s = p.slot THEN p ELSE ownPlans[s]
  BY <1>1
<1>4. filled \subseteq SlotNumbers
  BY <1>2 DEF ArenaInv, ArenaTypes
<1>5. /\ Arena!FindFirstOpenSlot' \in SlotNumbers
      /\ ~(SlotNumbers \subseteq DOMAIN ownPlans') => Arena!FindFirstOpenSlot' \notin DOMAIN ownPlans'
  <2> DEFINE first == Arena!FindFirstOpenSlot'
  <2>1. first = IF SlotNumbers \subseteq DOMAIN ownPlans' THEN Slots - 1
                ELSE Arena!Min(SlotNumbers \ DOMAIN ownPlans')
    BY DEF Arena!FindFirstOpenSlot, Arena!Filled, SlotNumbers, Arena!Min
  <2> HIDE DEF first
  <2>2. /\ first \in SlotNumbers
        /\ ~(SlotNumbers \subseteq DOMAIN ownPlans') => first \notin DOMAIN ownPlans'
    BY <2>1, FirstOpenSlot
  <2> QED BY <2>2 DEF first
<1>6. ArenaTypes'
  <2>1. DOMAIN ownPlans' \subseteq SlotNumbers /\ ownPlans' = [s \in DOMAIN ownPlans' |-> ownPlans'[s]]
        /\ \A s \in DOMAIN ownPlans' : ownPlans'[s] \in Planned /\ ownPlans'[s].slot = s
    BY <1>1, <1>2, <1>3, <1>4 DEF ArenaInv, ArenaTypes
  <2>2. slotIndex' \in SlotNumbers /\ figureId' \in DOMAIN Home \cup {Arena!Nobody} /\ plan' \in Arena!Mode
        /\ way' \in Seq(Board) /\ target' \in Board \cup {Arena!NoField}
    <3>1. CASE /\ slotIndex' = Arena!FindFirstOpenSlot' /\ figureId' = Arena!Nobody /\ plan' = "move"
               /\ way' = <<>> /\ target' = Arena!NoField
      <4>1. <<>> \in Seq(Board)
        OBVIOUS
      <4> QED BY <1>5, <3>1, <4>1 DEF Arena!Mode
    <3>2. CASE UNCHANGED <<slotIndex, figureId, plan, way, target>>
      BY <3>2 DEF ArenaInv, ArenaTypes
    <3> QED BY <1>1, <3>1, <3>2
  <2> QED BY <1>1, <1>2, <2>1, <2>2 DEF ArenaInv, ArenaTypes
<1>7. PlansFit'
  <2> SUFFICES ASSUME ~clashing' PROVE PlansFit'
    BY DEF PlansFit
  <2>1. ~clashing
    BY <1>1
  <2>2. /\ \A s, t \in DOMAIN ownPlans : s # t => ~Clash(ownPlans[s], ownPlans[t])
        /\ Len(onTheWay) = 1 /\ figureId = Arena!Nobody /\ plan = "move"
        /\ \A s \in DOMAIN ownPlans \ {p.slot} : ~Clash(ownPlans[s], p)
        /\ slotPicks = 0 =>
             LET on == DOMAIN ownPlans \cup {onTheWay[i].slot : i \in DOMAIN onTheWay}
             IN  ~(SlotNumbers \subseteq on) => slotIndex \notin on
    BY <1>1, <1>2, <2>1 DEF ArenaInv, PlansFit
  <2>3. onTheWay' = <<>> /\ {onTheWay[i].slot : i \in DOMAIN onTheWay} = {p.slot}
    <3>1. onTheWay \in Seq(Planned) /\ Len(onTheWay) = 1
      BY <2>2 DEF ArenaInv, ArenaTypes
    <3>2. Tail(onTheWay) = <<>>
      <4>1. Tail(onTheWay) \in Seq(Planned) /\ Len(Tail(onTheWay)) = 0
        BY <3>1
      <4>2. Tail(onTheWay) # <<>> => Len(Tail(onTheWay)) \in Nat \ {0}
        BY <4>1, EmptySeq
      <4> QED BY <4>1, <4>2
    <3>3. DOMAIN onTheWay = {1}
      BY <3>1
    <3> QED BY <1>1, <1>2, <3>2, <3>3
  <2>4. \A s \in DOMAIN ownPlans \ {p.slot} : ~Clash(p, ownPlans[s])
    BY <2>2 DEF Clash
  <2>5. \A s, t \in filled : s # t => ~Clash(ownPlans'[s], ownPlans'[t])
    <3> TAKE s, t \in filled
    <3>1. CASE s = p.slot
      BY <1>3, <2>4, <3>1
    <3>2. CASE t = p.slot
      BY <1>3, <2>2, <3>2
    <3>3. CASE s # p.slot /\ t # p.slot
      BY <1>3, <2>2, <3>3
    <3> QED BY <3>1, <3>2, <3>3
  <2>6. figureId' = Arena!Nobody /\ plan' = "move"
    BY <1>1, <2>2
  <2>7. slotPicks' = 0 /\ ~(SlotNumbers \subseteq filled) => slotIndex' \notin filled
    BY <1>1, <1>3, <1>5, <2>2, <2>3
  <2>8. {onTheWay'[i].slot : i \in DOMAIN onTheWay'} = {}
    BY <2>3
  <2> QED BY <1>3, <2>3, <2>5, <2>6, <2>7, <2>8 DEF PlansFit
<1> QED BY <1>6, <1>7 DEF ArenaInv

\* A step of something else.
LEMMA ArenaStays == ASSUME ArenaInv, UNCHANGED Arena!vars PROVE ArenaInv'
BY DEF ArenaInv, ArenaTypes, PlansFit, Arena!vars, Arena!draft

\* Every step of planning keeps the invariant.
LEMMA ArenaKept == ASSUME ArenaInv, [Arena!Next]_(Arena!vars) PROVE ArenaInv'
<1>1. CASE \E s \in 0..(Slots - 1) : Arena!PickSlot(s)
  BY <1>1, SlotPickKeeps DEF SlotNumbers
<1>2. CASE \E m \in Arena!Mode : Arena!PickMode(m)
  BY <1>2, ModePickKeeps
<1>3. CASE \E f \in Arena!Figure : Arena!PressFigure(f)
  BY <1>3, FigurePressKeeps DEF Arena!Figure
<1>4. CASE \E field \in Board : Arena!PressField(field)
  BY <1>4, FieldPressKeeps
<1> QED BY <1>1, <1>2, <1>3, <1>4, ConfirmKeeps, ReturnKeeps, ArenaStays DEF Arena!Next

\* The invariant has the types.
LEMMA ArenaTypesHold == ArenaInv => Arena!TypeOK
BY DEF ArenaInv, ArenaTypes, Arena!TypeOK, Arena!Filled, Arena!Figure, SlotNumbers

\* The invariant has what the phone promises.
LEMMA PlansGoTogether == ArenaInv => Arena!PlansDoNotClash
<1> SUFFICES ASSUME ArenaInv, ~clashing
             PROVE  /\ \A s, t \in DOMAIN ownPlans : s # t =>
                         /\ ownPlans[s].figure # ownPlans[t].figure
                         /\ ~(ownPlans[s].mode = "sprint" /\ ownPlans[t].mode = "sprint")
                    /\ onTheWay = <<>> /\ slotPicks = 0 /\ DOMAIN ownPlans # SlotNumbers =>
                         slotIndex \notin DOMAIN ownPlans
  BY DEF Arena!PlansDoNotClash, Arena!Filled, SlotNumbers
<1>1. \A s, t \in DOMAIN ownPlans : s # t =>
        /\ ownPlans[s].figure # ownPlans[t].figure
        /\ ~(ownPlans[s].mode = "sprint" /\ ownPlans[t].mode = "sprint")
  BY DEF ArenaInv, PlansFit, Clash
<1>2. ASSUME onTheWay = <<>>, slotPicks = 0, DOMAIN ownPlans # SlotNumbers
      PROVE  slotIndex \notin DOMAIN ownPlans
  <2>1. {onTheWay[i].slot : i \in DOMAIN onTheWay} = {}
    BY <1>2
  <2>2. ~(SlotNumbers \subseteq DOMAIN ownPlans)
    BY <1>2 DEF ArenaInv, ArenaTypes
  <2> QED BY <1>2, <2>1, <2>2 DEF ArenaInv, PlansFit
<1> QED BY <1>1, <1>2

\* The plans of a round do not clash and the phone leads to the slots that are open, as long as
\* nothing is drafted while a plan is on its way and no draft is carried to another slot.
THEOREM PlanningFits == Arena!Spec => []Arena!PlansDoNotClash
<1>1. Arena!Init => ArenaInv
  BY ArenaStarts
<1>2. ArenaInv /\ [Arena!Next]_(Arena!vars) => ArenaInv'
  BY ArenaKept
<1> QED BY <1>1, <1>2, PlansGoTogether, PTL DEF Arena!Spec

\* The search finds a shortest way wherever there is one, on every board and with any holes.
THEOREM SearchIsShortest == Arena!Spec => []Arena!WaysAreShortest
<1>1. Arena!WaysAreShortest
  BY ShortestWays
<1> QED BY <1>1, PTL

\* The values a draft takes; a way is a sequence of fields of the board.
THEOREM ArenaTypeOK == Arena!Spec => []Arena!TypeOK
<1>1. Arena!Init => ArenaInv
  BY ArenaStarts
<1>2. ArenaInv /\ [Arena!Next]_(Arena!vars) => ArenaInv'
  BY ArenaKept
<1> QED BY <1>1, <1>2, ArenaTypesHold, PTL DEF Arena!Spec
=============================================================================
