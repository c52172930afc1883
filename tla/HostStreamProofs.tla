-------------------------- MODULE HostStreamProofs --------------------------
(***************************************************************************)
(* Patches are made against what the screen shows, for every game, every   *)
(* number of rounds, drops, losses and messages on their way.              *)
(*                                                                         *)
(* What the screen will show is a matter of the whole line.  A course      *)
(* (Follows) is a function that goes with the messages one by one, and     *)
(* statements about the line are statements about all its courses, so that *)
(* a message that is sent makes them longer and one that arrives makes     *)
(* them shorter.                                                           *)
(*                                                                         *)
(* The screen itself forgets its game when its user returns to the         *)
(* catalog, which is only done at once when no round seems to run.  So it  *)
(* matters too that wherever the room on screen says so, news of the round *)
(* is on its way (Told), with a full state behind it (Recovers).           *)
(***************************************************************************)
EXTENDS HostStream, SequenceTheorems, TLAPS

\* f goes with the messages after the first i.
Follows(f, s, i) == \A n \in (i + 1)..Len(s) : f[n] = GameAfter(f[n - 1], s[n])

\* Starting with g, the messages of s lead to e.
Leads(s, g, e) == \A f : Follows(f, s, 0) /\ f[0] = g => f[Len(s)] = e

\* Whatever is shown after the first i messages, those behind them lead to e.
Settles(s, i, e) == \A f : Follows(f, s, i) => f[Len(s)] = e

\* Courses there are, from everywhere and whatever is shown there.
HasCourse(s) == \A i \in 0..Len(s) : \A g : \E f : Follows(f, s, i) /\ f[i] = g

\* After n messages the screen believes that no round is running.
Idle(s, view, n) ==
  IF n = 0 THEN ~Active(view)
  ELSE s[n].kind = "aborted" \/ (s[n].kind \in {"ack", "room"} /\ ~Active(s[n].game))

\* News of a running round.
Announces(m) == m.kind \in {"ack", "room"} /\ Active(m.game)

Told(s, view) ==
  \A n \in 0..Len(s) : Idle(s, view, n) => \E i \in (n + 1)..Len(s) : Announces(s[i])

Recovers(s, view, e) ==
  \A n \in 0..Len(s) :
    Idle(s, view, n) => \E i \in (n + 1)..Len(s) : Announces(s[i]) /\ Settles(s, i, e)

\* The line leads to e, also if the screen forgets its game where it may.
Anchors(s, shown, e) == Leads(s, shown.game, e) /\ Recovers(s, shown.room, e)

\* The inductive invariant.
IInv ==
  /\ TypeOK
  /\ round = Nothing \/ round.phase # "none"
  /\ HasCourse(line)
  /\ joined /\ Active(round) => Told(line, screen.room)
  /\ anchored /\ Active(round) => Anchors(line, screen, remembered)

-----------------------------------------------------------------------------
(* One message more.                                                       *)

LEMMA Appended ==
  ASSUME NEW s \in Seq(Message), NEW m \in Message
  PROVE  /\ Append(s, m) \in Seq(Message)
         /\ Len(s) \in Nat /\ Len(Append(s, m)) = Len(s) + 1
         /\ Append(s, m)[Len(s) + 1] = m
         /\ \A n \in 1..Len(s) : Append(s, m)[n] = s[n]
  OBVIOUS

\* A course of the longer line is one of the shorter line with a step more.
LEMMA CourseAppended ==
  ASSUME NEW s \in Seq(Message), NEW m \in Message, NEW i \in 0..Len(s), NEW f
  PROVE  Follows(f, Append(s, m), i)
           <=> Follows(f, s, i) /\ f[Len(s) + 1] = GameAfter(f[Len(s)], m)
<1> DEFINE t == Append(s, m)
<1>1. /\ Len(s) \in Nat /\ Len(t) = Len(s) + 1 /\ t[Len(s) + 1] = m
      /\ \A n \in 1..Len(s) : t[n] = s[n]
  BY Appended
<1> HIDE DEF t
<1>2. Follows(f, t, i) => Follows(f, s, i) /\ f[Len(s) + 1] = GameAfter(f[Len(s)], m)
  <2> SUFFICES ASSUME Follows(f, t, i)
               PROVE  Follows(f, s, i) /\ f[Len(s) + 1] = GameAfter(f[Len(s)], m)
    OBVIOUS
  <2>1. ASSUME NEW n \in (i + 1)..Len(s) PROVE f[n] = GameAfter(f[n - 1], s[n])
    <3>1. n \in (i + 1)..Len(t) /\ t[n] = s[n]
      BY <1>1
    <3> QED BY <3>1 DEF Follows
  <2>2. Len(s) + 1 \in (i + 1)..Len(t) /\ (Len(s) + 1) - 1 = Len(s)
    BY <1>1
  <2>3. f[Len(s) + 1] = GameAfter(f[(Len(s) + 1) - 1], t[Len(s) + 1])
    BY <2>2 DEF Follows
  <2> QED BY <1>1, <2>1, <2>2, <2>3 DEF Follows
<1>3. Follows(f, s, i) /\ f[Len(s) + 1] = GameAfter(f[Len(s)], m) => Follows(f, t, i)
  <2> SUFFICES ASSUME Follows(f, s, i), f[Len(s) + 1] = GameAfter(f[Len(s)], m),
                      NEW n \in (i + 1)..Len(t)
               PROVE  f[n] = GameAfter(f[n - 1], t[n])
    BY DEF Follows
  <2>1. CASE n = Len(s) + 1
    <3>1. n - 1 = Len(s)
      BY <1>1, <2>1
    <3> QED BY <1>1, <2>1, <3>1
  <2>2. CASE n # Len(s) + 1
    <3>1. n \in (i + 1)..Len(s) /\ t[n] = s[n]
      BY <1>1, <2>2
    <3> QED BY <3>1 DEF Follows
  <2> QED BY <2>1, <2>2
<1> QED BY <1>2, <1>3 DEF t

\* What a message does to a line that is led somewhere.
LEMMA LeadsOn ==
  ASSUME NEW s \in Seq(Message), NEW m \in Message, NEW i \in 0..Len(s), NEW e, NEW d, NEW g,
         GameAfter(e, m) = d
  PROVE  /\ Leads(s, g, e) => Leads(Append(s, m), g, d)
         /\ Settles(s, i, e) => Settles(Append(s, m), i, d)
<1>1. Len(s) \in Nat /\ Len(Append(s, m)) = Len(s) + 1 /\ 0 \in 0..Len(s)
  BY Appended
<1>2. ASSUME Leads(s, g, e), NEW f, Follows(f, Append(s, m), 0), f[0] = g
      PROVE  f[Len(s) + 1] = d
  <2>1. Follows(f, s, 0) /\ f[Len(s) + 1] = GameAfter(f[Len(s)], m)
    BY <1>1, <1>2, CourseAppended
  <2> QED BY <1>2, <2>1 DEF Leads
<1>3. ASSUME Settles(s, i, e), NEW f, Follows(f, Append(s, m), i)
      PROVE  f[Len(s) + 1] = d
  <2>1. Follows(f, s, i) /\ f[Len(s) + 1] = GameAfter(f[Len(s)], m)
    BY <1>3, CourseAppended
  <2> QED BY <1>3, <2>1 DEF Settles
<1> QED BY <1>1, <1>2, <1>3 DEF Leads, Settles

\* A full state leads everything to itself.
LEMMA StateSettles ==
  ASSUME NEW s \in Seq(Message), NEW m \in Message, m.kind = "state", NEW i \in 0..Len(s), NEW g
  PROVE  Leads(Append(s, m), g, m.game) /\ Settles(Append(s, m), i, m.game)
<1>1. Len(s) \in Nat /\ Len(Append(s, m)) = Len(s) + 1 /\ 0 \in 0..Len(s)
  BY Appended
<1>2. ASSUME NEW f, NEW k \in 0..Len(s), Follows(f, Append(s, m), k) PROVE f[Len(s) + 1] = m.game
  <2>1. f[Len(s) + 1] = GameAfter(f[Len(s)], m)
    BY <1>2, CourseAppended
  <2> QED BY <2>1 DEF GameAfter
<1> QED BY <1>1, <1>2 DEF Leads, Settles

LEMMA CourseGoesOn ==
  ASSUME NEW s \in Seq(Message), NEW m \in Message, HasCourse(s)
  PROVE  HasCourse(Append(s, m))
<1>1. Len(s) \in Nat /\ Len(Append(s, m)) = Len(s) + 1
  BY Appended
<1>2. ASSUME NEW i \in 0..Len(s), NEW g
      PROVE  \E f : Follows(f, Append(s, m), i) /\ f[i] = g
  <2>1. PICK f : Follows(f, s, i) /\ f[i] = g
    BY <1>2 DEF HasCourse
  <2> DEFINE h == [n \in 0..(Len(s) + 1) |-> IF n = Len(s) + 1 THEN GameAfter(f[Len(s)], m) ELSE f[n]]
  <2>2. /\ h[Len(s)] = f[Len(s)] /\ h[Len(s) + 1] = GameAfter(f[Len(s)], m)
        /\ \A n \in 0..Len(s) : h[n] = f[n]
    BY <1>1
  <2> HIDE DEF h
  <2>3. ASSUME NEW n \in (i + 1)..Len(s) PROVE h[n] = GameAfter(h[n - 1], s[n])
    <3>1. n \in 0..Len(s) /\ n - 1 \in 0..Len(s)
      BY <1>1
    <3> QED BY <2>1, <2>2, <3>1 DEF Follows
  <2>4. Follows(h, Append(s, m), i)
    <3>1. Follows(h, s, i)
      BY <2>3 DEF Follows
    <3> QED BY <2>2, <3>1, CourseAppended
  <2> QED BY <1>1, <2>1, <2>2, <2>4
<1>3. ASSUME NEW g PROVE \E f : Follows(f, Append(s, m), Len(s) + 1) /\ f[Len(s) + 1] = g
  <2> DEFINE h == [n \in {Len(s) + 1} |-> g]
  <2>1. h[Len(s) + 1] = g
    OBVIOUS
  <2>2. (Len(s) + 1 + 1)..Len(Append(s, m)) = {}
    BY <1>1
  <2> HIDE DEF h
  <2>3. Follows(h, Append(s, m), Len(s) + 1)
    BY <2>2 DEF Follows
  <2> QED BY <2>1, <2>3
<1>4. \A i \in 0..Len(Append(s, m)) : i \in 0..Len(s) \/ i = Len(s) + 1
  BY <1>1
<1> QED BY <1>2, <1>3, <1>4 DEF HasCourse

LEMMA NoMessages == HasCourse(<<>>) /\ <<>> \in Seq(Message)
<1>1. ASSUME NEW g PROVE \E f : Follows(f, <<>>, 0) /\ f[0] = g
  <2> DEFINE h == [n \in {0} |-> g]
  <2>1. h[0] = g /\ Follows(h, <<>>, 0)
    BY DEF Follows
  <2> QED BY <2>1
<1>2. 0..Len(<<>>) = {0} /\ <<>> \in Seq(Message)
  OBVIOUS
<1>3. \A i \in {0} : \A g : \E f : Follows(f, <<>>, i) /\ f[i] = g
  BY <1>1
<1> QED BY <1>2, <1>3 DEF HasCourse

\* News of a running round, after which no place of the line is idle any more.
LEMMA ToldByNews ==
  ASSUME NEW s \in Seq(Message), NEW m \in Message, Announces(m), NEW view
  PROVE  Told(Append(s, m), view)
<1> DEFINE t == Append(s, m)
<1>1. Len(s) \in Nat /\ Len(t) = Len(s) + 1 /\ t[Len(s) + 1] = m
  BY Appended
<1> HIDE DEF t
<1>2. ASSUME NEW n \in 0..Len(t), Idle(t, view, n)
      PROVE  \E i \in (n + 1)..Len(t) : Announces(t[i])
  <2>1. n # Len(s) + 1
    BY <1>1, <1>2 DEF Idle, Announces
  <2> QED BY <1>1, <2>1
<1> QED BY <1>2 DEF Told, t

\* A message that says nothing about the room.
LEMMA StillTold ==
  ASSUME NEW s \in Seq(Message), NEW m \in Message, m.kind \in {"state", "patch"} \/ Announces(m),
         NEW view, Told(s, view)
  PROVE  Told(Append(s, m), view)
<1> DEFINE t == Append(s, m)
<1>1. /\ Len(s) \in Nat /\ Len(t) = Len(s) + 1 /\ t[Len(s) + 1] = m
      /\ \A n \in 1..Len(s) : t[n] = s[n]
  BY Appended
<1> HIDE DEF t
<1>2. ASSUME NEW n \in 0..Len(t), Idle(t, view, n)
      PROVE  \E i \in (n + 1)..Len(t) : Announces(t[i])
  <2>1. n # Len(s) + 1
    BY <1>1, <1>2 DEF Idle, Announces
  <2>2. n \in 0..Len(s) /\ Idle(s, view, n)
    BY <1>1, <1>2, <2>1 DEF Idle
  <2>3. PICK i \in (n + 1)..Len(s) : Announces(s[i])
    BY <2>2 DEF Told
  <2>4. i \in (n + 1)..Len(t) /\ t[i] = s[i]
    BY <1>1
  <2> QED BY <2>3, <2>4
<1> QED BY <1>2 DEF Told, t

\* A full state after the news.
LEMMA StateAnchors ==
  ASSUME NEW s \in Seq(Message), NEW m \in Message, m.kind = "state", NEW shown, Told(s, shown.room)
  PROVE  Anchors(Append(s, m), shown, m.game)
<1> DEFINE t == Append(s, m)
<1>1. /\ Len(s) \in Nat /\ Len(t) = Len(s) + 1 /\ t[Len(s) + 1] = m /\ 0 \in 0..Len(s)
      /\ \A n \in 1..Len(s) : t[n] = s[n]
  BY Appended
<1>2. Leads(t, shown.game, m.game) /\ \A i \in 0..Len(s) : Settles(t, i, m.game)
  BY <1>1, StateSettles
<1> HIDE DEF t
<1>3. ASSUME NEW n \in 0..Len(t), Idle(t, shown.room, n)
      PROVE  \E i \in (n + 1)..Len(t) : Announces(t[i]) /\ Settles(t, i, m.game)
  <2>1. n # Len(s) + 1
    BY <1>1, <1>3 DEF Idle
  <2>2. n \in 0..Len(s) /\ Idle(s, shown.room, n)
    BY <1>1, <1>3, <2>1 DEF Idle
  <2>3. PICK i \in (n + 1)..Len(s) : Announces(s[i])
    BY <2>2 DEF Told
  <2>4. i \in 0..Len(s) /\ i \in (n + 1)..Len(t) /\ t[i] = s[i]
    BY <1>1
  <2> QED BY <1>2, <2>3, <2>4
<1> QED BY <1>2, <1>3 DEF Anchors, Recovers, t

\* A message that fits what the line leads to.
LEMMA StillAnchored ==
  ASSUME NEW s \in Seq(Message), NEW m \in Message, m.kind = "patch" \/ Announces(m),
         NEW shown, NEW e, NEW d, GameAfter(e, m) = d, Anchors(s, shown, e)
  PROVE  Anchors(Append(s, m), shown, d)
<1> DEFINE t == Append(s, m)
<1>1. /\ Len(s) \in Nat /\ Len(t) = Len(s) + 1 /\ t[Len(s) + 1] = m /\ 0 \in 0..Len(s)
      /\ \A n \in 1..Len(s) : t[n] = s[n]
  BY Appended
<1>2. Leads(t, shown.game, d)
  BY <1>1, LeadsOn DEF Anchors
<1>3. ASSUME NEW i \in 0..Len(s), Settles(s, i, e) PROVE Settles(t, i, d)
  BY <1>3, LeadsOn
<1> HIDE DEF t
<1>4. ASSUME NEW n \in 0..Len(t), Idle(t, shown.room, n)
      PROVE  \E i \in (n + 1)..Len(t) : Announces(t[i]) /\ Settles(t, i, d)
  <2>1. n # Len(s) + 1
    BY <1>1, <1>4 DEF Idle, Announces
  <2>2. n \in 0..Len(s) /\ Idle(s, shown.room, n)
    BY <1>1, <1>4, <2>1 DEF Idle
  <2>3. PICK i \in (n + 1)..Len(s) : Announces(s[i]) /\ Settles(s, i, e)
    BY <2>2 DEF Anchors, Recovers
  <2>4. i \in 0..Len(s) /\ i \in (n + 1)..Len(t) /\ t[i] = s[i]
    BY <1>1
  <2> QED BY <1>3, <2>3, <2>4
<1> QED BY <1>2, <1>4 DEF Anchors, Recovers, t

-----------------------------------------------------------------------------
(* One message less.                                                       *)

LEMMA Arrived ==
  ASSUME NEW s \in Seq(Message), s # <<>>
  PROVE  /\ Tail(s) \in Seq(Message) /\ Head(s) \in Message /\ Head(s) = s[1]
         /\ Len(s) \in Nat \ {0} /\ Len(Tail(s)) = Len(s) - 1
         /\ \A n \in 1..(Len(s) - 1) : Tail(s)[n] = s[n + 1]
  OBVIOUS

\* A course of the shorter line, with the step of the message before it.
LEMMA CourseBefore ==
  ASSUME NEW s \in Seq(Message), s # <<>>, NEW g, NEW f, NEW i \in 0..(Len(s) - 1),
         Follows(f, Tail(s), i)
  PROVE  \E h : /\ h[Len(s)] = f[Len(s) - 1] /\ h[0] = g
                /\ Follows(h, s, i + 1)
                /\ i = 0 /\ f[0] = GameAfter(g, Head(s)) => Follows(h, s, 0)
<1> DEFINE h == [n \in 0..Len(s) |-> IF n = 0 THEN g ELSE f[n - 1]]
           t == Tail(s)
<1>1. /\ Len(s) \in Nat \ {0} /\ Len(t) = Len(s) - 1 /\ Head(s) = s[1]
      /\ \A n \in 1..(Len(s) - 1) : t[n] = s[n + 1]
  BY Arrived
<1>2. h[0] = g /\ \A n \in 1..Len(s) : h[n] = f[n - 1]
  BY <1>1
<1> HIDE DEF h, t
<1>3. ASSUME NEW n \in (i + 2)..Len(s) PROVE h[n] = GameAfter(h[n - 1], s[n])
  <2>1. n - 1 \in (i + 1)..Len(t) /\ t[n - 1] = s[n] /\ n \in 1..Len(s) /\ n - 1 \in 1..Len(s)
    BY <1>1
  <2>2. f[n - 1] = GameAfter(f[(n - 1) - 1], t[n - 1])
    BY <2>1 DEF Follows, t
  <2> QED BY <1>2, <2>1, <2>2
<1>4. Follows(h, s, i + 1)
  BY <1>3 DEF Follows
<1>5. ASSUME i = 0, f[0] = GameAfter(g, Head(s)) PROVE Follows(h, s, 0)
  <2> SUFFICES ASSUME NEW n \in 1..Len(s) PROVE h[n] = GameAfter(h[n - 1], s[n])
    BY DEF Follows
  <2>1. CASE n = 1
    BY <1>1, <1>2, <1>5, <2>1
  <2>2. CASE n # 1
    BY <1>3, <1>5, <2>2
  <2> QED BY <2>1, <2>2
<1>6. Len(s) \in 1..Len(s)
  BY <1>1
<1> QED BY <1>2, <1>4, <1>5, <1>6

LEMMA LeadsLess ==
  ASSUME NEW s \in Seq(Message), s # <<>>, NEW g, NEW e
  PROVE  /\ Leads(s, g, e) => Leads(Tail(s), GameAfter(g, Head(s)), e)
         /\ \A i \in 1..Len(s) : Settles(s, i, e) => Settles(Tail(s), i - 1, e)
<1>1. Len(s) \in Nat \ {0} /\ Len(Tail(s)) = Len(s) - 1 /\ 0 \in 0..(Len(s) - 1)
  BY Arrived
<1>2. ASSUME Leads(s, g, e), NEW f, Follows(f, Tail(s), 0), f[0] = GameAfter(g, Head(s))
      PROVE  f[Len(s) - 1] = e
  <2>1. PICK h : h[Len(s)] = f[Len(s) - 1] /\ h[0] = g /\ Follows(h, s, 0)
    BY <1>1, <1>2, CourseBefore
  <2> QED BY <1>2, <2>1 DEF Leads
<1>3. ASSUME NEW i \in 1..Len(s), Settles(s, i, e), NEW f, Follows(f, Tail(s), i - 1)
      PROVE  f[Len(s) - 1] = e
  <2>1. i - 1 \in 0..(Len(s) - 1) /\ (i - 1) + 1 = i
    BY <1>1
  <2>2. PICK h : h[Len(s)] = f[Len(s) - 1] /\ Follows(h, s, (i - 1) + 1)
    BY <1>3, <2>1, CourseBefore
  <2> QED BY <1>3, <2>1, <2>2 DEF Settles
<1> QED BY <1>1, <1>2, <1>3 DEF Leads, Settles

LEMMA CourseRemains ==
  ASSUME NEW s \in Seq(Message), s # <<>>, HasCourse(s)
  PROVE  HasCourse(Tail(s))
<1> DEFINE t == Tail(s)
<1>1. /\ Len(s) \in Nat \ {0} /\ Len(t) = Len(s) - 1
      /\ \A n \in 1..(Len(s) - 1) : t[n] = s[n + 1]
  BY Arrived
<1> HIDE DEF t
<1>2. ASSUME NEW i \in 0..Len(t), NEW g
      PROVE  \E f : Follows(f, t, i) /\ f[i] = g
  <2>1. i + 1 \in 0..Len(s)
    BY <1>1
  <2>2. PICK f : Follows(f, s, i + 1) /\ f[i + 1] = g
    BY <2>1 DEF HasCourse
  <2> DEFINE h == [n \in 0..Len(t) |-> f[n + 1]]
  <2>3. \A n \in 0..Len(t) : h[n] = f[n + 1]
    OBVIOUS
  <2> HIDE DEF h
  <2>4. ASSUME NEW n \in (i + 1)..Len(t) PROVE h[n] = GameAfter(h[n - 1], t[n])
    <3>1. /\ n + 1 \in (i + 1 + 1)..Len(s) /\ (n + 1) - 1 = n /\ t[n] = s[n + 1] /\ (n - 1) + 1 = n
          /\ n - 1 \in 0..Len(t) /\ n \in 0..Len(t)
      BY <1>1
    <3>2. f[n + 1] = GameAfter(f[(n + 1) - 1], s[n + 1])
      BY <2>2, <3>1 DEF Follows
    <3> QED BY <2>3, <3>1, <3>2
  <2> QED BY <2>2, <2>3, <2>4 DEF Follows
<1> QED BY <1>2 DEF HasCourse, t

\* What the screen's client makes of a message.
LEMMA WhatIsReceived ==
  ASSUME TypeOK, NEW m \in Message
  PROVE  /\ Received(m) \in Screen
         /\ Received(m).game = GameAfter(screen.game, m)
         /\ m.kind \notin {"ack", "room", "aborted"} => Received(m).room = screen.room
         /\ m.kind \in {"ack", "room"} => Received(m).room = m.game
<1>1. /\ screen \in Screen /\ m.game \in View /\ Nothing \in View
      /\ m.kind \in {"ack", "room", "state", "patch", "aborted"} /\ m.base \in Nat \cup {Mixed}
  BY DEF TypeOK, Message, View, Nothing
<1>2. ASSUME NEW g \in View PROVE GameAfter(g, m) \in View
  <2>1. CASE m.kind = "patch"
    <3>1. m.game.version \in Nat \cup {Mixed} /\ Mixed \in Nat \cup {Mixed}
      BY <1>1 DEF View
    <3> QED BY <2>1, <3>1 DEF GameAfter, ApplyPatch, View
  <2> QED BY <1>1, <2>1 DEF GameAfter
<1>3. screen.game \in View /\ screen.room \in View
  BY <1>1 DEF Screen
<1>4. GameAfter(screen.game, m) \in View
  BY <1>2, <1>3
<1>5. CASE m.kind = "aborted"
  BY <1>1, <1>3, <1>4, <1>5 DEF Received, ShowCatalog, Screen, GameAfter
<1>6. CASE m.kind = "ack"
  BY <1>1, <1>3, <1>4, <1>6 DEF Received, Screen, GameAfter
<1>7. CASE m.kind = "room"
  BY <1>1, <1>3, <1>4, <1>7 DEF Received, Screen, Active
<1>8. CASE m.kind \in {"state", "patch"}
  BY <1>1, <1>3, <1>4, <1>8 DEF Received, Screen
<1> QED BY <1>1, <1>5, <1>6, <1>7, <1>8

\* A message arrives: what was idle in the shorter line was idle in the longer one.
LEMMA IdleBefore ==
  ASSUME TypeOK, line # <<>>, NEW n \in 0..(Len(line) - 1),
         Idle(Tail(line), Received(Head(line)).room, n)
  PROVE  \E k \in {n, n + 1} :
           Idle(line, screen.room, k) /\ \A i \in (k + 1)..Len(line) : Announces(line[i]) => i - 1 > n
<1>1. /\ line \in Seq(Message) /\ Head(line) \in Message /\ Head(line) = line[1]
      /\ Len(line) \in Nat \ {0} /\ \A k \in 1..(Len(line) - 1) : Tail(line)[k] = line[k + 1]
  BY Arrived DEF TypeOK
<1>2. CASE n # 0 \/ line[1].kind \in {"ack", "room", "aborted"}
  <2>1. CASE n # 0
    <3>1. n \in 1..(Len(line) - 1) /\ n + 1 # 0 /\ Tail(line)[n] = line[n + 1]
      BY <1>1, <2>1
    <3>2. Idle(line, screen.room, n + 1)
      BY <2>1, <3>1 DEF Idle
    <3> QED BY <1>1, <3>2
  <2>2. CASE n = 0
    <3>1. ~Active(Received(Head(line)).room)
      BY <2>2 DEF Idle
    <3>2. line[1].kind \in {"ack", "room"} => Received(Head(line)).room = line[1].game
      BY <1>1, WhatIsReceived
    <3>3. line[1].kind \in {"ack", "room"} => ~Active(line[1].game)
      BY <3>1, <3>2
    <3>4. line[1].kind \in {"ack", "room", "aborted"}
      BY <1>2, <2>2
    <3>5. Idle(line, screen.room, 1)
      BY <3>3, <3>4 DEF Idle
    <3> QED BY <1>1, <2>2, <3>5
  <2> QED BY <2>1, <2>2
<1>3. CASE n = 0 /\ line[1].kind \notin {"ack", "room", "aborted"}
  <2>1. Idle(line, screen.room, 0)
    BY <1>1, <1>3, WhatIsReceived DEF Idle
  <2>2. ASSUME NEW i \in 1..Len(line), Announces(line[i]) PROVE i - 1 > 0
    BY <1>1, <1>3, <2>2 DEF Announces
  <2> QED BY <1>3, <2>1, <2>2
<1> QED BY <1>2, <1>3

LEMMA TailTold ==
  ASSUME TypeOK, line # <<>>
  PROVE  /\ Told(line, screen.room) => Told(Tail(line), Received(Head(line)).room)
         /\ \A e : Anchors(line, screen, e) => Anchors(Tail(line), Received(Head(line)), e)
<1> DEFINE view == Received(Head(line)).room
<1>1. /\ line \in Seq(Message) /\ Len(line) \in Nat \ {0} /\ Len(Tail(line)) = Len(line) - 1
      /\ \A k \in 1..(Len(line) - 1) : Tail(line)[k] = line[k + 1]
      /\ Head(line) \in Message
  BY Arrived DEF TypeOK
<1> HIDE DEF view
<1>2. ASSUME Told(line, screen.room), NEW n \in 0..(Len(line) - 1), Idle(Tail(line), view, n)
      PROVE  \E i \in (n + 1)..(Len(line) - 1) : Announces(Tail(line)[i])
  <2>1. PICK k \in {n, n + 1} : Idle(line, screen.room, k)
              /\ \A i \in (k + 1)..Len(line) : Announces(line[i]) => i - 1 > n
    BY <1>2, IdleBefore DEF view
  <2>2. PICK i \in (k + 1)..Len(line) : Announces(line[i])
    BY <1>1, <1>2, <2>1 DEF Told
  <2>3. i - 1 \in (n + 1)..(Len(line) - 1) /\ Tail(line)[i - 1] = line[i]
    BY <1>1, <2>1, <2>2
  <2> QED BY <2>2, <2>3
<1>3. ASSUME NEW e, Recovers(line, screen.room, e), NEW n \in 0..(Len(line) - 1), Idle(Tail(line), view, n)
      PROVE  \E i \in (n + 1)..(Len(line) - 1) : Announces(Tail(line)[i]) /\ Settles(Tail(line), i, e)
  <2>1. PICK k \in {n, n + 1} : Idle(line, screen.room, k)
              /\ \A i \in (k + 1)..Len(line) : Announces(line[i]) => i - 1 > n
    BY <1>3, IdleBefore DEF view
  <2>2. PICK i \in (k + 1)..Len(line) : Announces(line[i]) /\ Settles(line, i, e)
    BY <1>1, <1>3, <2>1 DEF Recovers
  <2>3. /\ i - 1 \in (n + 1)..(Len(line) - 1) /\ Tail(line)[i - 1] = line[i]
        /\ i \in 1..Len(line)
    BY <1>1, <2>1, <2>2
  <2>4. Settles(Tail(line), i - 1, e)
    BY <1>1, <2>2, <2>3, LeadsLess
  <2> QED BY <2>2, <2>3, <2>4
<1>4. ASSUME NEW e, Leads(line, screen.game, e)
      PROVE  Leads(Tail(line), Received(Head(line)).game, e)
  BY <1>1, <1>4, LeadsLess, WhatIsReceived
<1> QED BY <1>1, <1>2, <1>3, <1>4 DEF Told, Anchors, Recovers, view

-----------------------------------------------------------------------------
(* What a handler sends.                                                   *)

\* A round with its phase.
Round(r) == r \in View /\ r.phase # "none" /\ r.version # Mixed

\* The news of a round that goes with its state.
News(r) == {<<>>, <<RoomMessage(r)>>, <<[RoomMessage(r) EXCEPT !.kind = "ack"], RoomMessage(r)>>}

LEMMA Concatenation ==
  ASSUME NEW s \in Seq(Message), NEW m \in Message
  PROVE  /\ s \o <<>> = s /\ s \o <<m>> = Append(s, m)
         /\ \A k \in Message : s \o <<m, k>> = Append(Append(s, m), k)
<1>1. s \o <<>> = s /\ s \o <<m>> = Append(s, m)
  OBVIOUS
<1>2. ASSUME NEW k \in Message PROVE s \o <<m, k>> = Append(Append(s, m), k)
  OBVIOUS
<1> QED BY <1>1, <1>2

LEMMA Associative ==
  ASSUME NEW S, NEW x \in Seq(S), NEW y \in Seq(S), NEW z \in Seq(S)
  PROVE  x \o (y \o z) = (x \o y) \o z
<1> DEFINE l == x \o (y \o z)
           r == (x \o y) \o z
<1>1. l \in Seq(S) /\ r \in Seq(S) /\ Len(l) = Len(r)
  OBVIOUS
<1>2. ASSUME NEW i \in 1..Len(l) PROVE l[i] = r[i]
  OBVIOUS
<1> HIDE DEF l, r
<1>3. l = r
  BY <1>1, <1>2, SeqEqual
<1> QED BY <1>3 DEF l, r

LEMMA Between ==
  ASSUME NEW s \in Seq(Message), NEW a \in Seq(Message), NEW b \in Seq(Message), NEW m \in Message
  PROVE  s \o (a \o <<m>> \o b) = Append(s \o a, m) \o b
<1> DEFINE c == <<m>>
           ac == a \o c
           sa == s \o a
<1>1. c \in Seq(Message) /\ ac \in Seq(Message) /\ sa \in Seq(Message)
  OBVIOUS
<1>2. sa \o c = Append(sa, m)
  BY <1>1, AppendIsConcat
<1>3. s \o ac = sa \o c
  BY <1>1, Associative
<1> HIDE DEF ac
<1>4. s \o (ac \o b) = (s \o ac) \o b
  BY SMTT(60), <1>1, Associative
<1> QED BY <1>2, <1>3, <1>4 DEF ac

LEMMA NewsTypes ==
  ASSUME NEW r, Round(r)
  PROVE  /\ RoomMessage(r) \in Message /\ [RoomMessage(r) EXCEPT !.kind = "ack"] \in Message
         /\ StateMessage(r) \in Message /\ StateMessage(r).kind = "state" /\ StateMessage(r).game = r
         /\ News(r) \subseteq Seq(Message)
<1>1. RoomMessage(r) \in Message /\ [RoomMessage(r) EXCEPT !.kind = "ack"] \in Message
  BY DEF Round, RoomMessage, Message, View
<1>2. StateMessage(r) \in Message /\ StateMessage(r).kind = "state" /\ StateMessage(r).game = r
  BY DEF Round, StateMessage, Message
<1> QED BY <1>1, <1>2 DEF News

\* News keeps the state on screen and tells of the round.
LEMMA NewsTell ==
  ASSUME NEW r, Round(r), NEW m \in {RoomMessage(r), [RoomMessage(r) EXCEPT !.kind = "ack"]}
  PROVE  /\ \A e : GameAfter(e, m) = e
         /\ Active(r) => Announces(m)
<1>1. m.kind \in {"ack", "room"} /\ m.game = [r EXCEPT !.version = 0]
  BY DEF RoomMessage
<1>2. m.game # Nothing /\ m.game.phase = r.phase
  BY <1>1 DEF Round, View, Nothing
<1> QED BY <1>1, <1>2 DEF GameAfter, Announces, Active

LEMMA NewsSent ==
  ASSUME NEW s \in Seq(Message), NEW r, Round(r), NEW news \in News(r), NEW shown,
         HasCourse(s)
  PROVE  /\ s \o news \in Seq(Message) /\ HasCourse(s \o news)
         /\ Active(r) /\ (news # <<>> \/ Told(s, shown.room)) => Told(s \o news, shown.room)
         /\ \A e : Active(r) /\ Anchors(s, shown, e) => Anchors(s \o news, shown, e)
<1>1. CASE news = <<>>
  BY <1>1, Concatenation, NewsTypes
<1>2. ASSUME NEW t \in Seq(Message), HasCourse(t),
             NEW m \in {RoomMessage(r), [RoomMessage(r) EXCEPT !.kind = "ack"]}
      PROVE  /\ Append(t, m) \in Seq(Message) /\ HasCourse(Append(t, m))
             /\ Active(r) => Told(Append(t, m), shown.room)
             /\ \A e : Active(r) /\ Anchors(t, shown, e) => Anchors(Append(t, m), shown, e)
  <2>1. m \in Message
    BY NewsTypes
  <2>2. Append(t, m) \in Seq(Message) /\ HasCourse(Append(t, m))
    BY <1>2, <2>1, Appended, CourseGoesOn
  <2>3. Active(r) => Told(Append(t, m), shown.room)
    BY <2>1, NewsTell, ToldByNews
  <2>4. ASSUME NEW e, Active(r), Anchors(t, shown, e) PROVE Anchors(Append(t, m), shown, e)
    BY <2>1, <2>4, NewsTell, StillAnchored
  <2> QED BY <2>2, <2>3, <2>4
<1>3. CASE news = <<RoomMessage(r)>>
  <2>1. s \o news = Append(s, RoomMessage(r))
    BY <1>3, Concatenation, NewsTypes
  <2> QED BY <1>2, <2>1
<1>4. CASE news = <<[RoomMessage(r) EXCEPT !.kind = "ack"], RoomMessage(r)>>
  <2> DEFINE t == Append(s, [RoomMessage(r) EXCEPT !.kind = "ack"])
  <2>1. s \o news = Append(t, RoomMessage(r))
    <3>1. RoomMessage(r) \in Message /\ [RoomMessage(r) EXCEPT !.kind = "ack"] \in Message
      BY NewsTypes
    <3> QED BY <1>4, <3>1, Concatenation
  <2>2. /\ t \in Seq(Message) /\ HasCourse(t)
        /\ \A e : Active(r) /\ Anchors(s, shown, e) => Anchors(t, shown, e)
    BY <1>2
  <2> HIDE DEF t
  <2> QED BY <1>2, <2>1, <2>2
<1> QED BY <1>1, <1>3, <1>4 DEF News

\* A state among the news.
LEMMA StateSent ==
  ASSUME NEW s \in Seq(Message), NEW r, Round(r), NEW before \in News(r), NEW after \in News(r),
         NEW shown, HasCourse(s)
  PROVE  LET t == s \o (before \o <<StateMessage(r)>> \o after)
         IN /\ t \in Seq(Message) /\ HasCourse(t)
            /\ Active(r) /\ (before # <<>> \/ Told(s, shown.room)) =>
                 Told(t, shown.room) /\ Anchors(t, shown, r)
<1> DEFINE m == StateMessage(r)
           u == s \o before
           v == Append(u, m)
<1>1. m \in Message /\ m.kind = "state" /\ m.game = r /\ before \in Seq(Message) /\ after \in Seq(Message)
  BY NewsTypes
<1>2. s \o (before \o <<m>> \o after) = v \o after
  BY ZenonT(60), <1>1, Between
<1>3. /\ u \in Seq(Message) /\ HasCourse(u)
      /\ Active(r) /\ (before # <<>> \/ Told(s, shown.room)) => Told(u, shown.room)
  BY NewsSent
<1> HIDE DEF u, m
<1>4. /\ v \in Seq(Message) /\ HasCourse(v)
      /\ Told(u, shown.room) => Told(v, shown.room) /\ Anchors(v, shown, r)
  BY <1>1, <1>3, Appended, CourseGoesOn, StillTold, StateAnchors
<1> HIDE DEF v
<1>5. /\ v \o after \in Seq(Message) /\ HasCourse(v \o after)
      /\ Active(r) /\ Told(v, shown.room) => Told(v \o after, shown.room)
      /\ Active(r) /\ Anchors(v, shown, r) => Anchors(v \o after, shown, r)
  BY <1>4, NewsSent
<1> QED BY <1>2, <1>3, <1>4, <1>5 DEF m

\* A patch among the news, made against what the line leads to.
LEMMA PatchSent ==
  ASSUME TypeOK, HasCourse(line), NEW r, Round(r), PatchFits(r),
         NEW before \in News(r), NEW after \in News(r)
  PROVE  LET t == line \o (before \o <<PatchMessage(r)>> \o after)
         IN /\ t \in Seq(Message) /\ HasCourse(t)
            /\ before # <<>> \/ Told(line, screen.room) => Told(t, screen.room)
            /\ Anchors(line, screen, remembered) => Anchors(t, screen, r)
<1> DEFINE m == PatchMessage(r)
           u == line \o before
           v == Append(u, m)
<1>0. Active(r) /\ line \in Seq(Message) /\ remembered \in View
  BY DEF PatchFits, Active, TypeOK
<1>1. m \in Message /\ m.kind = "patch"
  BY <1>0 DEF PatchMessage, Message, Round, View
<1>2. GameAfter(remembered, m) = r
  <2>1. remembered # Nothing /\ remembered.number = r.number /\ remembered.phase = r.phase
    BY DEF PatchFits, Nothing
  <2>2. GameAfter(remembered, m) = [remembered EXCEPT !.version = r.version]
    BY <1>0, <2>1 DEF GameAfter, ApplyPatch, PatchMessage, Round, View
  <2> QED BY <1>0, <2>1, <2>2 DEF Round, View
<1>3. before \in Seq(Message) /\ after \in Seq(Message)
  BY NewsTypes
<1>4. line \o (before \o <<m>> \o after) = v \o after
  BY ZenonT(60), <1>0, <1>1, <1>3, Between
<1>5. /\ u \in Seq(Message) /\ HasCourse(u)
      /\ before # <<>> \/ Told(line, screen.room) => Told(u, screen.room)
      /\ Anchors(line, screen, remembered) => Anchors(u, screen, remembered)
  BY <1>0, NewsSent
<1> HIDE DEF u, m
<1>6. /\ v \in Seq(Message) /\ HasCourse(v)
      /\ Told(u, screen.room) => Told(v, screen.room)
      /\ Anchors(u, screen, remembered) => Anchors(v, screen, r)
  BY <1>1, <1>2, <1>5, Appended, CourseGoesOn, StillTold, StillAnchored
<1> HIDE DEF v
<1>7. /\ v \o after \in Seq(Message) /\ HasCourse(v \o after)
      /\ Told(v, screen.room) => Told(v \o after, screen.room)
      /\ Anchors(v, screen, r) => Anchors(v \o after, screen, r)
  BY <1>0, <1>6, NewsSent
<1> QED BY <1>4, <1>5, <1>6, <1>7 DEF m

\* What a broadcast leaves behind.
Broadcasted(here, r) ==
  /\ line' \in Seq(Message) /\ HasCourse(line')
  /\ remembered' \in View /\ held' \in BOOLEAN /\ anchored' \in BOOLEAN /\ drops' \in Nat
  /\ ~here => line' = line /\ ~anchored'
  /\ here /\ Active(r) => Told(line', screen.room)
  /\ anchored' /\ Active(r) => Anchors(line', screen, remembered')

LEMMA BroadcastFits ==
  ASSUME TypeOK, HasCourse(line), NEW here \in BOOLEAN, NEW r, Round(r),
         NEW before \in News(r), NEW after \in News(r), BroadcastGame(here, r, before, after),
         ~here => ~anchored,
         here /\ Active(r) => before # <<>> \/ Told(line, screen.room),
         anchored /\ r.phase \in Live => Anchors(line, screen, remembered)
  PROVE  Broadcasted(here, r)
<1>0. /\ line \in Seq(Message) /\ remembered \in View /\ r \in View
      /\ held \in BOOLEAN /\ anchored \in BOOLEAN /\ drops \in Nat /\ r # Nothing
      /\ before \in Seq(Message) /\ after \in Seq(Message)
  <2>1. News(r) \subseteq Seq(Message)
    BY NewsTypes
  <2> QED BY <2>1 DEF TypeOK, Round, Nothing
<1>1. held' \in BOOLEAN
  BY <1>0 DEF BroadcastGame, HeldAfter, TypeOK
<1>2. \A n \in News(r) :
               /\ line \o n \in Seq(Message) /\ HasCourse(line \o n)
               /\ Active(r) /\ (n # <<>> \/ Told(line, screen.room)) => Told(line \o n, screen.room)
               /\ Active(r) /\ Anchors(line, screen, remembered) => Anchors(line \o n, screen, remembered)
  BY <1>0, NewsSent
<1>3. ASSUME Send(here, before \o after), here PROVE line' = (line \o before) \o after
  BY SMTT(60), <1>0, <1>3, Associative DEF Send
<1>4. /\ line \o before \in Seq(Message) /\ HasCourse(line \o before)
      /\ here /\ Active(r) => Told(line \o before, screen.room)
      /\ Active(r) /\ Anchors(line, screen, remembered) => Anchors(line \o before, screen, remembered)
  BY <1>2
<1>5. ASSUME Send(here, before \o after), here
      PROVE  /\ line' \in Seq(Message) /\ HasCourse(line')
             /\ Active(r) => Told(line', screen.room)
             /\ Active(r) /\ Anchors(line, screen, remembered) => Anchors(line', screen, remembered)
  <2> DEFINE u == line \o before
  <2>1. line' = u \o after
    BY <1>3, <1>5
  <2>2. /\ u \in Seq(Message) /\ HasCourse(u) /\ (Active(r) => Told(u, screen.room))
        /\ Active(r) /\ Anchors(line, screen, remembered) => Anchors(u, screen, remembered)
    BY <1>4, <1>5
  <2> HIDE DEF u
  <2>3. /\ u \o after \in Seq(Message) /\ HasCourse(u \o after)
        /\ Active(r) /\ Told(u, screen.room) => Told(u \o after, screen.room)
        /\ Active(r) /\ Anchors(u, screen, remembered) => Anchors(u \o after, screen, remembered)
    BY <2>2, NewsSent
  <2> QED BY <2>1, <2>2, <2>3
<1>6. r.phase \in Live => Active(r)
  BY DEF Live, Active
<1>7. CASE ~here
  BY <1>0, <1>1, <1>7 DEF BroadcastGame, Send, Broadcasted
<1>8. CASE here /\ ~IsDue(r.phase)
  <2>1. Send(here, before \o after) /\ remembered' = remembered /\ anchored' = anchored /\ drops' = drops
    BY <1>0, <1>8 DEF BroadcastGame
  <2>2. r.phase \in Live
    BY <1>8 DEF IsDue
  <2> QED BY <1>0, <1>1, <1>5, <1>6, <1>8, <2>1, <2>2 DEF Broadcasted
<1>9. CASE here /\ IsDue(r.phase)
  <2>1. CASE EmitPatch(r, before, after)
    <3>1. /\ PatchFits(r) /\ remembered' = r /\ anchored' = anchored /\ drops' = drops
          /\ line' = line \o (before \o <<PatchMessage(r)>> \o after)
      BY <2>1 DEF EmitPatch, Remember, Send
    <3>2. r.phase \in Live
      BY <3>1 DEF PatchFits, Live
    <3>3. /\ line' \in Seq(Message) /\ HasCourse(line')
          /\ before # <<>> \/ Told(line, screen.room) => Told(line', screen.room)
          /\ Anchors(line, screen, remembered) => Anchors(line', screen, r)
      BY <3>1, PatchSent
    <3> QED BY <1>0, <1>1, <1>6, <1>9, <3>1, <3>2, <3>3 DEF Broadcasted
  <2>2. CASE EmitState(r, before, after)
    <3>1. /\ remembered' = r /\ anchored' = TRUE /\ drops' = drops
          /\ line' = line \o (before \o <<StateMessage(r)>> \o after)
      BY <2>2 DEF EmitState, Remember, Send
    <3>2. /\ line' \in Seq(Message) /\ HasCourse(line')
          /\ Active(r) /\ (before # <<>> \/ Told(line, screen.room)) =>
               Told(line', screen.room) /\ Anchors(line', screen, r)
      BY <1>0, <3>1, StateSent
    <3> QED BY <1>0, <1>1, <1>9, <3>1, <3>2 DEF Broadcasted
  <2>3. CASE DropState(r, before, after)
    <3>1. /\ remembered' = r /\ anchored' = FALSE /\ drops' = drops + 1
          /\ Send(TRUE, before \o after)
      BY <2>3 DEF DropState, Remember
    <3>2. Send(here, before \o after)
      BY <1>9, <3>1 DEF Send
    <3>3. line' \in Seq(Message) /\ HasCourse(line') /\ (Active(r) => Told(line', screen.room))
      BY <1>5, <1>9, <3>2
    <3>4. remembered' \in View /\ anchored' \in BOOLEAN
      BY <1>0, <3>1
    <3>5. drops' \in Nat
      BY <1>0, <3>1
    <3> QED BY <1>1, <1>9, <3>1, <3>3, <3>4, <3>5 DEF Broadcasted
  <2> QED BY <1>0, <1>9, <2>1, <2>2, <2>3 DEF BroadcastGame
<1> QED BY <1>7, <1>8, <1>9

-----------------------------------------------------------------------------
(* The steps.                                                              *)

\* What a handler with a broadcast has to show.
LEMMA AfterBroadcast ==
  ASSUME IInv, Round(round'), Broadcasted(joined', round'), joined' \in {joined, TRUE},
         screen' = screen, manifest' = manifest, asked' = asked, losses' = losses, opened' \in Nat,
         joined' # joined => asked = "nothing"
  PROVE  IInv'
<1>1. round' \in View /\ round'.version # Mixed /\ round'.phase # "none"
  BY DEF Round
<1>2. TypeOK'
  BY <1>1 DEF IInv, TypeOK, Broadcasted
<1> QED BY <1>1, <1>2 DEF IInv, Broadcasted

LEMMA RoundNow == ASSUME IInv, round # Nothing PROVE Round(round)
  BY DEF IInv, TypeOK, Round

LEMMA StartRoundFits == ASSUME IInv, StartRound PROVE IInv'
<1>1. Round(NewRound) /\ NewRound.phase \notin Live
  BY DEF IInv, TypeOK, Round, NewRound, View, Quiet, Live, Mixed
<1>2. <<RoomMessage(NewRound)>> \in News(NewRound) /\ <<>> \in News(NewRound)
  BY DEF News
<1>3. /\ BroadcastGame(joined, NewRound, <<RoomMessage(NewRound)>>, <<>>)
      /\ round' = NewRound /\ opened' \in Nat
      /\ screen' = screen /\ manifest' = manifest /\ asked' = asked /\ losses' = losses /\ joined' = joined
  BY DEF StartRound, serverOnly, IInv, TypeOK
<1>4. <<RoomMessage(NewRound)>> # <<>>
  OBVIOUS
<1>5. Broadcasted(joined, NewRound)
  BY <1>1, <1>2, <1>3, <1>4, BroadcastFits DEF IInv, TypeOK
<1> QED BY <1>1, <1>3, <1>5, AfterBroadcast

LEMMA RestartRoundFits == ASSUME IInv, RestartRound PROVE IInv'
<1>1. Round(NewRound) /\ NewRound.phase \notin Live
  BY DEF IInv, TypeOK, Round, NewRound, View, Quiet, Live, Mixed
<1>2. <<RoomMessage(NewRound)>> \in News(NewRound) /\ <<>> \in News(NewRound)
  BY DEF News
<1>3. /\ BroadcastGame(joined, NewRound, <<>>, <<RoomMessage(NewRound)>>)
      /\ round' = NewRound /\ opened' \in Nat
      /\ screen' = screen /\ manifest' = manifest /\ asked' = asked /\ losses' = losses /\ joined' = joined
  BY DEF RestartRound, serverOnly, IInv, TypeOK
<1>4. Active(round)
  BY DEF RestartRound, Active
<1>5. Broadcasted(joined, NewRound)
  BY <1>1, <1>2, <1>3, <1>4, BroadcastFits DEF IInv, TypeOK
<1> QED BY <1>1, <1>3, <1>5, AfterBroadcast

\* The broadcast of a running round that goes on.
LEMMA RoundGoesOn ==
  ASSUME IInv, Active(round), Round(round'), NEW before \in News(round'), NEW after \in News(round'),
         BroadcastGame(joined, round', before, after),
         opened' = opened, manifest' = manifest, joined' = joined, screen' = screen, asked' = asked,
         losses' = losses
  PROVE  IInv'
<1>1. Broadcasted(joined, round')
  BY BroadcastFits DEF IInv, TypeOK
<1>2. opened' \in Nat
  BY DEF IInv, TypeOK
<1> QED BY <1>1, <1>2, AfterBroadcast

LEMMA LaterPhases ==
  ASSUME NEW phase \in Quiet \cup Live
  PROVE  Later(phase) \subseteq Quiet \cup Live
<1>1. /\ Len(Order) = 5
      /\ Order[1] = "round_intro" /\ Order[2] = "playing" /\ Order[3] = "locked"
      /\ Order[4] = "result" /\ Order[5] = "finished"
  BY DEF Order
<1>2. \A i \in 1..5 : Order[i] \in Quiet \cup Live
  <2> SUFFICES ASSUME NEW i \in 1..5 PROVE Order[i] \in Quiet \cup Live
    OBVIOUS
  <2>1. i \in {1, 2, 3, 4, 5}
    OBVIOUS
  <2> QED BY <1>1, <2>1 DEF Quiet, Live
<1>3. \E i \in 1..Len(Order) : Order[i] = phase
  BY <1>1 DEF Quiet, Live
<1>4. Rank(phase) \in 1..5
  BY <1>1, <1>3 DEF Rank
<1> QED BY <1>1, <1>2, <1>4 DEF Later

LEMMA TickPhaseFits == ASSUME IInv, TickPhase PROVE IInv'
<1>1. PICK phase \in Later(round.phase) :
        LET r == [round EXCEPT !.phase = phase]
        IN  round' = r /\ BroadcastGame(joined, r, <<>>, <<RoomMessage(r)>>)
  BY DEF TickPhase
<1>2. round' = [round EXCEPT !.phase = phase] /\ BroadcastGame(joined, round', <<>>, <<RoomMessage(round')>>)
  BY <1>1
<1>3. Round(round')
  <2>1. round.phase \in Quiet \cup Live
    BY DEF TickPhase, Active, IInv, TypeOK, View
  <2>2. phase \in Quiet \cup Live
    BY <2>1, LaterPhases
  <2> QED BY <1>2, <2>2 DEF IInv, TypeOK, Round, View, Quiet, Live
<1>4. <<RoomMessage(round')>> \in News(round') /\ <<>> \in News(round')
  BY DEF News
<1> QED BY <1>2, <1>3, <1>4, RoundGoesOn DEF TickPhase, serverOnly

LEMMA GrownIsRound ==
  ASSUME IInv, NEW phase \in Live PROVE Round(Grown(round, phase))
<1>1. round.version + 1 \in Nat /\ round.version + 1 # Mixed
  BY DEF IInv, TypeOK, View, Mixed
<1> QED BY <1>1 DEF IInv, TypeOK, Round, Grown, View, Live

LEMMA TickMovesFits == ASSUME IInv, TickMoves PROVE IInv'
<1>1. /\ round' = Grown(round, "playing") /\ BroadcastGame(joined, round', <<>>, <<>>)
      /\ Active(round)
  BY DEF TickMoves, Active
<1>2. Round(round') /\ <<>> \in News(round')
  BY <1>1, GrownIsRound DEF Live, News
<1> QED BY <1>1, <1>2, RoundGoesOn DEF TickMoves, serverOnly

LEMMA GameInputFits == ASSUME IInv, GameInput PROVE IInv'
<1>1. PICK phase \in {"playing", "locked"} :
        LET r == Grown(round, phase)
            phaseChanged == phase # "playing"
            room == IF phaseChanged THEN <<RoomMessage(r)>> ELSE <<>>
        IN /\ round' = r
           /\ IF CanDefer(phaseChanged)
              THEN UNCHANGED <<held, remembered, line, anchored, drops>>
              ELSE BroadcastGame(joined, r, <<>>, room)
  BY DEF GameInput
<1>2. round' = Grown(round, phase) /\ Round(round') /\ Active(round)
  BY <1>1, GrownIsRound DEF Live, GameInput, Active
<1>3. CASE UNCHANGED <<held, remembered, line, anchored, drops>>
  BY <1>2, <1>3 DEF IInv, TypeOK, GameInput, serverOnly, Round
<1>4. CASE \E room \in {<<>>, <<RoomMessage(round')>>} : BroadcastGame(joined, round', <<>>, room)
  <2>1. {<<>>, <<RoomMessage(round')>>} \subseteq News(round')
    BY DEF News
  <2> QED BY <1>2, <1>4, <2>1, RoundGoesOn DEF GameInput, serverOnly
<1> QED BY <1>1, <1>2, <1>3, <1>4

\* The room without its round.
Farewell ==
  {<<RoomMessage(Nothing)>>, <<RoomMessage(Nothing), [RoomMessage(Nothing) EXCEPT !.kind = "aborted"]>>}

LEMMA FarewellSent ==
  ASSUME NEW s \in Seq(Message), HasCourse(s), NEW news \in Farewell
  PROVE  s \o news \in Seq(Message) /\ HasCourse(s \o news)
<1> DEFINE m == RoomMessage(Nothing)
           k == [m EXCEPT !.kind = "aborted"]
<1>1. m \in Message /\ k \in Message
  BY DEF RoomMessage, Message, View, Nothing
<1> HIDE DEF k
<1>2. /\ Append(s, m) \in Seq(Message) /\ HasCourse(Append(s, m))
      /\ Append(Append(s, m), k) \in Seq(Message) /\ HasCourse(Append(Append(s, m), k))
  BY <1>1, Appended, CourseGoesOn
<1>3. s \o <<m>> = Append(s, m) /\ s \o <<m, k>> = Append(Append(s, m), k)
  BY <1>1, Concatenation
<1> QED BY <1>2, <1>3 DEF Farewell, k

\* What a step has to show that leaves no round.
LEMMA NoRoundFits ==
  ASSUME IInv, round' = Nothing, line' \in Seq(Message), HasCourse(line'), joined' = joined,
         ~joined => line' = line /\ asked' = asked /\ ~anchored',
         screen' = screen, asked' \in {"nothing", "abort", "select"}, anchored' \in BOOLEAN,
         remembered' \in {remembered, Nothing}, held' \in BOOLEAN, manifest' = manifest,
         opened' = opened, drops' = drops, losses' = losses
  PROVE  IInv'
<1>1. Nothing \in View /\ Nothing.version # Mixed /\ ~Active(Nothing)
  BY DEF View, Nothing, Mixed, Active
<1>2. TypeOK'
  BY <1>1 DEF IInv, TypeOK
<1> QED BY <1>1, <1>2 DEF IInv

LEMMA SelectGameFits == ASSUME IInv, SelectGame PROVE IInv'
<1>1. line \in Seq(Message) /\ HasCourse(line) /\ <<RoomMessage(Nothing)>> \in Farewell
  BY DEF IInv, TypeOK, Farewell
<1>2. line' = (IF joined THEN line \o <<RoomMessage(Nothing)>> ELSE line)
  BY DEF SelectGame, Send
<1>3. line' \in Seq(Message) /\ HasCourse(line')
  BY <1>1, <1>2, FarewellSent
<1>4. /\ round' = Nothing /\ joined' = joined /\ screen' = screen /\ asked' = asked /\ anchored' = anchored
      /\ remembered' = remembered /\ held' = held /\ manifest' = manifest
      /\ opened' = opened /\ drops' = drops /\ losses' = losses
  BY DEF SelectGame, serverOnly
<1>5. /\ asked \in {"nothing", "abort", "select"} /\ anchored \in BOOLEAN /\ held \in BOOLEAN
      /\ ~joined => ~anchored
  BY DEF IInv, TypeOK
<1> QED BY <1>2, <1>3, <1>4, <1>5, NoRoundFits

LEMMA AbortRoundFits == ASSUME IInv, AbortRound PROVE IInv'
<1>1. line \in Seq(Message) /\ HasCourse(line) /\ <<RoomMessage(Nothing)>> \in Farewell
  BY DEF IInv, TypeOK, Farewell
<1>2. line' = (IF joined THEN line \o <<RoomMessage(Nothing)>> ELSE line)
  BY DEF AbortRound, Send
<1>3. line' \in Seq(Message) /\ HasCourse(line')
  BY <1>1, <1>2, FarewellSent
<1>4. /\ round' = Nothing /\ joined' = joined /\ screen' = screen /\ asked' = asked /\ anchored' = FALSE
      /\ remembered' = Nothing /\ held' = FALSE /\ manifest' = manifest
      /\ opened' = opened /\ drops' = drops /\ losses' = losses
  BY DEF AbortRound, ClearGameStateCache, serverOnly
<1>5. asked \in {"nothing", "abort", "select"}
  BY DEF IInv, TypeOK
<1> QED BY <1>2, <1>3, <1>4, <1>5, NoRoundFits

\* The screen is answered while it is in the room.
LEMMA AnswerFits == ASSUME IInv, AnswerAbort \/ AnswerSelect PROVE IInv'
<1>1. line \in Seq(Message) /\ HasCourse(line) /\ joined /\ anchored \in BOOLEAN /\ held \in BOOLEAN
  BY DEF IInv, TypeOK, AnswerAbort, AnswerSelect
<1>2. \E news \in Farewell : line' = line \o news
  BY DEF AnswerAbort, AnswerSelect, Send, Farewell
<1>3. line' \in Seq(Message) /\ HasCourse(line')
  BY <1>1, <1>2, FarewellSent
<1>4. /\ round' = Nothing /\ joined' = joined /\ screen' = screen /\ asked' = "nothing"
      /\ anchored' \in BOOLEAN /\ remembered' \in {remembered, Nothing} /\ held' \in BOOLEAN
      /\ manifest' = manifest /\ opened' = opened /\ drops' = drops /\ losses' = losses
  BY <1>1 DEF AnswerAbort, AnswerSelect, ClearGameStateCache
<1> QED BY <1>1, <1>3, <1>4, NoRoundFits

LEMMA RebroadcastFits == ASSUME IInv, Rebroadcast PROVE IInv'
<1>0. /\ BroadcastGame(joined, round, <<RoomMessage(round)>>, <<>>)
      /\ round' = round /\ opened' = opened /\ manifest' = manifest /\ joined' = joined
      /\ screen' = screen /\ asked' = asked /\ losses' = losses
  BY DEF Rebroadcast, serverOnly
<1>1. CASE round # Nothing
  <2>1. Round(round) /\ <<RoomMessage(round)>> \in News(round) /\ <<>> \in News(round)
    BY <1>1, RoundNow DEF News
  <2>2. <<RoomMessage(round)>> # <<>>
    OBVIOUS
  <2>3. anchored /\ round.phase \in Live => Anchors(line, screen, remembered)
    BY DEF IInv, Active, Live
  <2>4. Broadcasted(joined, round)
    BY <1>0, <2>1, <2>2, <2>3, BroadcastFits DEF IInv, TypeOK
  <2> QED BY <1>0, <2>1, <2>4, AfterBroadcast DEF IInv, TypeOK
<1>2. CASE round = Nothing
  <2>1. /\ line \in Seq(Message) /\ HasCourse(line) /\ <<RoomMessage(Nothing)>> \in Farewell
        /\ asked \in {"nothing", "abort", "select"} /\ anchored \in BOOLEAN /\ held \in BOOLEAN
        /\ ~joined => ~anchored
    BY DEF IInv, TypeOK, Farewell
  <2>2. <<RoomMessage(Nothing)>> \o <<>> = <<RoomMessage(Nothing)>>
    OBVIOUS
  <2>3. /\ line' = (IF joined THEN line \o <<RoomMessage(Nothing)>> ELSE line)
        /\ remembered' = remembered /\ held' = held /\ anchored' = anchored /\ drops' = drops
    BY <1>0, <1>2, <2>2 DEF BroadcastGame, Send
  <2>4. line' \in Seq(Message) /\ HasCourse(line')
    BY <2>1, <2>3, FarewellSent
  <2> QED BY <1>0, <1>2, <2>1, <2>3, <2>4, NoRoundFits
<1> QED BY <1>1, <1>2

LEMMA IntervalPassesFits == ASSUME IInv, IntervalPasses PROVE IInv'
  BY DEF IntervalPasses, IInv, TypeOK

LEMMA AttachScreenFits == ASSUME IInv, AttachScreen PROVE IInv'
<1> DEFINE ack == [RoomMessage(round) EXCEPT !.kind = "ack"]
<1>0. /\ BroadcastGame(TRUE, round, <<ack, RoomMessage(round)>>, <<>>)
      /\ ~joined /\ joined' = TRUE /\ ~anchored
      /\ round' = round /\ opened' = opened /\ manifest' = manifest
      /\ screen' = screen /\ asked' = asked /\ asked = "nothing" /\ losses' = losses
  BY DEF AttachScreen, IInv, TypeOK
<1>1. CASE round # Nothing
  <2>1. Round(round) /\ <<ack, RoomMessage(round)>> \in News(round) /\ <<>> \in News(round)
    BY <1>1, RoundNow DEF News
  <2>2. <<ack, RoomMessage(round)>> # <<>>
    OBVIOUS
  <2> HIDE DEF ack
  <2>3. Broadcasted(TRUE, round)
    BY <1>0, <2>1, <2>2, BroadcastFits DEF IInv
  <2> QED BY <1>0, <2>1, <2>3, AfterBroadcast DEF IInv, TypeOK
<1>2. CASE round = Nothing
  <2> DEFINE m == RoomMessage(Nothing)
             k == [m EXCEPT !.kind = "ack"]
  <2>1. /\ line \in Seq(Message) /\ HasCourse(line) /\ m \in Message /\ k \in Message
        /\ ~Active(Nothing)
    BY DEF IInv, TypeOK, RoomMessage, Message, View, Nothing, Active
  <2>2. <<ack, RoomMessage(round)>> \o <<>> = <<k, m>>
    BY <1>2
  <2>3. /\ line' = line \o <<k, m>>
        /\ remembered' = remembered /\ held' = held /\ anchored' = anchored /\ drops' = drops
    BY <1>0, <1>2, <2>2 DEF BroadcastGame, Send
  <2> HIDE DEF m, k
  <2>4. line' = Append(Append(line, k), m)
    BY <2>1, <2>3, Concatenation
  <2>5. Append(line, k) \in Seq(Message) /\ HasCourse(Append(line, k))
    BY <2>1, Appended, CourseGoesOn
  <2>6. line' \in Seq(Message) /\ HasCourse(line')
    BY <2>1, <2>4, <2>5, Appended, CourseGoesOn
  <2>7. TypeOK'
    BY <1>0, <2>3, <2>6 DEF IInv, TypeOK
  <2> QED BY <1>0, <1>2, <2>1, <2>6, <2>7 DEF IInv
<1> QED BY <1>1, <1>2

LEMMA LoseConnectionFits == ASSUME IInv, LoseConnection PROVE IInv'
<1>1. HasCourse(<<>>) /\ <<>> \in Seq(Message)
  BY NoMessages
<1>2. NewScreen \in Screen
  BY DEF NewScreen, Screen, View, Nothing
<1>3. TypeOK'
  <2>1. /\ joined' = FALSE /\ line' = <<>> /\ asked' = "nothing" /\ anchored' = FALSE
        /\ losses' = losses + 1 /\ screen' \in {screen, NewScreen}
        /\ UNCHANGED <<manifest, round, opened, remembered, held, drops>>
    BY DEF LoseConnection, server
  <2>2. losses' \in Nat /\ screen' \in Screen
    BY <1>2, <2>1 DEF IInv, TypeOK
  <2>3. line' \in Seq(Message) /\ anchored' \in BOOLEAN /\ joined' \in BOOLEAN
    BY <1>1, <2>1
  <2> QED BY <2>1, <2>2, <2>3 DEF IInv, TypeOK
<1> QED BY <1>1, <1>3 DEF LoseConnection, server, IInv, TypeOK

LEMMA DeliverFits == ASSUME IInv, Deliver PROVE IInv'
<1>1. line \in Seq(Message) /\ line # <<>> /\ TypeOK
  BY DEF IInv, TypeOK, Deliver
<1>2. Tail(line) \in Seq(Message) /\ Head(line) \in Message /\ HasCourse(Tail(line))
  BY <1>1, Arrived, CourseRemains DEF IInv
<1>3. Received(Head(line)) \in Screen
  BY <1>1, <1>2, WhatIsReceived
<1>4. joined
  BY <1>1 DEF TypeOK
<1>5. TypeOK'
  BY <1>1, <1>2, <1>3, <1>4 DEF Deliver, server, TypeOK
<1> QED BY <1>1, <1>2, <1>5, TailTold DEF Deliver, server, IInv

\* The screen forgets its game where it believes that no round is running.
LEMMA ForgetsNothing ==
  ASSUME TypeOK, ~Active(screen.room), NEW e, Anchors(line, screen, e)
  PROVE  Anchors(line, ShowCatalog, e)
<1>1. line \in Seq(Message) /\ Len(line) \in Nat
  BY DEF TypeOK
<1>2. PICK i \in 1..Len(line) : Settles(line, i, e)
  BY <1>1 DEF Anchors, Recovers, Idle
<1>3. ASSUME NEW f, Follows(f, line, 0) PROVE f[Len(line)] = e
  <2>1. Follows(f, line, i)
    BY <1>1, <1>3 DEF Follows
  <2> QED BY <1>2, <2>1 DEF Settles
<1>4. ShowCatalog.room = Nothing /\ ~Active(Nothing)
  BY DEF ShowCatalog, TypeOK, Screen, Active, Nothing
<1> QED BY <1>3, <1>4 DEF Anchors, Leads, Recovers, Idle

LEMMA ReturnFits == ASSUME IInv, ReturnToGameSelection PROVE IInv'
<1>0. /\ joined /\ joined' = joined /\ line' = line /\ round' = round /\ anchored' = anchored
      /\ remembered' = remembered
  BY DEF ReturnToGameSelection, server
<1>1. CASE Active(screen.room)
  BY <1>1 DEF ReturnToGameSelection, server, IInv, TypeOK
<1>2. CASE ~Active(screen.room)
  <2>1. screen' = ShowCatalog /\ asked' = "select"
    BY <1>2 DEF ReturnToGameSelection
  <2>2. ShowCatalog \in Screen /\ ~Active(ShowCatalog.room)
    BY DEF IInv, TypeOK, ShowCatalog, Screen, View, Active, Nothing
  <2>3. TypeOK'
    BY <2>1, <2>2 DEF ReturnToGameSelection, server, IInv, TypeOK
  <2>4. Told(line, screen.room) => Told(line, ShowCatalog.room)
    BY <1>2 DEF Told, Idle
  <2>5. anchored /\ Active(round) => Anchors(line, ShowCatalog, remembered)
    BY <1>2, ForgetsNothing DEF IInv
  <2> QED BY <1>0, <2>1, <2>3, <2>4, <2>5 DEF IInv
<1> QED BY <1>1, <1>2

-----------------------------------------------------------------------------
LEMMA InvInit == Init => IInv
<1> SUFFICES ASSUME Init PROVE IInv
  OBVIOUS
<1>1. Nothing \in View /\ NewScreen \in Screen /\ Nothing.version # Mixed
  BY DEF NewScreen, Screen, View, Nothing, Mixed
<1>2. HasCourse(<<>>) /\ <<>> \in Seq(Message)
  BY NoMessages
<1>3. TypeOK
  BY <1>1, <1>2 DEF Init, TypeOK
<1> QED BY <1>2, <1>3 DEF Init, IInv

LEMMA InvStep == IInv /\ [Next]_vars => IInv'
<1> SUFFICES ASSUME IInv, [Next]_vars PROVE IInv'
  OBVIOUS
<1>1. CASE UNCHANGED vars
  BY <1>1 DEF vars, server, IInv, TypeOK
<1>2. CASE ServerStep
  BY <1>2, StartRoundFits, RestartRoundFits, TickPhaseFits, TickMovesFits, GameInputFits,
     RebroadcastFits, SelectGameFits, AbortRoundFits, AnswerFits, IntervalPassesFits DEF ServerStep
<1>3. CASE ScreenStep
  BY <1>3, AttachScreenFits, LoseConnectionFits, DeliverFits, ReturnFits DEF ScreenStep
<1> QED BY <1>1, <1>2, <1>3 DEF Next

\* ShownAfter is a course of the line.
LEMMA ShownAfterIsCourse ==
  ASSUME line \in Seq(Message), HasCourse(line)
  PROVE  Follows(ShownAfter, line, 0) /\ ShownAfter[0] = screen.game
<1>1. Len(line) \in Nat /\ 0 \in 0..Len(line)
  OBVIOUS
<1>2. PICK f : Follows(f, line, 0) /\ f[0] = screen.game
  BY <1>1 DEF HasCourse
<1> DEFINE Step(g) == [n \in 0..Len(line) |-> IF n = 0 THEN screen.game ELSE GameAfter(g[n - 1], line[n])]
           h == [n \in 0..Len(line) |-> f[n]]
<1>3. h = Step(h)
  <2>1. ASSUME NEW n \in 0..Len(line)
        PROVE  f[n] = IF n = 0 THEN screen.game ELSE GameAfter(h[n - 1], line[n])
    <3>1. CASE n # 0
      <4>1. n \in 1..Len(line) /\ n - 1 \in 0..Len(line)
        BY <1>1, <3>1
      <4> QED BY <1>2, <3>1, <4>1 DEF Follows
    <3> QED BY <1>2, <3>1
  <2> QED BY <2>1
<1> HIDE DEF h
<1>4. ShownAfter = Step(ShownAfter)
  BY <1>3 DEF ShownAfter
<1>5. ASSUME NEW n \in 0..Len(line)
      PROVE  ShownAfter[n] = IF n = 0 THEN screen.game ELSE GameAfter(ShownAfter[n - 1], line[n])
  BY <1>4, <1>5
<1> QED BY <1>1, <1>5 DEF Follows

\* Every handler, every loss and every message leaves well-formed memories and messages.
THEOREM StreamTypeOK == Spec => []TypeOK
<1>1. IInv => TypeOK
  BY DEF IInv
<1> QED BY <1>1, InvInit, InvStep, PTL DEF Spec

\* The server's memory of the screen is what the screen will show, whatever was throttled,
\* deferred or merged, as long as the last full state went out on the present connection and
\* was not dropped (stateBroadcaster.ts 36-38).
THEOREM PatchBaseIsRight == Spec => []PatchBaseIsShown
<1>1. IInv => PatchBaseIsShown
  <2> SUFFICES ASSUME IInv, anchored, round.phase = "playing"
               PROVE  ShownAfter[Len(line)] = remembered
    BY DEF PatchBaseIsShown
  <2>1. Follows(ShownAfter, line, 0) /\ ShownAfter[0] = screen.game
    BY ShownAfterIsCourse DEF IInv, TypeOK
  <2>2. Leads(line, screen.game, remembered)
    BY DEF IInv, Anchors, Active
  <2> QED BY <2>1, <2>2 DEF Leads
<1> QED BY <1>1, InvInit, InvStep, PTL DEF Spec
=============================================================================
