-------------------------- MODULE PhoneSeatProofs --------------------------
(***************************************************************************)
(* When nothing is under way, an enabled phone sits on a seat of its own,  *)
(* which the server connects to its socket, and shows the round that runs; *)
(* and a session that has ended stays ended.  For every number of seats,   *)
(* devices, rounds, losses and timeouts, and lines of any length.          *)
(*                                                                         *)
(* The phone believes what it is told, some time after it was true.  So    *)
(* the invariant speaks of what is under way: whatever seats the phone     *)
(* speaks of one seat, which the phone has already unless it has yet to    *)
(* hear otherwise (DownFits); nothing that seats it comes behind the end   *)
(* of its session or the refusal of its resume, and news of the room come  *)
(* behind whatever does (LineFits); what it asks is asked in the name of   *)
(* the seat it has, or of one that is gone (UpFits); an answer it waits    *)
(* for is under way (PendFits), and so is, as the last of the news, the    *)
(* round that runs (NewsFit).  With the lines empty, what is left is what  *)
(* the phone shows (Settles).                                              *)
(*                                                                         *)
(* Each step is first described by what it does to each variable, lines    *)
(* as sets of messages with an order (Sealed, Refusing, Told, Newest), and *)
(* then shown to keep the invariant.  That a device has one seat is        *)
(* DevicesSitOnce.                                                         *)
(***************************************************************************)
EXTENDS PhoneSessionProofs, SequenceTheorems

Message == [kind : Events \cup Acks, seat : Nat, round : Nat, ask : Nat]
Question == [kind : {"join", "resume", "leave", "profile"}, seat : Nat, device : Nat, ask : Nat]

\* What is in a line, in whatever order.
In(line) == {line[i] : i \in 1..Len(line)}

\* Messages that seat the phone.
Seating == {"joined", "resume-ok", "resumed", "profile-ok"}

-----------------------------------------------------------------------------
(* Lines.                                                                  *)

\* Nothing seats the phone behind a message that ends its session.
Sealed(line) ==
  \A i, j \in 1..Len(line) : i < j /\ line[i].kind = "closed" => line[j].kind \notin Seating

\* Nor behind the refusal of resume number ask.
Refusing(line, ask) ==
  \A i, j \in 1..Len(line) :
     i < j /\ line[i].kind = "resume-error" /\ line[i].ask = ask => line[j].kind \notin Seating

\* Whatever seats the phone is followed by news of the room.
Told(line) ==
  \A i \in 1..Len(line) :
     line[i].kind \in Seating => \E j \in (i + 1)..Len(line) : line[j].kind = "room"

\* The last news of the room are of round r.
Newest(line, r) ==
  \A i \in 1..Len(line) :
     line[i].kind = "room"
       => line[i].round = r \/ \E j \in (i + 1)..Len(line) : line[j].kind = "room"

LEMMA EmptyLine ==
  /\ In(<<>>) = {} /\ Sealed(<<>>) /\ Told(<<>>)
  /\ \A a : Refusing(<<>>, a) /\ Newest(<<>>, a)
<1>1. 1..Len(<<>>) = {}
  OBVIOUS
<1> QED BY <1>1 DEF In, Sealed, Told, Refusing, Newest

LEMMA LineTail ==
  ASSUME NEW T, NEW line \in Seq(T), line # <<>>
  PROVE  /\ Head(line) \in T /\ Tail(line) \in Seq(T)
         /\ In(line) = In(Tail(line)) \cup {Head(line)}
         /\ Sealed(line) => Sealed(Tail(line))
         /\ Sealed(line) /\ Head(line).kind = "closed"
              => \A m \in In(Tail(line)) : m.kind \notin Seating
         /\ Told(line) => Told(Tail(line))
         /\ Told(line) /\ Head(line).kind \in Seating => \E m \in In(Tail(line)) : m.kind = "room"
         /\ \A a : /\ Refusing(line, a) => Refusing(Tail(line), a)
                   /\ Refusing(line, a) /\ Head(line).kind = "resume-error" /\ Head(line).ask = a
                        => \A m \in In(Tail(line)) : m.kind \notin Seating
                   /\ Newest(line, a) => Newest(Tail(line), a)
                   /\ Newest(line, a) /\ Head(line).kind = "room" /\ Head(line).round # a
                        => \E m \in In(Tail(line)) : m.kind = "room"
<1> DEFINE rest == Tail(line)
<1>1. /\ rest \in Seq(T) /\ Head(line) = line[1] /\ Len(line) \in Nat /\ Len(line) >= 1
      /\ Len(rest) = Len(line) - 1 /\ line[1] \in T
      /\ \A i \in 1..Len(rest) : rest[i] = line[i + 1] /\ i + 1 \in 1..Len(line)
  OBVIOUS
<1> HIDE DEF rest
<1>2. \A i \in 2..Len(line) : i - 1 \in 1..Len(rest) /\ rest[i - 1] = line[i]
  BY <1>1
<1>3. In(line) = In(rest) \cup {line[1]}
  BY SMTT(60), <1>1, <1>2 DEF In
<1>4. Sealed(line) => /\ Sealed(rest)
                      /\ line[1].kind = "closed" => \A m \in In(rest) : m.kind \notin Seating
  BY SMTT(60), <1>1 DEF Sealed, In
<1>5. ASSUME NEW a, Refusing(line, a)
      PROVE  /\ Refusing(rest, a)
             /\ line[1].kind = "resume-error" /\ line[1].ask = a
                  => \A m \in In(rest) : m.kind \notin Seating
  BY SMTT(60), <1>1, <1>5 DEF Refusing, In
<1>6. ASSUME NEW i \in 1..Len(rest), NEW j \in ((i + 1) + 1)..Len(line)
      PROVE  j - 1 \in (i + 1)..Len(rest) /\ rest[j - 1] = line[j]
  BY <1>1, <1>2
<1>7. ASSUME NEW j \in (1 + 1)..Len(line)
      PROVE  line[j] \in In(rest)
  BY <1>1, <1>2 DEF In
<1>8. Told(line) => /\ Told(rest)
                    /\ line[1].kind \in Seating => \E m \in In(rest) : m.kind = "room"
  <2> SUFFICES ASSUME Told(line)
               PROVE  /\ Told(rest)
                      /\ line[1].kind \in Seating => \E m \in In(rest) : m.kind = "room"
    OBVIOUS
  <2>1. ASSUME NEW i \in 1..Len(rest), rest[i].kind \in Seating
        PROVE  \E j \in (i + 1)..Len(rest) : rest[j].kind = "room"
    <3>1. PICK j \in ((i + 1) + 1)..Len(line) : line[j].kind = "room"
      BY <1>1, <2>1 DEF Told
    <3> QED BY <1>6, <3>1
  <2>2. ASSUME line[1].kind \in Seating PROVE \E m \in In(rest) : m.kind = "room"
    <3>1. PICK j \in (1 + 1)..Len(line) : line[j].kind = "room"
      BY <1>1, <2>2 DEF Told
    <3> QED BY <1>7, <3>1
  <2> QED BY <2>1, <2>2 DEF Told
<1>9. ASSUME NEW a, Newest(line, a)
      PROVE  /\ Newest(rest, a)
             /\ line[1].kind = "room" /\ line[1].round # a => \E m \in In(rest) : m.kind = "room"
  <2>1. ASSUME NEW i \in 1..Len(rest), rest[i].kind = "room", rest[i].round # a
        PROVE  \E j \in (i + 1)..Len(rest) : rest[j].kind = "room"
    <3>1. PICK j \in ((i + 1) + 1)..Len(line) : line[j].kind = "room"
      BY <1>1, <1>9, <2>1 DEF Newest
    <3> QED BY <1>6, <3>1
  <2>2. ASSUME line[1].kind = "room", line[1].round # a PROVE \E m \in In(rest) : m.kind = "room"
    <3>1. PICK j \in (1 + 1)..Len(line) : line[j].kind = "room"
      BY <1>1, <1>9, <2>2 DEF Newest
    <3> QED BY <1>7, <3>1
  <2> QED BY <2>1, <2>2 DEF Newest
<1> QED BY <1>1, <1>3, <1>4, <1>5, <1>8, <1>9 DEF rest

LEMMA LineConcat ==
  ASSUME NEW T, NEW s \in Seq(T), NEW t \in Seq(T)
  PROVE  /\ s \o t \in Seq(T) /\ In(s \o t) = In(s) \cup In(t)
         /\ Sealed(s) /\ Sealed(t)
            /\ (\/ \A m \in In(s) : m.kind # "closed"
                \/ \A m \in In(t) : m.kind \notin Seating) => Sealed(s \o t)
         /\ Told(s) /\ Told(t) => Told(s \o t)
         /\ \A a : /\ Refusing(s, a) /\ Refusing(t, a)
                      /\ (\/ \A m \in In(s) : ~(m.kind = "resume-error" /\ m.ask = a)
                          \/ \A m \in In(t) : m.kind \notin Seating) => Refusing(s \o t, a)
                   /\ Newest(t, a) /\ (Newest(s, a) \/ \E m \in In(t) : m.kind = "room")
                        => Newest(s \o t, a)
<1> DEFINE all == s \o t
           n == Len(s)
<1>1. /\ all \in Seq(T) /\ n \in Nat /\ Len(t) \in Nat /\ Len(all) = n + Len(t)
      /\ \A i \in 1..n : all[i] = s[i]
      /\ \A i \in 1..Len(t) : all[n + i] = t[i] /\ n + i \in 1..Len(all)
  OBVIOUS
<1> HIDE DEF all, n
<1>2. Len(s) = n
  BY DEF n
<1>3. \A i \in 1..Len(all) : i > n => i - n \in 1..Len(t) /\ all[i] = t[i - n]
  <2> SUFFICES ASSUME NEW i \in 1..Len(all), i > n PROVE i - n \in 1..Len(t) /\ all[i] = t[i - n]
    OBVIOUS
  <2>1. i - n \in 1..Len(t) /\ n + (i - n) = i
    BY <1>1
  <2> QED BY <1>1, <2>1
<1>4. In(all) = In(s) \cup In(t)
  <2>1. ASSUME NEW i \in 1..Len(all) PROVE all[i] \in In(s) \cup In(t)
    <3>1. CASE i <= n
      BY <1>1, <1>2, <3>1 DEF In
    <3>2. CASE i > n
      BY <1>3, <3>2 DEF In
    <3> QED BY <1>1, <3>1, <3>2
  <2>2. ASSUME NEW i \in 1..n PROVE s[i] \in In(all)
    BY <1>1 DEF In
  <2>3. ASSUME NEW i \in 1..Len(t) PROVE t[i] \in In(all)
    <3>1. n + i \in 1..Len(all) /\ all[n + i] = t[i]
      BY <1>1
    <3> QED BY <3>1 DEF In
  <2> QED BY <1>2, <2>1, <2>2, <2>3 DEF In
<1>5. ASSUME Sealed(s), Sealed(t),
             \/ \A m \in In(s) : m.kind # "closed"
             \/ \A m \in In(t) : m.kind \notin Seating
      PROVE  Sealed(all)
  <2> SUFFICES ASSUME NEW i \in 1..Len(all), NEW j \in 1..Len(all), i < j, all[i].kind = "closed"
               PROVE  all[j].kind \notin Seating
    BY DEF Sealed
  <2>1. CASE j <= n
    BY <1>1, <1>2, <1>5, <2>1 DEF Sealed
  <2>2. CASE i > n
    <3>1. j > n /\ i - n < j - n
      BY <1>1, <2>2
    <3>2. /\ i - n \in 1..Len(t) /\ all[i] = t[i - n]
          /\ j - n \in 1..Len(t) /\ all[j] = t[j - n]
      BY <1>3, <2>2, <3>1
    <3> QED BY <1>5, <3>1, <3>2 DEF Sealed
  <2>3. CASE i <= n /\ j > n
    <3>1. all[i] \in In(s)
      BY <1>1, <1>2, <2>3 DEF In
    <3>2. all[j] \in In(t)
      BY <1>3, <2>3 DEF In
    <3> QED BY <1>5, <3>1, <3>2
  <2> QED BY <1>1, <2>1, <2>2, <2>3
<1>6. ASSUME NEW a, Refusing(s, a), Refusing(t, a),
             \/ \A m \in In(s) : ~(m.kind = "resume-error" /\ m.ask = a)
             \/ \A m \in In(t) : m.kind \notin Seating
      PROVE  Refusing(all, a)
  <2> SUFFICES ASSUME NEW i \in 1..Len(all), NEW j \in 1..Len(all), i < j,
                      all[i].kind = "resume-error", all[i].ask = a
               PROVE  all[j].kind \notin Seating
    BY DEF Refusing
  <2>1. CASE j <= n
    BY <1>1, <1>2, <1>6, <2>1 DEF Refusing
  <2>2. CASE i > n
    <3>1. j > n /\ i - n < j - n
      BY <1>1, <2>2
    <3>2. /\ i - n \in 1..Len(t) /\ all[i] = t[i - n]
          /\ j - n \in 1..Len(t) /\ all[j] = t[j - n]
      BY <1>3, <2>2, <3>1
    <3> QED BY <1>6, <3>1, <3>2 DEF Refusing
  <2>3. CASE i <= n /\ j > n
    <3>1. all[i] \in In(s)
      BY <1>1, <1>2, <2>3 DEF In
    <3>2. all[j] \in In(t)
      BY <1>3, <2>3 DEF In
    <3> QED BY <1>6, <3>1, <3>2
  <2> QED BY <1>1, <2>1, <2>2, <2>3
<1>7. ASSUME NEW i \in 1..n, NEW j \in (i + 1)..n PROVE j \in (i + 1)..Len(all) /\ all[j] = s[j]
  BY <1>1
<1>8. ASSUME NEW i \in 1..Len(all), i > n, NEW j \in ((i - n) + 1)..Len(t)
      PROVE  n + j \in (i + 1)..Len(all) /\ all[n + j] = t[j]
  BY <1>1, <1>8
<1>9. ASSUME NEW i \in 1..n, NEW j \in 1..Len(t)
      PROVE  n + j \in (i + 1)..Len(all) /\ all[n + j] = t[j]
  BY <1>1
<1>10. ASSUME Told(s), Told(t) PROVE Told(all)
  <2> SUFFICES ASSUME NEW i \in 1..Len(all), all[i].kind \in Seating
               PROVE  \E j \in (i + 1)..Len(all) : all[j].kind = "room"
    BY DEF Told
  <2>1. CASE i <= n
    <3>1. PICK j \in (i + 1)..n : s[j].kind = "room"
      BY <1>1, <1>2, <1>10, <2>1 DEF Told
    <3>2. i \in 1..n
      BY <1>1, <2>1
    <3> QED BY <1>7, <3>1, <3>2
  <2>2. CASE i > n
    <3>1. PICK j \in ((i - n) + 1)..Len(t) : t[j].kind = "room"
      BY <1>3, <1>10, <2>2 DEF Told
    <3> QED BY <1>8, <2>2, <3>1
  <2> QED BY <1>1, <2>1, <2>2
<1>11. ASSUME NEW a, Newest(t, a), Newest(s, a) \/ \E m \in In(t) : m.kind = "room"
       PROVE  Newest(all, a)
  <2> SUFFICES ASSUME NEW i \in 1..Len(all), all[i].kind = "room", all[i].round # a
               PROVE  \E j \in (i + 1)..Len(all) : all[j].kind = "room"
    BY DEF Newest
  <2>1. CASE i <= n
    <3>1. CASE Newest(s, a)
      <4>1. PICK j \in (i + 1)..n : s[j].kind = "room"
        BY <1>1, <1>2, <2>1, <3>1 DEF Newest
      <4>2. i \in 1..n
        BY <1>1, <2>1
      <4> QED BY <1>7, <4>1, <4>2
    <3>2. CASE \E m \in In(t) : m.kind = "room"
      <4>1. PICK j \in 1..Len(t) : t[j].kind = "room"
        BY <3>2 DEF In
      <4>2. n + j \in (i + 1)..Len(all) /\ all[n + j] = t[j]
        BY <1>1, <1>9, <2>1
      <4> QED BY <4>1, <4>2
    <3> QED BY <1>11, <3>1, <3>2
  <2>2. CASE i > n
    <3>1. PICK j \in ((i - n) + 1)..Len(t) : t[j].kind = "room"
      BY <1>3, <1>11, <2>2 DEF Newest
    <3> QED BY <1>8, <2>2, <3>1
  <2> QED BY <1>1, <2>1, <2>2
<1> QED BY <1>1, <1>4, <1>5, <1>6, <1>10, <1>11 DEF all

\* What the server says at once: a message that seats nobody, or one that does and the news.
LEMMA Utterances ==
  ASSUME NEW x \in Message, NEW y \in Message, NEW z \in Message
  PROVE  /\ <<x>> \in Seq(Message) /\ In(<<x>>) = {x}
         /\ <<x, y>> \in Seq(Message) /\ In(<<x, y>>) = {x, y}
         /\ <<x, y, z>> \in Seq(Message) /\ In(<<x, y, z>>) = {x, y, z}
         /\ x.kind \notin Seating => Sealed(<<x>>) /\ Told(<<x>>) /\ \A a : Refusing(<<x>>, a)
         /\ x.kind = "room" => Newest(<<x>>, x.round)
         /\ x.kind # "room" => \A r : Newest(<<x>>, r)
         /\ x.kind \in Seating /\ y.kind = "room"
              => /\ Sealed(<<x, y>>) /\ Told(<<x, y>>) /\ Newest(<<x, y>>, y.round)
                 /\ \A a : Refusing(<<x, y>>, a)
         /\ x.kind \in Seating /\ y.kind \in Seating /\ z.kind = "room"
              => /\ Sealed(<<x, y, z>>) /\ Told(<<x, y, z>>) /\ Newest(<<x, y, z>>, z.round)
                 /\ \A a : Refusing(<<x, y, z>>, a)
<1>1. /\ <<x>> \in Seq(Message) /\ In(<<x>>) = {x}
      /\ <<x, y>> \in Seq(Message) /\ In(<<x, y>>) = {x, y}
  BY DEF In
<1>2. <<x, y, z>> \in Seq(Message)
  OBVIOUS
<1>3. In(<<x, y, z>>) = {x, y, z}
  BY DEF In
<1>4. x.kind \notin Seating => Sealed(<<x>>) /\ Told(<<x>>) /\ \A a : Refusing(<<x>>, a)
  BY DEF Sealed, Told, Refusing
<1>5. /\ x.kind = "room" => Newest(<<x>>, x.round)
      /\ x.kind # "room" => \A r : Newest(<<x>>, r)
  BY DEF Newest
<1>6. ASSUME x.kind \in Seating, y.kind = "room"
      PROVE  /\ Sealed(<<x, y>>) /\ Told(<<x, y>>) /\ Newest(<<x, y>>, y.round)
             /\ \A a : Refusing(<<x, y>>, a)
  <2>1. Sealed(<<x, y>>) /\ \A a : Refusing(<<x, y>>, a)
    BY <1>6 DEF Sealed, Refusing, Seating
  <2>2. Told(<<x, y>>)
    BY <1>6 DEF Told, Seating
  <2>3. Newest(<<x, y>>, y.round)
    BY <1>6 DEF Newest, Seating
  <2> QED BY <2>1, <2>2, <2>3
<1>7. ASSUME x.kind \in Seating /\ y.kind \in Seating, z.kind = "room"
      PROVE  /\ Sealed(<<x, y, z>>) /\ Told(<<x, y, z>>) /\ Newest(<<x, y, z>>, z.round)
             /\ \A a : Refusing(<<x, y, z>>, a)
  <2> DEFINE t == <<x, y, z>>
  <2>0. Len(t) = 3 /\ t[1] = x /\ t[2] = y /\ t[3] = z /\ 1..Len(t) = {1, 2, 3}
    OBVIOUS
  <2> HIDE DEF t
  <2>1. Sealed(t) /\ \A a : Refusing(t, a)
    BY <1>7, <2>0 DEF Sealed, Refusing, Seating
  <2>2. Told(t)
    BY <1>7, <2>0 DEF Told, Seating
  <2>3. Newest(t, z.round)
    BY <1>7, <2>0 DEF Newest, Seating
  <2> QED BY <2>1, <2>2, <2>3 DEF t
<1> QED BY <1>1, <1>2, <1>3, <1>4, <1>5, <1>6, <1>7

\* The events of a broken connection stay in their order.
LEMMA EventsStay ==
  ASSUME down \in Seq(Message), OnlyEventsStay
  PROVE  /\ down' \in Seq(Message) /\ In(down') = {m \in In(down) : m.kind \in Events}
         /\ Sealed(down) => Sealed(down')
         /\ Told(down) => Told(down')
         /\ \A a : Refusing(down', a) /\ (Newest(down, a) => Newest(down', a))
<1>0. PICK n \in 0..Len(down) : \E at \in [1..n -> 1..Len(down)] :
         /\ \A i, j \in 1..n : i < j => at[i] < at[j]
         /\ {at[i] : i \in 1..n} = {i \in 1..Len(down) : down[i].kind \in Events}
         /\ down' = [i \in 1..n |-> down[at[i]]]
  BY DEF OnlyEventsStay
<1>1. PICK at \in [1..n -> 1..Len(down)] :
         /\ \A i, j \in 1..n : i < j => at[i] < at[j]
         /\ {at[i] : i \in 1..n} = {i \in 1..Len(down) : down[i].kind \in Events}
         /\ down' = [i \in 1..n |-> down[at[i]]]
  BY <1>0
<1>2. n \in Nat /\ \A i \in 1..n : at[i] \in 1..Len(down) /\ down[at[i]] \in Message
  BY <1>1
<1>3. down' \in Seq(Message) /\ Len(down') = n
  BY <1>1, <1>2
<1>4. \A i \in 1..n : down'[i] = down[at[i]] /\ at[i] \in 1..Len(down) /\ down[at[i]].kind \in Events
  BY <1>1, <1>2
<1>5. ASSUME NEW k \in 1..Len(down), down[k].kind \in Events
      PROVE  \E i \in 1..n : at[i] = k
  <2>1. k \in {at[i] : i \in 1..n}
    BY <1>1, <1>5
  <2> QED BY <2>1
<1>6. In(down') = {m \in In(down) : m.kind \in Events}
  <2>1. ASSUME NEW i \in 1..n PROVE down'[i] \in In(down) /\ down'[i].kind \in Events
    BY <1>4 DEF In
  <2>2. ASSUME NEW k \in 1..Len(down), down[k].kind \in Events PROVE down[k] \in In(down')
    <3>1. PICK i \in 1..n : at[i] = k
      BY <1>5, <2>2
    <3> QED BY <1>3, <1>4, <3>1 DEF In
  <2> QED BY <1>3, <2>1, <2>2 DEF In
<1>7. Sealed(down) => Sealed(down')
  BY <1>1, <1>3, <1>4 DEF Sealed
<1>8. \A i, j \in 1..n : at[i] < at[j] => i < j
  <2> SUFFICES ASSUME NEW i \in 1..n, NEW j \in 1..n, at[i] < at[j], ~(i < j) PROVE FALSE
    OBVIOUS
  <2>1. CASE i = j
    BY <1>2, <2>1
  <2>2. CASE j < i
    <3>1. at[j] < at[i]
      BY <1>1, <2>2
    <3> QED BY <1>2, <3>1
  <2> QED BY <2>1, <2>2
<1>9. ASSUME NEW i \in 1..n, NEW k \in (at[i] + 1)..Len(down), down[k].kind = "room"
      PROVE  \E j \in (i + 1)..n : down'[j].kind = "room"
  <2>1. at[i] \in 1..Len(down) /\ k \in 1..Len(down) /\ at[i] < k
    BY <1>2, <1>9
  <2>2. PICK j \in 1..n : at[j] = k
    BY <1>5, <1>9, <2>1 DEF Events
  <2>3. i < j
    BY <1>8, <2>1, <2>2
  <2>4. j \in (i + 1)..n /\ down'[j].kind = "room"
    BY <1>4, <1>9, <2>2, <2>3
  <2> QED BY <2>4
<1>10. Told(down) => Told(down')
  <2> SUFFICES ASSUME Told(down), NEW i \in 1..n, down'[i].kind \in Seating
               PROVE  \E j \in (i + 1)..n : down'[j].kind = "room"
    BY <1>3 DEF Told
  <2>1. \E k \in (at[i] + 1)..Len(down) : down[k].kind = "room"
    BY <1>4 DEF Told
  <2> QED BY <1>9, <2>1
<1>11. ASSUME NEW a PROVE Refusing(down', a) /\ (Newest(down, a) => Newest(down', a))
  <2>1. Refusing(down', a)
    BY <1>3, <1>4 DEF Refusing, Events
  <2>2. ASSUME Newest(down, a), NEW i \in 1..n, down'[i].kind = "room", down'[i].round # a
        PROVE  \E j \in (i + 1)..n : down'[j].kind = "room"
    <3>1. \E k \in (at[i] + 1)..Len(down) : down[k].kind = "room"
      BY <1>4, <2>2 DEF Newest
    <3> QED BY <1>9, <3>1
  <2> QED BY <1>3, <2>1, <2>2 DEF Newest
<1> QED BY <1>3, <1>6, <1>7, <1>10, <1>11

-----------------------------------------------------------------------------
(* What each step does, field by field.                                    *)

\* The types of the variables, and the seats that messages speak of.
Types ==
  /\ TypeOK
  /\ \A m \in In(down) : m.seat <= made /\ (m.kind \in Seating => m.seat \in 1..made)
  /\ \A m \in In(up) : m.device # 0 /\ m.seat <= made /\ (m.kind \in {"resume", "profile"} => m.seat # 0)
  /\ recoverable => conn # 0

Fixed == UNCHANGED <<conn, losses, timeouts, alive, roomVars, who>>

\* joinRoom.
LEMMA JoinDoes ==
  ASSUME Types, Join
  PROVE  /\ linked /\ phone.connected /\ phone.player = 0 /\ phone.stored = 0
         /\ phone' \in Phone /\ phone'.device \in 1..devices' /\ devices' \in Nat
         /\ phone.device # 0 => phone'.device = phone.device
         /\ ~phone'.ended /\ ~phone'.leaving
         /\ UNCHANGED <<phone.stored, phone.resuming, phone.retry, phone.awaiting, phone.connected,
                        phone.player, phone.shown>>
         /\ \E m \in Question : /\ m.kind = "join" /\ m.seat = 0 /\ m.device = phone'.device
                                /\ m.ask = phone.awaiting /\ up' = Append(up, m)
         /\ Fixed /\ UNCHANGED <<linked, refused, recoverable, down>>
<1> DEFINE asking == [phone EXCEPT !.ended = FALSE, !.leaving = FALSE]
           m == Request("join", asking)
<1>1. /\ phone \in Phone /\ phone.device \in Nat /\ devices \in Nat /\ phone.device <= devices
  BY DEF Types, TypeOK, Phone
<1>2. /\ linked /\ phone.connected /\ phone.player = 0 /\ phone.stored = 0
      /\ up' = Append(up, m) /\ phone' = [asking EXCEPT !.device = DeviceOf(phone)]
      /\ devices' = IF phone.device = 0 THEN devices + 1 ELSE devices
      /\ Fixed /\ UNCHANGED <<linked, refused, recoverable, down>>
  BY DEF Join, Ask, Fixed
<1>3. DeviceOf(phone) \in 1..devices' /\ devices' \in Nat
      /\ (phone.device # 0 => DeviceOf(phone) = phone.device)
  BY <1>1, <1>2 DEF DeviceOf
<1>4. asking \in Phone /\ asking.device = phone.device /\ ~asking.ended /\ ~asking.leaving
      /\ asking.stored = phone.stored /\ asking.resuming = phone.resuming
      /\ asking.retry = phone.retry /\ asking.awaiting = phone.awaiting
      /\ asking.connected = phone.connected /\ asking.player = phone.player
      /\ asking.shown = phone.shown
  BY <1>1 DEF Phone
<1> HIDE DEF asking
<1>5. /\ phone' \in Phone /\ phone'.device = DeviceOf(phone)
      /\ ~phone'.ended /\ ~phone'.leaving
      /\ UNCHANGED <<phone.stored, phone.resuming, phone.retry, phone.awaiting, phone.connected,
                     phone.player, phone.shown>>
  <2>1. DeviceOf(phone) \in Nat
    BY <1>3
  <2>2. phone' \in Phone /\ phone'.device = DeviceOf(phone)
    BY <1>2, <1>4, <2>1 DEF Phone
  <2>3. /\ phone'.ended = asking.ended /\ phone'.leaving = asking.leaving
        /\ phone'.stored = asking.stored /\ phone'.resuming = asking.resuming
        /\ phone'.retry = asking.retry /\ phone'.awaiting = asking.awaiting
        /\ phone'.connected = asking.connected /\ phone'.player = asking.player
        /\ phone'.shown = asking.shown
    BY <1>2, <1>4 DEF Phone
  <2> QED BY <1>4, <2>2, <2>3
<1>6. /\ m \in Question /\ m.kind = "join" /\ m.seat = 0 /\ m.device = DeviceOf(phone)
      /\ m.ask = phone.awaiting
  BY <1>1, <1>2, <1>3, <1>4 DEF Request, DeviceOf, Question, Phone
<1> HIDE DEF m
<1> QED BY <1>2, <1>3, <1>5, <1>6

\* leaveRoom.
LEMMA LeaveDoes ==
  ASSUME Types, Leave
  PROVE  /\ linked /\ phone.connected /\ phone.player # 0
         /\ phone' \in Phone /\ phone'.leaving
         /\ UNCHANGED <<phone.stored, phone.device, phone.ended, phone.resuming, phone.retry,
                        phone.awaiting, phone.connected, phone.player, phone.shown>>
         /\ \E m \in Question : /\ m.kind = "leave" /\ m.seat = phone.stored
                                /\ m.device = DeviceOf(phone)
                                /\ m.ask = phone.awaiting /\ up' = Append(up, m)
         /\ Fixed /\ UNCHANGED <<linked, devices, refused, recoverable, down>>
<1> DEFINE m == Request("leave", phone)
<1>1. phone \in Phone /\ devices \in Nat
  BY DEF Types, TypeOK
<1>2. /\ linked /\ phone.connected /\ phone.player # 0 /\ up' = Append(up, m)
      /\ phone' = [phone EXCEPT !.leaving = TRUE]
      /\ Fixed /\ UNCHANGED <<linked, devices, refused, recoverable, down>>
  BY DEF Leave, Ask, Fixed
<1>3. /\ phone' \in Phone /\ phone'.leaving
      /\ UNCHANGED <<phone.stored, phone.device, phone.ended, phone.resuming, phone.retry,
                     phone.awaiting, phone.connected, phone.player, phone.shown>>
  BY <1>1, <1>2 DEF Phone
<1>4. /\ m \in Question /\ m.kind = "leave" /\ m.seat = phone.stored /\ m.device = DeviceOf(phone)
      /\ m.ask = phone.awaiting
  BY <1>1 DEF Request, DeviceOf, Question, Phone
<1> HIDE DEF m
<1> QED BY <1>2, <1>3, <1>4

\* setProfile.
LEMMA SetProfileDoes ==
  ASSUME Types, SetProfile
  PROVE  /\ linked /\ phone.connected /\ phone.player # 0 /\ phone' = phone
         /\ \E m \in Question : /\ m.kind = "profile" /\ m.seat = phone.stored
                                /\ m.device = DeviceOf(phone)
                                /\ m.ask = phone.awaiting /\ up' = Append(up, m)
         /\ Fixed /\ UNCHANGED <<linked, devices, refused, recoverable, down>>
<1> DEFINE m == Request("profile", phone)
<1>1. phone \in Phone /\ devices \in Nat
  BY DEF Types, TypeOK
<1>2. /\ linked /\ phone.connected /\ phone.player # 0 /\ up' = Append(up, m) /\ phone' = phone
      /\ Fixed /\ UNCHANGED <<linked, devices, refused, recoverable, down>>
  BY DEF SetProfile, Ask, Fixed, client
<1>3. /\ m \in Question /\ m.kind = "profile" /\ m.seat = phone.stored /\ m.device = DeviceOf(phone)
      /\ m.ask = phone.awaiting
  BY <1>1 DEF Request, DeviceOf, Question, Phone
<1> HIDE DEF m
<1> QED BY <1>2, <1>3

\* A session that is over: nothing of it is stored, and the device is another one.
Over(p) == p.ended /\ ~p.leaving /\ ~p.resuming /\ ~p.retry /\ p.stored = 0 /\ p.player = 0

LEMMA EndDoes ==
  ASSUME Types, EndSession
  PROVE  /\ phone' \in Phone /\ Over(phone') /\ phone'.device = devices + 1
         /\ phone'.awaiting = 0 /\ ~phone'.connected
         /\ devices' = devices + 1 /\ ~linked' /\ ~recoverable' /\ down' = <<>>
         /\ linked' \in BOOLEAN /\ recoverable' \in BOOLEAN
<1>1. phone \in Phone /\ devices \in Nat
  BY DEF Types, TypeOK
<1>2. /\ Cleared(phone) \in Phone /\ Over(Cleared(phone)) /\ Cleared(phone).device = devices + 1
  <2>1. devices + 1 \in Nat
    BY <1>1
  <2>2. Cleared(phone) \in Phone /\ Cleared(phone).device = devices + 1
    BY <1>1, <2>1 DEF Cleared, Phone
  <2>3. Over(Cleared(phone))
    BY <1>1 DEF Cleared, Phone, Over
  <2> QED BY <2>2, <2>3
<1>3. /\ Disconnected(Cleared(phone)) \in Phone /\ Over(Disconnected(Cleared(phone)))
      /\ Disconnected(Cleared(phone)).device = devices + 1
      /\ Disconnected(Cleared(phone)).awaiting = 0 /\ ~Disconnected(Cleared(phone)).connected
  BY <1>2 DEF Disconnected, Phone, Over
<1> QED BY <1>3 DEF EndSession

\* connect.
LEMMA ConnectDoes ==
  ASSUME Types, Connect
  PROVE  /\ ~linked /\ linked' /\ ~recoverable' /\ ~refused' /\ conn' \in alive'
         /\ linked' \in BOOLEAN /\ recoverable' \in BOOLEAN /\ refused' \in BOOLEAN
         /\ alive' = alive \cup {conn'}
         /\ \/ recoverable /\ conn \notin alive /\ conn' = conn /\ who' = who /\ down' = down
            \/ conn' = conn + 1 /\ who' = 0 /\ down' = <<>>
         /\ phone' \in Phone /\ (phone'.connected <=> phone.stored = 0)
         /\ UNCHANGED <<phone.stored, phone.device, phone.ended, phone.leaving, phone.player, phone.shown>>
         /\ IF phone.stored # 0 /\ ~phone.ended /\ ~phone.leaving
            THEN /\ phone'.resuming /\ ~phone'.retry /\ phone'.awaiting = losses + timeouts + 1
                 /\ \E m \in Question : /\ m.kind = "resume" /\ m.seat = phone.stored
                                        /\ m.device = DeviceOf(phone)
                                        /\ m.ask = phone'.awaiting /\ up' = <<m>>
            ELSE UNCHANGED <<phone.resuming, phone.retry, phone.awaiting>> /\ up' = <<>>
         /\ UNCHANGED <<devices, losses, timeouts, roomVars>>
<1> DEFINE fresh == [phone EXCEPT !.connected = phone.stored = 0]
           again == Resuming(fresh, losses + timeouts + 1)
           m == Request("resume", again)
           resumes == phone.stored # 0 /\ ~phone.ended /\ ~phone.leaving
<1>1. phone \in Phone /\ devices \in Nat /\ losses + timeouts + 1 \in Nat
  BY SMTT(60) DEF Types, TypeOK
<1>2. /\ ~linked /\ linked' = TRUE /\ recoverable' = FALSE /\ refused' = FALSE
      /\ alive' = alive \cup {conn'}
      /\ \/ recoverable /\ conn \notin alive /\ conn' = conn /\ who' = who /\ down' = down
         \/ conn' = conn + 1 /\ who' = 0 /\ down' = <<>>
      /\ phone' = IF resumes THEN again ELSE fresh
      /\ up' = IF resumes THEN <<Request("resume", phone')>> ELSE <<>>
      /\ UNCHANGED <<devices, losses, timeouts, roomVars>>
  BY DEF Connect
<1>3. /\ fresh \in Phone /\ (fresh.connected <=> phone.stored = 0)
      /\ fresh.stored = phone.stored /\ fresh.device = phone.device /\ fresh.ended = phone.ended
      /\ fresh.leaving = phone.leaving /\ fresh.player = phone.player /\ fresh.shown = phone.shown
      /\ fresh.resuming = phone.resuming /\ fresh.retry = phone.retry
      /\ fresh.awaiting = phone.awaiting
  <2>1. (phone.stored = 0) \in BOOLEAN
    OBVIOUS
  <2> QED BY <1>1, <2>1 DEF Phone
<1> HIDE DEF fresh
<1>4. /\ again \in Phone /\ again.connected = fresh.connected
      /\ again.stored = phone.stored /\ again.device = phone.device /\ ~again.ended
      /\ ~again.leaving /\ again.player = phone.player /\ again.shown = phone.shown
      /\ again.resuming /\ ~again.retry /\ again.awaiting = losses + timeouts + 1
  BY <1>1, <1>3 DEF Resuming, Phone
<1>5. phone.ended \in BOOLEAN /\ phone.leaving \in BOOLEAN
  BY <1>1 DEF Phone
<1> HIDE DEF again
<1>6. /\ m \in Question /\ m.kind = "resume" /\ m.seat = phone.stored
      /\ m.device = DeviceOf(phone) /\ m.ask = again.awaiting
  BY <1>1, <1>4 DEF Request, DeviceOf, Question, Phone
<1> HIDE DEF m
<1>7. CASE resumes
  <2>1. phone' = again /\ up' = <<m>>
    BY <1>2, <1>7 DEF m
  <2>2. \E q \in Question : /\ q.kind = "resume" /\ q.seat = phone.stored
                            /\ q.device = DeviceOf(phone)
                            /\ q.ask = phone'.awaiting /\ up' = <<q>>
    BY <1>6, <2>1
  <2>3. /\ phone' \in Phone /\ (phone'.connected <=> phone.stored = 0)
        /\ UNCHANGED <<phone.stored, phone.device, phone.ended, phone.leaving, phone.player, phone.shown>>
        /\ phone'.resuming /\ ~phone'.retry /\ phone'.awaiting = losses + timeouts + 1
    BY <1>1, <1>3, <1>4, <1>5, <1>7, <2>1 DEF Phone
  <2> QED BY <1>2, <1>7, <2>2, <2>3
<1>8. CASE ~resumes
  <2>1. phone' = fresh /\ up' = <<>>
    BY <1>2, <1>8
  <2> QED BY <1>2, <1>3, <1>8, <2>1
<1> QED BY <1>7, <1>8

\* The eight seconds.
LEMMA TimesOutDoes ==
  ASSUME Types, ResumeTimesOut
  PROVE  /\ linked /\ phone.awaiting # 0 /\ timeouts' = timeouts + 1
         /\ phone' \in Phone /\ phone'.awaiting = 0
         /\ UNCHANGED <<phone.stored, phone.device, phone.ended, phone.leaving, phone.player,
                        phone.shown>>
         /\ IF Ignoring THEN UNCHANGED <<phone.resuming, phone.retry, phone.connected>>
            ELSE ~phone'.resuming /\ phone'.retry /\ ~phone'.connected
         /\ UNCHANGED <<conn, losses, alive, roomVars, who, linked, devices, refused, recoverable,
                        up, down>>
<1>1. phone \in Phone
  BY DEF Types, TypeOK
<1>2. /\ linked /\ phone.awaiting # 0 /\ timeouts' = timeouts + 1
      /\ UNCHANGED <<conn, losses, alive, roomVars, who, linked, devices, refused, recoverable,
                     up, down>>
      /\ phone' = IF Ignoring THEN [phone EXCEPT !.awaiting = 0]
                  ELSE [phone EXCEPT !.awaiting = 0, !.resuming = FALSE, !.connected = FALSE, !.retry = TRUE]
  BY DEF ResumeTimesOut, Ignoring
<1>3. CASE Ignoring
  BY <1>1, <1>2, <1>3 DEF Phone
<1>4. CASE ~Ignoring
  <2>1. phone' \in Phone
    BY <1>1, <1>2, <1>4 DEF Phone
  <2> QED BY <1>1, <1>2, <1>4, <2>1 DEF Phone
<1> QED BY <1>3, <1>4

\* The two seconds.
LEMMA RetryDoes ==
  ASSUME Types, Retry
  PROVE  /\ phone.retry /\ phone' \in Phone /\ ~phone'.retry
         /\ UNCHANGED <<phone.stored, phone.device, phone.connected, phone.player, phone.shown>>
         /\ IF phone.resuming \/ phone.leaving \/ phone.stored = 0
            THEN /\ up' = up
                 /\ UNCHANGED <<phone.ended, phone.leaving, phone.resuming, phone.awaiting>>
            ELSE /\ ~phone'.ended /\ ~phone'.leaving /\ phone'.resuming
                 /\ phone'.awaiting = losses + timeouts + 1
                 /\ \E m \in Question : /\ m.kind = "resume" /\ m.seat = phone.stored
                                        /\ m.device = DeviceOf(phone)
                                        /\ m.ask = phone'.awaiting /\ up' = Append(up, m)
         /\ Fixed /\ UNCHANGED <<linked, devices, refused, recoverable, down>>
<1> DEFINE again == Resuming(phone, losses + timeouts + 1)
           m == Request("resume", again)
           idle == phone.resuming \/ phone.leaving \/ phone.stored = 0
<1>1. phone \in Phone /\ devices \in Nat /\ losses + timeouts + 1 \in Nat
  BY SMTT(60) DEF Types, TypeOK
<1>2. /\ phone.retry
      /\ phone' = IF idle THEN [phone EXCEPT !.retry = FALSE] ELSE again
      /\ up' = IF idle THEN up ELSE Append(up, Request("resume", phone'))
      /\ Fixed /\ UNCHANGED <<linked, devices, refused, recoverable, down>>
  BY DEF Retry, Ask, Fixed
<1>3. /\ again \in Phone /\ again.connected = phone.connected
      /\ again.stored = phone.stored /\ again.device = phone.device /\ ~again.ended
      /\ ~again.leaving /\ again.player = phone.player /\ again.shown = phone.shown
      /\ again.resuming /\ ~again.retry /\ again.awaiting = losses + timeouts + 1
  BY <1>1 DEF Resuming, Phone
<1> HIDE DEF again
<1>4. /\ m \in Question /\ m.kind = "resume" /\ m.seat = phone.stored
      /\ m.device = DeviceOf(phone) /\ m.ask = again.awaiting
  BY <1>1, <1>3 DEF Request, DeviceOf, Question, Phone
<1> HIDE DEF m
<1>5. CASE ~idle
  <2>1. phone' = again /\ up' = Append(up, m)
    BY <1>2, <1>5 DEF m
  <2>2. \E q \in Question : /\ q.kind = "resume" /\ q.seat = phone.stored
                            /\ q.device = DeviceOf(phone)
                            /\ q.ask = phone'.awaiting /\ up' = Append(up, q)
    BY <1>4, <2>1
  <2>3. /\ phone' \in Phone /\ ~phone'.retry
        /\ UNCHANGED <<phone.stored, phone.device, phone.connected, phone.player, phone.shown>>
        /\ ~phone'.ended /\ ~phone'.leaving /\ phone'.resuming
        /\ phone'.awaiting = losses + timeouts + 1
    BY <1>3, <2>1
  <2> QED BY <1>2, <1>5, <2>2, <2>3
<1>6. CASE idle
  <2>1. phone' = [phone EXCEPT !.retry = FALSE] /\ up' = up
    BY <1>2, <1>6
  <2>2. /\ phone' \in Phone /\ ~phone'.retry
        /\ UNCHANGED <<phone.stored, phone.device, phone.connected, phone.player, phone.shown>>
        /\ UNCHANGED <<phone.ended, phone.leaving, phone.resuming, phone.awaiting>>
    BY <1>1, <2>1 DEF Phone
  <2> QED BY <1>2, <1>6, <2>1, <2>2
<1> QED BY <1>5, <1>6

\* The connection breaks.
LEMMA LoseDoes ==
  ASSUME Types, NEW reload \in BOOLEAN, LoseConnection(reload)
  PROVE  /\ linked /\ ~linked' /\ losses' = losses + 1 /\ linked' \in BOOLEAN
         /\ recoverable' \in BOOLEAN /\ (recoverable' => ~reload /\ conn \in alive)
         /\ OnlyEventsStay
         /\ phone' \in Phone /\ phone'.awaiting = 0 /\ ~phone'.retry /\ ~phone'.connected
         /\ ~phone'.resuming
         /\ UNCHANGED <<phone.stored, phone.device>>
         /\ IF reload
            THEN ~phone'.ended /\ ~phone'.leaving /\ phone'.player = 0
            ELSE UNCHANGED <<phone.ended, phone.leaving, phone.player>>
         /\ UNCHANGED <<conn, timeouts, alive, up, roomVars, who, devices, refused>>
<1>1. phone \in Phone
  BY DEF Types, TypeOK
<1>2. /\ linked /\ losses' = losses + 1 /\ linked' = FALSE
      /\ recoverable' = (~reload /\ conn \in alive)
      /\ OnlyEventsStay
      /\ phone' = IF reload THEN NewPhone(phone.stored, phone.device) ELSE Disconnected(phone)
      /\ UNCHANGED <<conn, timeouts, alive, up, roomVars, who, devices, refused>>
  BY DEF LoseConnection
<1>3. CASE reload
  <2>1. phone' = NewPhone(phone.stored, phone.device)
    BY <1>2, <1>3
  <2>2. phone.stored \in Nat /\ phone.device \in Nat
    BY <1>1 DEF Phone
  <2>3. phone' \in Phone
    BY <2>1, <2>2 DEF Phone, NewPhone
  <2>4. /\ phone'.awaiting = 0 /\ ~phone'.retry /\ ~phone'.connected /\ ~phone'.resuming
        /\ UNCHANGED <<phone.stored, phone.device>>
        /\ ~phone'.ended /\ ~phone'.leaving /\ phone'.player = 0
    BY <2>1 DEF NewPhone
  <2> QED BY <1>2, <1>3, <2>3, <2>4
<1>4. CASE ~reload
  <2>1. phone' = Disconnected(phone)
    BY <1>2, <1>4
  <2>2. phone' \in Phone
    BY <1>1, <2>1 DEF Phone, Disconnected
  <2>3. /\ phone'.awaiting = 0 /\ ~phone'.retry /\ ~phone'.connected /\ ~phone'.resuming
        /\ UNCHANGED <<phone.stored, phone.device, phone.ended, phone.leaving, phone.player>>
    BY <1>1, <2>1 DEF Phone, Disconnected
  <2> QED BY <1>2, <1>4, <2>2, <2>3
<1> QED BY <1>3, <1>4

\* What the phone becomes by a message that seats it.
SeatedBy(m) ==
  /\ phone'.stored = m.seat /\ phone'.player = m.seat /\ phone'.shown = m.round
  /\ UNCHANGED <<phone.device, phone.ended, phone.leaving, phone.retry>>

\* What the phone makes of a message.
Reaction(m) ==
  \/ /\ m.kind \in {"left", "terminated"}
     /\ Over(phone') /\ phone'.device = devices + 1 /\ phone'.awaiting = 0 /\ ~phone'.connected
     /\ devices' = devices + 1 /\ ~linked' /\ ~recoverable' /\ down' = <<>>
  \/ /\ m.kind = "closed"
     /\ Over(phone') /\ phone'.device = devices + 1
     /\ UNCHANGED <<phone.awaiting, phone.connected, phone.shown>>
     /\ devices' = devices + 1
  \/ /\ m.kind \in {"room", "resumed"} /\ Ignoring /\ phone' = phone
     /\ devices' = devices
  \/ /\ m.kind = "room" /\ ~Ignoring /\ devices' = devices
     /\ phone'.shown = m.round /\ phone'.player = IF phone.player = 0 THEN phone.stored ELSE phone.player
     /\ UNCHANGED <<phone.stored, phone.device, phone.ended, phone.leaving, phone.retry,
                    phone.awaiting, phone.resuming, phone.connected>>
  \/ /\ m.kind = "joined" \/ (m.kind = "resumed" /\ ~Ignoring)
     /\ SeatedBy(m) /\ phone'.connected /\ UNCHANGED <<phone.awaiting, phone.resuming>>
     /\ devices' = devices
  \/ /\ m.kind = "profile-ok" /\ SeatedBy(m) /\ devices' = devices
     /\ UNCHANGED <<phone.awaiting, phone.resuming, phone.connected>>
  \/ /\ m.kind \in {"resume-ok", "resume-error"} /\ m.ask # phone.awaiting /\ phone' = phone
     /\ devices' = devices
  \/ /\ m.kind \in {"resume-ok", "resume-error"} /\ m.ask = phone.awaiting /\ Ignoring
     /\ phone'.awaiting = 0 /\ devices' = devices
     /\ UNCHANGED <<phone.stored, phone.device, phone.ended, phone.leaving, phone.retry,
                    phone.resuming, phone.connected, phone.player, phone.shown>>
  \/ /\ m.kind = "resume-ok" /\ m.ask = phone.awaiting /\ ~Ignoring
     /\ SeatedBy(m) /\ phone'.connected /\ phone'.awaiting = 0 /\ ~phone'.resuming
     /\ devices' = devices
  \/ /\ m.kind = "resume-error" /\ m.ask = phone.awaiting /\ ~Ignoring
     /\ phone'.ended /\ phone'.stored = 0 /\ phone'.device = 0 /\ phone'.player = 0
     /\ phone'.connected /\ phone'.awaiting = 0 /\ ~phone'.resuming
     /\ UNCHANGED <<phone.leaving, phone.retry, phone.shown>>
     /\ devices' = devices
  \/ /\ m.kind = "leave-error" /\ ~phone'.leaving /\ devices' = devices
     /\ UNCHANGED <<phone.stored, phone.device, phone.ended, phone.retry, phone.awaiting,
                    phone.resuming, phone.connected, phone.player, phone.shown>>
  \/ /\ m.kind = "error" /\ phone' = phone /\ devices' = devices

LEMMA SeatedDoes ==
  ASSUME NEW p \in Phone, NEW m \in Message
  PROVE  /\ Seated(p, m) \in Phone /\ Seated(p, m).connected
         /\ Seated(p, m).stored = m.seat /\ Seated(p, m).player = m.seat /\ Seated(p, m).shown = m.round
         /\ Seated(p, m).device = p.device /\ Seated(p, m).ended = p.ended
         /\ Seated(p, m).leaving = p.leaving /\ Seated(p, m).retry = p.retry
         /\ Seated(p, m).awaiting = p.awaiting /\ Seated(p, m).resuming = p.resuming
<1>1. m.seat \in Nat /\ m.round \in Nat
  BY DEF Message
<1>2. Seated(p, m) \in Phone
  BY <1>1 DEF Seated, Phone
<1> QED BY <1>2 DEF Seated, Phone

LEMMA ReceiveDoes ==
  ASSUME Types, Receive
  PROVE  /\ linked /\ down # <<>> /\ Head(down) \in Message
         /\ phone' \in Phone /\ Reaction(Head(down))
         /\ refused' = (refused \/ Head(down).kind = "leave-error")
         /\ Head(down).kind \notin {"left", "terminated"}
              => down' = Tail(down) /\ UNCHANGED <<linked, recoverable>>
         /\ linked' \in BOOLEAN /\ recoverable' \in BOOLEAN
         /\ Fixed /\ UNCHANGED up
<1> DEFINE m == Head(down)
<1>1. /\ phone \in Phone /\ devices \in Nat /\ down \in Seq(Message)
      /\ linked \in BOOLEAN /\ recoverable \in BOOLEAN
  BY DEF Types, TypeOK, Message
<1>2. /\ linked /\ down # <<>> /\ m \in Message
      /\ refused' = (refused \/ m.kind = "leave-error") /\ Fixed /\ UNCHANGED up
  BY <1>1 DEF Receive, Fixed
<1>3. /\ m.kind \in Events \cup Acks /\ m.seat \in Nat /\ m.round \in Nat /\ m.ask \in Nat
  BY <1>2 DEF Message
<1>4. CASE m.kind \in {"left", "terminated"}
  <2>1. EndSession
    BY <1>4 DEF Receive
  <2> HIDE DEF m
  <2> QED BY <1>2, <1>4, <2>1, EndDoes DEF Reaction, m
<1>5. CASE m.kind = "closed"
  <2>1. /\ phone' = Cleared(phone) /\ devices' = devices + 1 /\ down' = Tail(down)
        /\ UNCHANGED <<linked, recoverable>>
    BY <1>5 DEF Receive, ReceivedClosed
  <2>2. phone' \in Phone
    <3>1. devices + 1 \in Nat
      BY <1>1
    <3> QED BY <1>1, <2>1, <3>1 DEF Cleared, Phone
  <2>3. /\ Over(phone') /\ phone'.device = devices + 1
        /\ UNCHANGED <<phone.awaiting, phone.connected, phone.shown>>
    BY <1>1, <2>1 DEF Cleared, Phone, Over
  <2> QED BY <1>1, <1>2, <1>5, <2>1, <2>2, <2>3 DEF Reaction
<1>6. CASE m.kind \notin {"left", "terminated", "closed"}
  <2>1. Keep(m) /\ down' = Tail(down) /\ UNCHANGED <<linked, recoverable, devices>>
    BY <1>6 DEF Receive
  <2> HIDE DEF m
  <2>2. CASE m.kind = "room"
    <3>1. phone' = IF Ignoring THEN phone
           ELSE [phone EXCEPT !.shown = m.round,
                              !.player = IF @ = 0 THEN phone.stored ELSE @]
      BY <2>1, <2>2 DEF Keep, ReceivedRoom
    <3>2. phone' \in Phone
      BY <1>1, <1>3, <3>1 DEF Phone
    <3>3. Reaction(m)
      BY <1>1, <2>1, <2>2, <3>1 DEF Reaction, Phone
    <3> QED BY <1>1, <1>2, <2>1, <3>2, <3>3 DEF m
  <2>3. CASE m.kind = "joined"
    <3>1. phone' = Seated(phone, m)
      BY <2>1, <2>3 DEF Keep, ReceivedJoined
    <3> QED BY <1>1, <1>2, <2>1, <2>3, <3>1, SeatedDoes DEF Reaction, SeatedBy, m
  <2>4. CASE m.kind = "resumed"
    <3>1. phone' = IF Ignoring THEN phone ELSE Seated(phone, m)
      BY <2>1, <2>4 DEF Keep, ReceivedResumed
    <3> QED BY <1>1, <1>2, <2>1, <2>4, <3>1, SeatedDoes DEF Reaction, SeatedBy, m
  <2>5. CASE m.kind = "profile-ok"
    <3>1. phone' = [phone EXCEPT !.stored = m.seat, !.player = m.seat, !.shown = m.round]
      BY <2>1, <2>5 DEF Keep, ReceivedProfile
    <3>2. phone' \in Phone
      BY <1>1, <1>3, <3>1 DEF Phone
    <3>3. SeatedBy(m) /\ UNCHANGED <<phone.awaiting, phone.resuming, phone.connected>>
      BY <1>1, <3>1 DEF SeatedBy, Phone
    <3> QED BY <1>1, <1>2, <2>1, <2>5, <3>2, <3>3 DEF Reaction, m
  <2>6. CASE m.kind = "leave-error"
    <3>1. phone' = [phone EXCEPT !.leaving = FALSE]
      BY <2>1, <2>6 DEF Keep, ReceivedLeaveError
    <3>2. phone' \in Phone
      BY <1>1, <3>1 DEF Phone
    <3>3. Reaction(m)
      BY <1>1, <2>1, <2>6, <3>1 DEF Reaction, Phone
    <3> QED BY <1>1, <1>2, <2>1, <3>2, <3>3 DEF m
  <2>7. CASE m.kind = "error"
    <3>1. phone' = phone
      BY <2>1, <2>7 DEF Keep
    <3> QED BY <1>1, <1>2, <2>1, <2>7, <3>1 DEF Reaction, m
  <2>8. CASE m.kind \in {"resume-ok", "resume-error"}
    <3>0. ReceivedResumeAck(m)
      BY <2>1, <2>8 DEF Keep
    <3>1. CASE m.ask # phone.awaiting
      <4>1. phone' = phone
        BY <3>0, <3>1 DEF ReceivedResumeAck
      <4> QED BY <1>1, <1>2, <2>1, <2>8, <3>1, <4>1 DEF Reaction, m
    <3>2. CASE m.ask = phone.awaiting /\ Ignoring
      <4>1. phone' = [phone EXCEPT !.awaiting = 0]
        BY <3>0, <3>2 DEF ReceivedResumeAck
      <4>2. phone' \in Phone
        BY <1>1, <4>1 DEF Phone
      <4>3. Reaction(m)
        BY <1>1, <2>1, <2>8, <3>2, <4>1 DEF Reaction, Phone
      <4> QED BY <1>1, <1>2, <2>1, <4>2, <4>3 DEF m
    <3>3. CASE m.ask = phone.awaiting /\ ~Ignoring /\ m.kind = "resume-ok"
      <4> DEFINE p == Seated(phone, m)
      <4>1. phone' = [p EXCEPT !.awaiting = 0, !.resuming = FALSE]
        BY <3>0, <3>3 DEF ReceivedResumeAck
      <4>2. /\ p \in Phone /\ p.connected
            /\ p.stored = m.seat /\ p.player = m.seat /\ p.shown = m.round
            /\ p.device = phone.device /\ p.ended = phone.ended
            /\ p.leaving = phone.leaving /\ p.retry = phone.retry
        BY <1>1, <1>2, SeatedDoes DEF m
      <4> HIDE DEF p
      <4>3. phone' \in Phone
        BY <4>1, <4>2 DEF Phone
      <4>4. /\ SeatedBy(m) /\ phone'.connected /\ phone'.awaiting = 0 /\ ~phone'.resuming
        BY <4>1, <4>2 DEF Phone, SeatedBy
      <4> QED BY <1>1, <1>2, <2>1, <3>3, <4>3, <4>4 DEF Reaction, m
    <3>4. CASE m.ask = phone.awaiting /\ ~Ignoring /\ m.kind = "resume-error"
      <4>1. phone' = [phone EXCEPT !.awaiting = 0, !.resuming = FALSE, !.ended = TRUE, !.stored = 0,
                                   !.device = 0, !.player = 0, !.connected = TRUE]
        BY <3>0, <3>4 DEF ReceivedResumeAck
      <4>2. phone' \in Phone
        BY <1>1, <4>1 DEF Phone
      <4>3. /\ phone'.ended /\ phone'.stored = 0 /\ phone'.device = 0 /\ phone'.player = 0
            /\ phone'.connected /\ phone'.awaiting = 0 /\ ~phone'.resuming
            /\ UNCHANGED <<phone.leaving, phone.retry, phone.shown>>
        BY <1>1, <4>1 DEF Phone
      <4> QED BY <1>1, <1>2, <2>1, <3>4, <4>2, <4>3 DEF Reaction, m
    <3> QED BY <2>8, <3>1, <3>2, <3>3, <3>4
  <2> QED BY <1>3, <1>6, <2>2, <2>3, <2>4, <2>5, <2>6, <2>7, <2>8 DEF Events, Acks
<1> QED BY <1>4, <1>5, <1>6

\* What the phone has still to hear when the server has spoken.
Hears(answers, events) ==
  /\ down' \in Seq(Message)
  /\ In(down') = In(down) \cup (IF linked THEN answers \cup events
                                ELSE IF recoverable THEN events ELSE {})
  /\ Told(down) => Told(down')
  /\ Sealed(down) /\ (\/ \A m \in In(down) : m.kind # "closed"
                      \/ \A m \in answers \cup events : m.kind \notin Seating)
       => Sealed(down')
  /\ \A a : Refusing(down, a)
            /\ (\/ \A m \in In(down) : ~(m.kind = "resume-error" /\ m.ask = a)
                \/ \A m \in answers \cup events : m.kind \notin Seating)
              => Refusing(down', a)
  /\ \A r : Newest(down, r) /\ (\A m \in events : m.kind = "room" => m.round = r)
              => Newest(down', r)
  /\ linked \/ recoverable
       => \A r : (\E m \in events : m.kind = "room" /\ m.round = r) => Newest(down', r)

\* The ways in which the server speaks.
Speech(answer, events, r) ==
  /\ answer \in Seq(Message) /\ events \in Seq(Message)
  /\ LET all == answer \o events
     IN /\ Sealed(all) /\ Told(all) /\ Newest(all, r) /\ \A a : Refusing(all, a)
        /\ In(all) = In(answer) \cup In(events)
        /\ (\A m \in In(events) : m.kind # "room") => \A q : Newest(all, q)
  /\ Sealed(events) /\ Told(events) /\ Newest(events, r) /\ \A a : Refusing(events, a)
  /\ (\A m \in In(events) : m.kind # "room") => \A q : Newest(events, q)
  /\ \A m \in In(events) : m.kind = "room" => m.round = r

LEMMA TellDoes ==
  ASSUME down \in Seq(Message), NEW answer, NEW events, NEW r, Speech(answer, events, r),
         Tell(answer, events)
  PROVE  Hears(In(answer), In(events))
<1> DEFINE all == answer \o events
<1>1. /\ answer \in Seq(Message) /\ events \in Seq(Message) /\ all \in Seq(Message)
      /\ In(all) = In(answer) \cup In(events)
      /\ Sealed(all) /\ Told(all) /\ Newest(all, r) /\ \A a : Refusing(all, a)
      /\ Sealed(events) /\ Told(events) /\ Newest(events, r) /\ \A a : Refusing(events, a)
      /\ (\A m \in In(events) : m.kind # "room") => \A q : Newest(all, q) /\ Newest(events, q)
      /\ \A m \in In(events) : m.kind = "room" => m.round = r
  BY DEF Speech
<1> HIDE DEF all
<1>2. CASE linked
  <2>1. down' = (down \o answer) \o events
    BY <1>2 DEF Tell
  <2>2. down' = down \o all
    BY SMTT(60), <1>1, <2>1, ConcatAssociative DEF all
  <2>3. /\ down' \in Seq(Message) /\ In(down') = In(down) \cup In(all)
        /\ Told(down) => Told(down')
        /\ Sealed(down) /\ (\/ \A m \in In(down) : m.kind # "closed"
                            \/ \A m \in In(all) : m.kind \notin Seating)
             => Sealed(down')
        /\ \A a : /\ Refusing(down, a)
                     /\ (\/ \A m \in In(down) : ~(m.kind = "resume-error" /\ m.ask = a)
                         \/ \A m \in In(all) : m.kind \notin Seating)
                     => Refusing(down', a)
                  /\ Newest(all, a) /\ (Newest(down, a) \/ \E m \in In(all) : m.kind = "room")
                     => Newest(down', a)
    <3>1. down \in Seq(Message) /\ all \in Seq(Message) /\ down' = down \o all
      BY <1>1, <2>2
    <3>2. down' \in Seq(Message) /\ In(down') = In(down) \cup In(all)
      BY <3>1, LineConcat
    <3>3. Told(down) => Told(down')
      BY <1>1, <3>1, LineConcat
    <3>4. Sealed(down) /\ (\/ \A m \in In(down) : m.kind # "closed"
                          \/ \A m \in In(all) : m.kind \notin Seating)
            => Sealed(down')
      BY <1>1, <3>1, LineConcat
    <3>5. ASSUME NEW a, Refusing(down, a),
                 \/ \A m \in In(down) : ~(m.kind = "resume-error" /\ m.ask = a)
                 \/ \A m \in In(all) : m.kind \notin Seating
          PROVE  Refusing(down', a)
      <4>1. Refusing(all, a)
        BY <1>1
      <4> QED BY <3>1, <3>5, <4>1, LineConcat
    <3>6. ASSUME NEW a, Newest(all, a), Newest(down, a) \/ \E m \in In(all) : m.kind = "room"
          PROVE  Newest(down', a)
      BY <3>1, <3>6, LineConcat
    <3> QED BY <3>2, <3>3, <3>4, <3>5, <3>6
  <2>4. ASSUME NEW q, Newest(down, q), \A m \in In(events) : m.kind = "room" => m.round = q
        PROVE  Newest(down', q)
    <3>1. Newest(all, q)
      BY <1>1, <2>4
    <3> QED BY <2>3, <2>4, <3>1
  <2>5. ASSUME NEW q, \E m \in In(events) : m.kind = "room" /\ m.round = q
        PROVE  Newest(down', q)
    <3>1. q = r /\ \E m \in In(all) : m.kind = "room"
      BY <1>1, <2>5
    <3> QED BY <1>1, <2>3, <3>1
  <2> QED BY <1>1, <1>2, <2>3, <2>4, <2>5 DEF Hears
<1>3. CASE ~linked /\ recoverable
  <2>1. down' = down \o events
    BY <1>3 DEF Tell
  <2>3. /\ down' \in Seq(Message) /\ In(down') = In(down) \cup In(events)
        /\ Told(down) => Told(down')
        /\ Sealed(down) /\ (\/ \A m \in In(down) : m.kind # "closed"
                            \/ \A m \in In(events) : m.kind \notin Seating)
             => Sealed(down')
        /\ \A a : /\ Refusing(down, a)
                     /\ (\/ \A m \in In(down) : ~(m.kind = "resume-error" /\ m.ask = a)
                         \/ \A m \in In(events) : m.kind \notin Seating)
                     => Refusing(down', a)
                  /\ Newest(events, a) /\ (Newest(down, a) \/ \E m \in In(events) : m.kind = "room")
                     => Newest(down', a)
    <3>1. down \in Seq(Message) /\ events \in Seq(Message) /\ down' = down \o events
      BY <1>1, <2>1
    <3>2. down' \in Seq(Message) /\ In(down') = In(down) \cup In(events)
      BY <3>1, LineConcat
    <3>3. Told(down) => Told(down')
      BY <1>1, <3>1, LineConcat
    <3>4. Sealed(down) /\ (\/ \A m \in In(down) : m.kind # "closed"
                          \/ \A m \in In(events) : m.kind \notin Seating)
            => Sealed(down')
      BY <1>1, <3>1, LineConcat
    <3>5. ASSUME NEW a, Refusing(down, a),
                 \/ \A m \in In(down) : ~(m.kind = "resume-error" /\ m.ask = a)
                 \/ \A m \in In(events) : m.kind \notin Seating
          PROVE  Refusing(down', a)
      <4>1. Refusing(events, a)
        BY <1>1
      <4> QED BY <3>1, <3>5, <4>1, LineConcat
    <3>6. ASSUME NEW a, Newest(events, a), Newest(down, a) \/ \E m \in In(events) : m.kind = "room"
          PROVE  Newest(down', a)
      BY <3>1, <3>6, LineConcat
    <3> QED BY <3>2, <3>3, <3>4, <3>5, <3>6
  <2>4. ASSUME NEW q, Newest(down, q), \A m \in In(events) : m.kind = "room" => m.round = q
        PROVE  Newest(down', q)
    <3>1. Newest(events, q)
      BY <1>1, <2>4
    <3> QED BY <2>3, <2>4, <3>1
  <2>5. ASSUME NEW q, \E m \in In(events) : m.kind = "room" /\ m.round = q
        PROVE  Newest(down', q)
    BY <1>1, <2>3, <2>5
  <2> QED BY <1>3, <2>3, <2>4, <2>5 DEF Hears
<1>4. CASE ~linked /\ ~recoverable
  <2>1. down' = down
    BY <1>4 DEF Tell
  <2> QED BY <1>4, <2>1 DEF Hears
<1> QED BY <1>2, <1>3, <1>4

\* The four things it says.
LEMMA Speeches ==
  ASSUME NEW x \in Message, NEW y \in Message, NEW z \in Message
  PROVE  /\ x.kind \notin Seating /\ x.kind # "room" => \A r : Speech(<<x>>, <<>>, r)
         /\ x.kind \notin Seating => Speech(<<>>, <<x>>, x.round)
         /\ x.kind \in Seating /\ y.kind = "room" => Speech(<<x>>, <<y>>, y.round)
         /\ x.kind \in Seating /\ y.kind \in Seating /\ z.kind = "room"
                => Speech(<<x>>, <<y, z>>, z.round)
<1>1. <<x>> \in Seq(Message) /\ <<y>> \in Seq(Message) /\ <<y, z>> \in Seq(Message)
      /\ <<>> \in Seq(Message)
  BY Utterances
<1>2. <<x>> \o <<>> = <<x>> /\ <<>> \o <<x>> = <<x>>
  BY <1>1, ConcatEmptySeq
<1>3. <<x>> \o <<y>> = <<x, y>>
  <2> DEFINE s == <<x>> \o <<y>>
             t == <<x, y>>
  <2>1. s \in Seq(Message) /\ Len(s) = 2 /\ s[1] = x /\ s[2] = y
    OBVIOUS
  <2>2. t \in Seq(Message) /\ Len(t) = 2 /\ t[1] = x /\ t[2] = y
    OBVIOUS
  <2> HIDE DEF s, t
  <2>3. \A i \in 1..Len(s) : s[i] = t[i]
    BY <2>1, <2>2
  <2>4. s = t
    BY <2>1, <2>2, <2>3, SeqEqual
  <2> QED BY <2>4 DEF s, t
<1>4. <<x>> \o <<y, z>> = <<x, y, z>>
  <2> DEFINE s == <<x>> \o <<y, z>>
             t == <<x, y, z>>
  <2>1. s \in Seq(Message) /\ Len(s) = 3 /\ s[1] = x /\ s[2] = y /\ s[3] = z
    OBVIOUS
  <2>2. t \in Seq(Message) /\ Len(t) = 3 /\ t[1] = x /\ t[2] = y /\ t[3] = z
    OBVIOUS
  <2> HIDE DEF s, t
  <2>3. \A i \in 1..Len(s) : s[i] = t[i]
    BY <2>1, <2>2
  <2>4. s = t
    BY <2>1, <2>2, <2>3, SeqEqual
  <2> QED BY <2>4 DEF s, t
<1>5. ASSUME x.kind \notin Seating, x.kind # "room", NEW r PROVE Speech(<<x>>, <<>>, r)
  <2>1. /\ Sealed(<<x>>) /\ Told(<<x>>) /\ \A a : Refusing(<<x>>, a) /\ Newest(<<x>>, a)
        /\ In(<<x>>) = {x}
    BY <1>5, Utterances
  <2> QED BY <1>1, <1>2, <2>1, EmptyLine DEF Speech
<1>6. ASSUME x.kind \notin Seating PROVE Speech(<<>>, <<x>>, x.round)
  <2>1. /\ Sealed(<<x>>) /\ Told(<<x>>) /\ (\A a : Refusing(<<x>>, a)) /\ Newest(<<x>>, x.round)
        /\ In(<<x>>) = {x} /\ (x.kind # "room" => \A r : Newest(<<x>>, r))
    BY <1>6, Utterances
  <2> QED BY <1>1, <1>2, <2>1, EmptyLine DEF Speech
<1>7. ASSUME x.kind \in Seating, y.kind = "room" PROVE Speech(<<x>>, <<y>>, y.round)
  <2>1. /\ Sealed(<<x, y>>) /\ Told(<<x, y>>) /\ (\A a : Refusing(<<x, y>>, a))
        /\ Newest(<<x, y>>, y.round) /\ In(<<x, y>>) = {x, y} /\ In(<<x>>) = {x}
    BY <1>7, Utterances
  <2>2. y.kind \notin Seating
    BY <1>7 DEF Seating
  <2>3. /\ Sealed(<<y>>) /\ Told(<<y>>) /\ (\A a : Refusing(<<y>>, a)) /\ Newest(<<y>>, y.round)
        /\ In(<<y>>) = {y}
    BY <1>7, <2>2, Utterances
  <2> QED BY <1>1, <1>3, <1>7, <2>1, <2>3 DEF Speech
<1>8. ASSUME x.kind \in Seating /\ y.kind \in Seating, z.kind = "room"
      PROVE  Speech(<<x>>, <<y, z>>, z.round)
  <2>1. /\ Sealed(<<x, y, z>>) /\ Told(<<x, y, z>>) /\ (\A a : Refusing(<<x, y, z>>, a))
        /\ Newest(<<x, y, z>>, z.round) /\ In(<<x, y, z>>) = {x, y, z} /\ In(<<x>>) = {x}
    <3>1. In(<<x, y, z>>) = {x, y, z} /\ In(<<x>>) = {x}
      BY DEF In
    <3>2. Sealed(<<x, y, z>>) /\ Told(<<x, y, z>>) /\ Newest(<<x, y, z>>, z.round)
      BY <1>8, Utterances
    <3>3. \A a : Refusing(<<x, y, z>>, a)
      BY <1>8, Utterances
    <3> QED BY <3>1, <3>2, <3>3
  <2>2. y.kind # "room" /\ y.kind \in Seating
    BY <1>8 DEF Seating
  <2>3. /\ Sealed(<<y, z>>) /\ Told(<<y, z>>) /\ (\A a : Refusing(<<y, z>>, a))
        /\ Newest(<<y, z>>, z.round) /\ In(<<y, z>>) = {y, z}
    BY <1>8, <2>2, Utterances
  <2> QED BY <1>1, <1>4, <1>8, <2>1, <2>2, <2>3 DEF Speech
<1> QED BY <1>5, <1>6, <1>7, <1>8

\* What is heard of each of them.
LEMMA Says ==
  ASSUME down \in Seq(Message), NEW x \in Message, NEW y \in Message, NEW z \in Message
  PROVE  /\ x.kind \notin Seating /\ x.kind # "room" /\ Tell(<<x>>, <<>>) => Hears({x}, {})
         /\ x.kind \notin Seating /\ Tell(<<>>, <<x>>) => Hears({}, {x})
         /\ x.kind \in Seating /\ y.kind = "room" /\ Tell(<<x>>, <<y>>) => Hears({x}, {y})
         /\ x.kind \in Seating /\ y.kind \in Seating /\ z.kind = "room" /\ Tell(<<x>>, <<y, z>>)
              => Hears({x}, {y, z})
<1>1. In(<<>>) = {} /\ In(<<x>>) = {x} /\ In(<<y>>) = {y} /\ In(<<y, z>>) = {y, z}
  <2>1. In(<<x>>) = {x} /\ In(<<y>>) = {y}
    BY Utterances
  <2>2. In(<<y, z>>) = {y, z}
    BY Utterances
  <2> QED BY <2>1, <2>2, EmptyLine
<1>2. ASSUME x.kind \notin Seating, x.kind # "room", Tell(<<x>>, <<>>) PROVE Hears({x}, {})
  <2>1. Speech(<<x>>, <<>>, 0)
    BY <1>2, Speeches
  <2>2. Hears(In(<<x>>), In(<<>>))
    BY <1>2, <2>1, TellDoes
  <2> QED BY <1>1, <2>2
<1>3. ASSUME x.kind \notin Seating, Tell(<<>>, <<x>>) PROVE Hears({}, {x})
  <2>1. Speech(<<>>, <<x>>, x.round)
    BY <1>3, Speeches
  <2>2. Hears(In(<<>>), In(<<x>>))
    BY <1>3, <2>1, TellDoes
  <2> QED BY <1>1, <2>2
<1>4. ASSUME x.kind \in Seating, y.kind = "room", Tell(<<x>>, <<y>>) PROVE Hears({x}, {y})
  <2>1. Speech(<<x>>, <<y>>, y.round)
    BY <1>4, Speeches
  <2>2. Hears(In(<<x>>), In(<<y>>))
    BY <1>4, <2>1, TellDoes
  <2> QED BY <1>1, <2>2
<1>5. ASSUME x.kind \in Seating, y.kind \in Seating, z.kind = "room", Tell(<<x>>, <<y, z>>)
      PROVE  Hears({x}, {y, z})
  <2>1. Speech(<<x>>, <<y, z>>, z.round)
    BY <1>5, Speeches
  <2>2. Hears(In(<<x>>), In(<<y, z>>))
    BY <1>5, <2>1, TellDoes
  <2> QED BY <1>1, <2>2
<1> QED BY <1>2, <1>3, <1>4, <1>5
-----------------------------------------------------------------------------
(* The invariant.                                                          *)

\* The server hears the phone's connection and answers on it.
Live == linked /\ conn \in alive

\* What it sends will be read, now or when the connection is recovered.
On == IF linked THEN conn \in alive ELSE recoverable

Gone(s) == s \in 1..made /\ seats[s] = NoSeat
Sits(s) == s \in Number /\ seats[s] = [device |-> phone.device, socket |-> conn] /\ who = s

Closing == \E m \in In(down) : m.kind = "closed"
Joining == \/ open /\ linked /\ \E m \in In(up) : m.kind = "join"
           \/ \E m \in In(down) : m.kind = "joined"

\* The phone has still to hear, or has missed, something of the server.
Pending == phone.awaiting # 0 \/ phone.retry \/ phone.leaving \/ refused

PhoneFits ==
  /\ phone.player \in {0, phone.stored}
  /\ phone.stored # 0 => phone.device # 0
  /\ phone.ended => phone.stored = 0 /\ ~phone.retry
  /\ phone.leaving => phone.stored # 0
  /\ phone.retry => ~phone.resuming /\ phone.awaiting = 0
  /\ ~linked => phone.awaiting = 0 /\ ~phone.retry /\ ~phone.connected
  /\ linked => ~recoverable

\* Requests are numbered; a retry will be a new one.
AsksFit ==
  /\ phone.awaiting <= losses + timeouts + 1
  /\ \A m \in In(up) \cup In(down) :
        /\ m.ask <= losses + timeouts + 1 /\ (phone.retry => m.ask <= losses + timeouts)
        /\ m.kind \in {"resume", "resume-ok", "resume-error"} => m.ask # 0

RoomFits ==
  /\ ~open => \A k \in Number : seats[k] = NoSeat
  /\ \A k \in Number : seats[k] # NoSeat => k <= made

LineFits ==
  /\ Sealed(down) /\ Told(down) /\ Refusing(down, phone.awaiting)
  /\ open => ~Closing
  /\ ~linked => \A m \in In(down) : m.kind \in Events

\* A phone that joins has nothing to resume.
JoinsAlone ==
  /\ phone.stored = 0 /\ (phone.awaiting # 0 \/ phone.retry) => ~open
  /\ Joining => phone.awaiting = 0 /\ ~phone.retry

\* The seats the phone knows of are its device's, or gone.
DevicesFit ==
  /\ phone.stored # 0 /\ seats[phone.stored] # NoSeat => seats[phone.stored].device = phone.device
  /\ \A m \in In(down) : m.kind \in Seating =>
        /\ phone.device # 0
        /\ seats[m.seat] # NoSeat => seats[m.seat].device = phone.device

\* What the phone asks is in the name of the seat it has, or of one that is gone.
UpFits ==
  /\ On /\ open => \A m \in In(up) : m.kind \in {"resume", "profile"} =>
        /\ Gone(m.seat) \/ (m.seat = phone.stored /\ m.device = phone.device)
        /\ m.kind = "resume" /\ m.ask = phone.awaiting => m.seat = phone.stored
  /\ Live /\ open => \A m \in In(up) : m.kind = "join" =>
        m.device = phone.device /\ (phone.stored # 0 => Sits(phone.stored))

\* What seats the phone speaks of one seat, the phone's own; the phone sits there already,
\* or has yet to hear that it does not.
DownFits ==
  /\ \A m \in In(down) : m.kind \in Seating =>
        /\ phone.stored # 0 => m.seat = phone.stored
        /\ m.kind = "resumed" => m.seat = phone.stored
        /\ \A n \in In(down) : n.kind \in Seating => m.seat = n.seat
  /\ Live => \A m \in In(down) : m.kind \in Seating =>
        Sits(m.seat) \/ Closing \/ (m.kind = "resumed" /\ Pending)
  /\ Live /\ open => \A m \in In(down) :
        m.kind = "resume-error" /\ m.ask = phone.awaiting => Gone(phone.stored)

\* Nothing under way stores an ended session again.
EndedFits ==
  /\ linked /\ phone.ended => \A m \in In(down) : m.kind \notin {"joined", "profile-ok"}
  /\ Live /\ phone.ended /\ open =>
        \A m \in In(up) : m.kind # "join" /\ (m.kind = "profile" => Gone(m.seat))

\* What is awaited is under way.
PendFits ==
  /\ Live /\ phone.awaiting # 0 =>
        \/ \E m \in In(up) : m.kind = "resume" /\ m.ask = phone.awaiting
        \/ \E m \in In(down) : m.kind \in {"resume-ok", "resume-error"} /\ m.ask = phone.awaiting
  /\ Live /\ phone.leaving
     /\ (phone.connected \/ (\E m \in In(up) : m.kind = "join")
                         \/ \E m \in In(down) : m.kind = "joined") =>
        refused \/ (\E m \in In(up) : m.kind = "leave") \/ (\E m \in In(down) : m.kind = "leave-error")

\* News reach those who are in the room, and the last of them are of this round.
NewsFit ==
  /\ On => Newest(down, round)
  /\ On /\ open /\ (\E m \in In(down) : m.kind = "room") => who # 0

\* The phone with its controls enabled.
Settles ==
  Live /\ phone.connected /\ phone.stored # 0 =>
      /\ phone.player = phone.stored
      /\ open => who # 0
      /\ Sits(phone.stored) \/ Closing \/ Pending
      /\ ~phone.leaving /\ ~refused /\ (\A m \in In(down) : m.kind # "room") => phone.shown = round

SeatIInv ==
  /\ Types /\ PhoneFits /\ AsksFit /\ RoomFits /\ LineFits /\ JoinsAlone /\ DevicesFit
  /\ UpFits /\ DownFits /\ EndedFits /\ PendFits /\ NewsFit /\ Settles

-----------------------------------------------------------------------------
(* What the server does.                                                   *)

\* Seat k is given to a device that has no other one.
Taken(k, device) ==
  /\ k \in Number /\ seats' \in [Number -> [device : Nat, socket : Nat]]
  /\ seats'[k] = [device |-> device, socket |-> conn]
  /\ \A j \in Number : j # k => seats'[j] = seats[j]
  /\ who' = k /\ made' \in Number /\ made <= made' /\ k <= made'
  /\ k <= made => seats[k] # NoSeat /\ seats[k].device = device
  /\ \A j \in Number : seats[j] # NoSeat /\ seats[j].device = device => j = k

Vacated(k) ==
  /\ seats' \in [Number -> [device : Nat, socket : Nat]]
  /\ \A j \in Number : seats'[j] = IF j = k THEN NoSeat ELSE seats[j]

\* The server cuts the phone's connection after a last word.
Severed ==
  /\ alive' = alive \ {conn} /\ who' = 0 /\ recoverable' = FALSE
  /\ down' \in Seq(Message)
  /\ \A m \in In(down') : m \in In(down) \/ (m.kind \in {"left", "terminated"} /\ m.seat = 0 /\ m.ask = 0)
  /\ ~linked => down' = <<>>
  /\ Told(down) => Told(down')
  /\ Sealed(down) => Sealed(down')
  /\ \A a : Refusing(down, a) => Refusing(down', a)

News(y) == y.kind = "room" /\ y.round = round /\ y.seat = 0 /\ y.ask = 0

LEMMA Speaks ==
  ASSUME Types, NEW kind \in Events \cup Acks, NEW seat \in Nat, NEW ask \in Nat
  PROVE  /\ Say(kind, seat, ask) \in Message
         /\ Say(kind, seat, ask).kind = kind /\ Say(kind, seat, ask).seat = seat
         /\ Say(kind, seat, ask).ask = ask /\ Say(kind, seat, ask).round = round
<1>1. round \in Nat
  BY DEF Types, TypeOK
<1> QED BY <1>1 DEF Say, Message

LEMMA TakeDoes ==
  ASSUME Types, RoomFits, OneSeatPerDevice, NEW k, NEW device \in Nat, Take(k, device),
         made' = IF k > made THEN k ELSE made,
         k \in SeatsOf(device) \/ (k = made + 1 /\ SeatsOf(device) = {})
  PROVE  Taken(k, device)
<1>1. /\ k \in Number /\ seats' = [seats EXCEPT ![k] = [device |-> device, socket |-> conn]]
      /\ who' = k
  BY DEF Take
<1>2. /\ seats \in [Number -> [device : Nat, socket : Nat]] /\ conn \in Nat
      /\ made \in Nat /\ made \in Number \cup {0} /\ k \in Nat
  BY <1>1 DEF Types, TypeOK, Number
<1>3. [device |-> device, socket |-> conn] \in [device : Nat, socket : Nat]
  BY <1>2
<1>4. /\ seats' \in [Number -> [device : Nat, socket : Nat]]
      /\ seats'[k] = [device |-> device, socket |-> conn]
      /\ \A j \in Number : j # k => seats'[j] = seats[j]
  BY <1>1, <1>2, <1>3
<1>5. made' \in Number /\ made <= made' /\ k <= made'
  BY <1>1, <1>2 DEF Number
<1>6. k <= made => seats[k] # NoSeat /\ seats[k].device = device
  BY <1>2 DEF SeatsOf
<1>7. ASSUME NEW j \in Number, seats[j] # NoSeat, seats[j].device = device PROVE j = k
  <2>1. j \in SeatsOf(device)
    BY <1>7 DEF SeatsOf
  <2>2. k \in SeatsOf(device)
    BY <2>1
  <2>3. seats[k] # NoSeat /\ seats[k].device = device
    BY <2>2 DEF SeatsOf
  <2> QED BY <1>1, <1>7, <2>3 DEF OneSeatPerDevice
<1> QED BY <1>1, <1>4, <1>5, <1>6, <1>7 DEF Taken

LEMMA VacateDoes ==
  ASSUME Types, NEW k, seats' = [seats EXCEPT ![k] = NoSeat]
  PROVE  Vacated(k)
<1>1. seats \in [Number -> [device : Nat, socket : Nat]] /\ NoSeat \in [device : Nat, socket : Nat]
  BY DEF Types, TypeOK, NoSeat
<1> QED BY <1>1 DEF Vacated

LEMMA SeverDoes ==
  ASSUME Types, NEW x \in Message, NEW y \in Message, NEW farewell \in {<<x>>, <<x, y>>},
         \A m \in {x, y} : m.kind \in {"left", "terminated"} /\ m.seat = 0 /\ m.ask = 0,
         Sever(farewell)
  PROVE  Severed
<1>1. down \in Seq(Message)
  BY DEF Types, TypeOK, Message
<1>2. /\ alive' = alive \ {conn} /\ who' = 0 /\ recoverable' = FALSE
      /\ down' = IF linked THEN down \o farewell ELSE <<>>
  BY DEF Sever
<1>3. CASE linked
  <2>1. farewell \in Seq(Message) /\ In(farewell) \subseteq {x, y}
    <3>1. <<x>> \in Seq(Message) /\ In(<<x>>) = {x}
      BY Utterances
    <3>2. <<x, y>> \in Seq(Message) /\ In(<<x, y>>) = {x, y}
      BY Utterances
    <3> QED BY <3>1, <3>2
  <2>2. \A m \in In(farewell) : m.kind \notin Seating /\ m.kind # "closed"
    BY <2>1 DEF Seating
  <2>3. Sealed(farewell) /\ Told(farewell) /\ \A a : Refusing(farewell, a)
    <3>1. \A i \in 1..Len(farewell) : farewell[i].kind \notin Seating
      BY <2>2 DEF In
    <3> QED BY <3>1 DEF Sealed, Told, Refusing
  <2>4. down' = down \o farewell
    BY <1>2, <1>3
  <2>5. down' \in Seq(Message) /\ In(down') = In(down) \cup In(farewell)
    BY <1>1, <2>1, <2>4, LineConcat
  <2>6. Told(down) => Told(down')
    BY <1>1, <2>1, <2>3, <2>4, LineConcat
  <2>7. Sealed(down) => Sealed(down')
    BY <1>1, <2>1, <2>2, <2>3, <2>4, LineConcat
  <2>8. ASSUME NEW a, Refusing(down, a) PROVE Refusing(down', a)
    BY <1>1, <2>1, <2>2, <2>3, <2>4, <2>8, LineConcat
  <2>9. \A m \in In(down') : m \in In(down) \/ (m.kind \in {"left", "terminated"} /\ m.seat = 0 /\ m.ask = 0)
    BY <2>1, <2>5
  <2> QED BY <1>2, <1>3, <2>5, <2>6, <2>7, <2>8, <2>9 DEF Severed
<1>4. CASE ~linked
  <2>1. down' = <<>>
    BY <1>2, <1>4
  <2>2. down' \in Seq(Message) /\ In(down') = {}
    BY <2>1, EmptyLine
  <2>3. Told(down') /\ Sealed(down') /\ \A a : Refusing(down', a)
    BY <2>1, EmptyLine
  <2> QED BY <1>2, <1>4, <2>1, <2>2, <2>3 DEF Severed
<1> QED BY <1>3, <1>4

Silent == UNCHANGED <<seats, made, who, alive, recoverable>>

\* A request is turned down.
Refuses(m, x) ==
  /\ x.seat = 0 /\ x.ask = (IF m.kind = "resume" THEN m.ask ELSE 0)
  /\ Hears({x}, {}) /\ Silent
  /\ \/ m.kind = "join" /\ ~open /\ x.kind = "error"
     \/ m.kind = "resume" /\ x.kind = "resume-error" /\ ~(open /\ m.seat \in SeatsOf(m.device))
     \/ m.kind = "leave" /\ x.kind = "leave-error"
     \/ m.kind = "profile" /\ x.kind = "error"

Profiles(m, x, y) ==
  /\ m.kind = "profile" /\ open /\ who = m.seat /\ who \in Number
  /\ seats[who] # NoSeat /\ seats[who].socket = conn
  /\ x.kind = "profile-ok" /\ x.seat = m.seat /\ x.ask = 0 /\ News(y)
  /\ Hears({x}, {y}) /\ Silent

Joins(m, k, x, y) ==
  /\ m.kind = "join" /\ open /\ Taken(k, m.device)
  /\ x.kind = "joined" /\ x.seat = k /\ x.ask = 0 /\ News(y)
  /\ Hears({x}, {y}) /\ UNCHANGED <<alive, recoverable>>

Resumes(m, x, y, z) ==
  /\ m.kind = "resume" /\ open /\ Taken(m.seat, m.device) /\ made' = made
  /\ seats[m.seat] # NoSeat /\ m.seat <= made
  /\ x.kind = "resume-ok" /\ x.seat = m.seat /\ x.ask = m.ask
  /\ y.kind = "resumed" /\ y.seat = m.seat /\ y.ask = 0 /\ News(z)
  /\ Hears({x}, {y, z}) /\ UNCHANGED <<alive, recoverable>>

Leaves(m) ==
  /\ m.kind = "leave" /\ open /\ Vacated(who) /\ Severed /\ made' = made

LEMMA HandleDoes ==
  ASSUME Types, RoomFits, OneSeatPerDevice, Handle
  PROVE  /\ conn \in alive /\ up # <<>> /\ Head(up) \in Question /\ Head(up) \in In(up)
         /\ up' \in Seq(Question) /\ In(up) = In(up') \cup {Head(up)}
         /\ UNCHANGED <<client, open, round>>
         /\ \/ \E x \in Message : Refuses(Head(up), x)
            \/ \E x, y \in Message : Profiles(Head(up), x, y)
            \/ \E x, y \in Message, k \in Number : Joins(Head(up), k, x, y)
            \/ \E x, y, z \in Message : Resumes(Head(up), x, y, z)
            \/ Leaves(Head(up))
<1> DEFINE m == Head(up)
<1>1. /\ up \in Seq(Question) /\ down \in Seq(Message)
  BY DEF Types, TypeOK, Question, Message
<1>2. /\ conn \in alive /\ up # <<>> /\ up' = Tail(up) /\ UNCHANGED <<client, open, round>>
  BY DEF Handle
<1>3. m \in Question /\ up' \in Seq(Question) /\ In(up) = In(up') \cup {m} /\ m \in In(up)
  BY <1>1, <1>2, LineTail
<1>4. /\ m.kind = "join" => HandleJoin(m) /\ UNCHANGED <<alive, recoverable>>
      /\ m.kind = "resume" => HandleResume(m) /\ UNCHANGED <<alive, recoverable>>
      /\ m.kind = "leave" => HandleLeave /\ made' = made
      /\ m.kind = "profile" => HandleProfile(m) /\ UNCHANGED <<made, alive, recoverable>>
  BY DEF Handle
<1>5. /\ m.kind \in {"join", "resume", "leave", "profile"}
      /\ m.seat \in Nat /\ m.device \in Nat /\ m.ask \in Nat
  BY <1>3 DEF Question
<1>6. made \in Nat /\ m.seat <= made
  <2>1. made \in Nat
    BY DEF Types, TypeOK
  <2>2. \A q \in In(up) : q.seat <= made
    BY DEF Types
  <2> QED BY <1>3, <2>1, <2>2
<1> HIDE DEF m
<1>7. CASE m.kind = "join"
  <2>1. CASE ~open
    <3> DEFINE x == Say("error", 0, 0)
    <3>1. Tell(<<x>>, <<>>) /\ Silent
      BY <1>4, <1>7, <2>1 DEF HandleJoin, Silent
    <3>2. x \in Message /\ x.kind = "error" /\ x.seat = 0 /\ x.ask = 0
      BY Speaks DEF Acks
    <3> HIDE DEF x
    <3>3. Hears({x}, {})
      BY <1>1, <3>1, <3>2, Says DEF Seating
    <3>4. Refuses(m, x)
      BY <1>7, <2>1, <3>1, <3>2, <3>3 DEF Refuses
    <3> QED BY <1>2, <1>3, <3>2, <3>4 DEF m
  <2>2. CASE open
    <3> DEFINE k == JoinedSeat(m.device)
               x == Say("joined", k, 0)
               y == Say("room", 0, 0)
    <3>1. /\ Take(k, m.device) /\ made' = (IF k > made THEN k ELSE made)
          /\ Tell(<<x>>, <<y>>) /\ UNCHANGED <<alive, recoverable>>
      BY <1>4, <1>7, <2>2 DEF HandleJoin
    <3>2. k \in SeatsOf(m.device) \/ (k = made + 1 /\ SeatsOf(m.device) = {})
      BY DEF JoinedSeat
    <3> HIDE DEF k
    <3>3. Taken(k, m.device)
      BY <1>5, <3>1, <3>2, TakeDoes
    <3>4. k \in Number /\ k \in Nat
      BY <3>3 DEF Taken, Number
    <3>5. x \in Message /\ x.kind = "joined" /\ x.seat = k /\ x.ask = 0
      <4>1. "joined" \in Events \cup Acks /\ k \in Nat /\ 0 \in Nat
        BY <3>4 DEF Acks
      <4> QED BY <4>1, Speaks
    <3>6. y \in Message /\ News(y)
      BY Speaks DEF Events, News
    <3> HIDE DEF x, y
    <3>7. Hears({x}, {y})
      BY <1>1, <3>1, <3>5, <3>6, Says DEF Seating, News
    <3>8. Joins(m, k, x, y)
      BY <1>7, <2>2, <3>1, <3>3, <3>5, <3>6, <3>7 DEF Joins
    <3> QED BY <1>2, <1>3, <3>4, <3>5, <3>6, <3>8 DEF m
  <2> QED BY <2>1, <2>2
<1>8. CASE m.kind = "resume"
  <2>1. CASE ~(open /\ m.seat \in SeatsOf(m.device))
    <3> DEFINE x == Say("resume-error", 0, m.ask)
    <3>1. Tell(<<x>>, <<>>) /\ Silent
      BY <1>4, <1>8, <2>1 DEF HandleResume, Silent
    <3>2. x \in Message /\ x.kind = "resume-error" /\ x.seat = 0 /\ x.ask = m.ask
      <4>1. "resume-error" \in Events \cup Acks /\ 0 \in Nat /\ m.ask \in Nat
        BY <1>5 DEF Acks
      <4> QED BY <4>1, Speaks
    <3> HIDE DEF x
    <3>3. Hears({x}, {})
      BY <1>1, <3>1, <3>2, Says DEF Seating
    <3>4. Refuses(m, x)
      BY <1>8, <2>1, <3>1, <3>2, <3>3 DEF Refuses
    <3> QED BY <1>2, <1>3, <3>2, <3>4 DEF m
  <2>2. CASE open /\ m.seat \in SeatsOf(m.device)
    <3> DEFINE x == Say("resume-ok", m.seat, m.ask)
               y == Say("resumed", m.seat, 0)
               z == Say("room", 0, 0)
    <3>1. /\ Take(m.seat, m.device) /\ made' = made
          /\ Tell(<<x>>, <<y, z>>) /\ UNCHANGED <<alive, recoverable>>
      BY <1>4, <1>8, <2>2 DEF HandleResume
    <3>2. Taken(m.seat, m.device)
      <4>1. made' = IF m.seat > made THEN m.seat ELSE made
        BY <1>5, <1>6, <3>1
      <4> QED BY <1>5, <2>2, <3>1, <4>1, TakeDoes
    <3>3. x \in Message /\ x.kind = "resume-ok" /\ x.seat = m.seat /\ x.ask = m.ask
      <4>1. "resume-ok" \in Events \cup Acks /\ m.seat \in Nat /\ m.ask \in Nat
        BY <1>5 DEF Acks
      <4> QED BY <4>1, Speaks
    <3>4. y \in Message /\ y.kind = "resumed" /\ y.seat = m.seat /\ y.ask = 0
      BY <1>5, Speaks DEF Events
    <3>5. z \in Message /\ News(z)
      BY Speaks DEF Events, News
    <3> HIDE DEF x, y, z
    <3>6. Hears({x}, {y, z})
      BY <1>1, <3>1, <3>3, <3>4, <3>5, Says DEF Seating, News
    <3>7. seats[m.seat] # NoSeat /\ m.seat <= made
      BY <1>6, <2>2 DEF SeatsOf
    <3>8. Resumes(m, x, y, z)
      BY <1>8, <2>2, <3>1, <3>2, <3>3, <3>4, <3>5, <3>6, <3>7 DEF Resumes
    <3> QED BY <1>2, <1>3, <3>3, <3>4, <3>5, <3>8 DEF m
  <2> QED BY <2>1, <2>2
<1>9. CASE m.kind = "leave"
  <2>1. CASE open /\ Present /\ ~Running
    <3> DEFINE x == Say("left", 0, 0)
               y == Say("terminated", 0, 0)
    <3>1. seats' = [seats EXCEPT ![who] = NoSeat] /\ Sever(<<x, y>>) /\ made' = made
      BY <1>4, <1>9, <2>1 DEF HandleLeave
    <3>2. x \in Message /\ x.kind = "left" /\ x.seat = 0 /\ x.ask = 0
      BY Speaks DEF Acks
    <3>3. y \in Message /\ y.kind = "terminated" /\ y.seat = 0 /\ y.ask = 0
      BY Speaks DEF Events
    <3> HIDE DEF x, y
    <3>4. Severed
      BY <3>1, <3>2, <3>3, SeverDoes
    <3>5. Vacated(who)
      BY <3>1, VacateDoes
    <3>6. Leaves(m)
      BY <1>9, <2>1, <3>1, <3>4, <3>5 DEF Leaves
    <3> QED BY <1>2, <1>3, <3>6 DEF m
  <2>2. CASE ~(open /\ Present /\ ~Running)
    <3> DEFINE x == Say("leave-error", 0, 0)
    <3>1. Tell(<<x>>, <<>>) /\ Silent
      BY <1>4, <1>9, <2>2 DEF HandleLeave, Silent
    <3>2. x \in Message /\ x.kind = "leave-error" /\ x.seat = 0 /\ x.ask = 0
      BY Speaks DEF Acks
    <3> HIDE DEF x
    <3>3. Hears({x}, {})
      BY <1>1, <3>1, <3>2, Says DEF Seating
    <3>4. Refuses(m, x)
      BY <1>9, <3>1, <3>2, <3>3 DEF Refuses
    <3> QED BY <1>2, <1>3, <3>2, <3>4 DEF m
  <2> QED BY <2>1, <2>2
<1>10. CASE m.kind = "profile"
  <2> DEFINE right == open /\ Present /\ who = m.seat /\ seats[who].socket = conn /\ ~Running
  <2>1. CASE right
    <3> DEFINE x == Say("profile-ok", who, 0)
               y == Say("room", 0, 0)
    <3>1. Tell(<<x>>, <<y>>) /\ Silent
      BY <1>4, <1>10, <2>1 DEF HandleProfile, Silent
    <3>2. who \in Nat /\ who \in Number /\ seats[who] # NoSeat
      BY <2>1 DEF Present, Number
    <3>3. x \in Message /\ x.kind = "profile-ok" /\ x.seat = who /\ x.ask = 0
      BY <3>2, Speaks DEF Acks
    <3>4. y \in Message /\ News(y)
      BY Speaks DEF Events, News
    <3> HIDE DEF x, y
    <3>5. Hears({x}, {y})
      BY <1>1, <3>1, <3>3, <3>4, Says DEF Seating, News
    <3>6. Profiles(m, x, y)
      BY <1>10, <2>1, <3>1, <3>2, <3>3, <3>4, <3>5 DEF Profiles
    <3> QED BY <1>2, <1>3, <3>3, <3>4, <3>6 DEF m
  <2>2. CASE ~right
    <3> DEFINE x == Say("error", 0, 0)
    <3>1. Tell(<<x>>, <<>>) /\ Silent
      BY <1>4, <1>10, <2>2 DEF HandleProfile, Silent
    <3>2. x \in Message /\ x.kind = "error" /\ x.seat = 0 /\ x.ask = 0
      BY Speaks DEF Acks
    <3> HIDE DEF x
    <3>3. Hears({x}, {})
      BY <1>1, <3>1, <3>2, Says DEF Seating
    <3>4. Refuses(m, x)
      BY <1>10, <3>1, <3>2, <3>3 DEF Refuses
    <3> QED BY <1>2, <1>3, <3>2, <3>4 DEF m
  <2> QED BY <2>1, <2>2
<1> QED BY <1>5, <1>7, <1>8, <1>9, <1>10

\* The disconnect handler.
LEMMA NoticeDoes ==
  ASSUME Types, NEW c \in alive, NoticeLoss(c)
  PROVE  /\ ~(linked /\ c = conn) /\ alive' = alive \ {c}
         /\ seats' \in [Number -> [device : Nat, socket : Nat]]
         /\ \A k \in Number : /\ seats[k].socket # c => seats'[k] = seats[k]
                              /\ seats'[k].device = seats[k].device
                              /\ seats'[k] # NoSeat => seats[k] # NoSeat
         /\ up' = IF c = conn THEN <<>> ELSE up
         /\ UNCHANGED <<client, recoverable, down, open, round, made, who>>
<1>1. seats \in [Number -> [device : Nat, socket : Nat]]
  BY DEF Types, TypeOK
<1>2. /\ ~(linked /\ c = conn) /\ alive' = alive \ {c}
      /\ seats' = [k \in Number |-> IF seats[k].socket = c THEN [seats[k] EXCEPT !.socket = 0]
                                    ELSE seats[k]]
      /\ up' = IF c = conn THEN <<>> ELSE up
      /\ UNCHANGED <<client, recoverable, down, open, round, made, who>>
  BY DEF NoticeLoss
<1>3. ASSUME NEW k \in Number
      PROVE  /\ seats'[k] \in [device : Nat, socket : Nat]
             /\ seats[k].socket # c => seats'[k] = seats[k]
             /\ seats'[k].device = seats[k].device
             /\ seats'[k] # NoSeat => seats[k] # NoSeat
  <2>1. CASE seats[k].socket # c
    BY <1>1, <1>2, <2>1
  <2>2. CASE seats[k].socket = c
    <3>1. seats'[k] = [seats[k] EXCEPT !.socket = 0] /\ seats[k] \in [device : Nat, socket : Nat]
      BY <1>1, <1>2, <2>2
    <3> QED BY <2>2, <3>1 DEF NoSeat
  <2> QED BY <2>1, <2>2
<1>4. seats' \in [Number -> [device : Nat, socket : Nat]]
  <2>1. \A k \in Number : seats'[k] \in [device : Nat, socket : Nat]
    BY <1>3
  <2> QED BY <1>2, <2>1
<1> QED BY <1>2, <1>3, <1>4

\* player:kick.
LEMMA KickDoes ==
  ASSUME Types, NEW k \in Number, Kick(k)
  PROVE  /\ open /\ seats[k] # NoSeat /\ Vacated(k)
         /\ \/ seats[k].socket = conn /\ Severed
            \/ /\ ~(seats[k].socket = conn /\ conn \in alive)
               /\ alive' = alive \ {seats[k].socket} /\ UNCHANGED <<who, recoverable, down>>
         /\ UNCHANGED <<client, up, open, round, made>>
<1>1. /\ open /\ seats[k] # NoSeat /\ seats' = [seats EXCEPT ![k] = NoSeat]
      /\ UNCHANGED <<client, up, open, round, made>>
      /\ IF seats[k].socket = conn /\ conn \in alive
         THEN Sever(<<Say("terminated", 0, 0)>>)
         ELSE /\ alive' = alive \ {seats[k].socket}
              /\ UNCHANGED <<who, recoverable, down>>
  BY DEF Kick
<1>2. Vacated(k)
  BY <1>1, VacateDoes
<1>3. ASSUME Sever(<<Say("terminated", 0, 0)>>) PROVE Severed
  <2> DEFINE x == Say("terminated", 0, 0)
  <2>1. x \in Message /\ x.kind = "terminated" /\ x.seat = 0 /\ x.ask = 0
    BY Speaks DEF Events
  <2>2. Sever(<<x>>)
    BY <1>3
  <2> HIDE DEF x
  <2> QED BY <2>1, <2>2, SeverDoes
<1> QED BY <1>1, <1>2, <1>3

\* closeRoom.
LEMMA CloseDoes ==
  ASSUME Types, CloseRoom
  PROVE  /\ open /\ ~open' /\ open' \in BOOLEAN /\ seats' \in [Number -> [device : Nat, socket : Nat]]
         /\ \A k \in Number : seats'[k] = NoSeat
         /\ \/ who = 0 /\ down' = down
            \/ who # 0 /\ \E x \in Message : x.kind = "closed" /\ x.seat = 0 /\ x.ask = 0 /\ Hears({}, {x})
         /\ who' = IF conn \in alive THEN 0 ELSE who
         /\ UNCHANGED <<client, alive, recoverable, up, round, made>>
<1>1. /\ open /\ open' = FALSE /\ seats' = [k \in Number |-> NoSeat]
      /\ IF who # 0 THEN Tell(<<>>, <<Say("closed", 0, 0)>>) ELSE UNCHANGED down
      /\ who' = IF conn \in alive THEN 0 ELSE who
      /\ UNCHANGED <<client, alive, recoverable, up, round, made>>
  BY DEF CloseRoom
<1>2. seats' \in [Number -> [device : Nat, socket : Nat]] /\ \A k \in Number : seats'[k] = NoSeat
  BY <1>1 DEF NoSeat
<1>3. ASSUME Tell(<<>>, <<Say("closed", 0, 0)>>)
      PROVE  \E x \in Message : x.kind = "closed" /\ x.seat = 0 /\ x.ask = 0 /\ Hears({}, {x})
  <2> DEFINE x == Say("closed", 0, 0)
  <2>1. x \in Message /\ x.kind = "closed" /\ x.seat = 0 /\ x.ask = 0
    BY Speaks DEF Events
  <2>2. Tell(<<>>, <<x>>) /\ down \in Seq(Message)
    BY <1>3 DEF Types, TypeOK, Message
  <2> HIDE DEF x
  <2>3. Hears({}, {x})
    BY <2>1, <2>2, Says DEF Seating
  <2> QED BY <2>1, <2>3
<1> QED BY <1>1, <1>2, <1>3

\* A round starts or ends.
LEMMA NextRoundDoes ==
  ASSUME Types, NextRound
  PROVE  /\ open /\ round' = round + 1
         /\ \/ who = 0 /\ down' = down
            \/ who # 0 /\ \E x \in Message : /\ x.kind = "room" /\ x.seat = 0 /\ x.ask = 0
                                             /\ x.round = round + 1 /\ Hears({}, {x})
         /\ UNCHANGED <<client, alive, recoverable, up, open, seats, made, who>>
<1> DEFINE x == [Say("room", 0, 0) EXCEPT !.round = round + 1]
<1>1. /\ open /\ round' = round + 1
      /\ IF who # 0 THEN Tell(<<>>, <<x>>) ELSE UNCHANGED down
      /\ UNCHANGED <<client, alive, recoverable, up, open, seats, made, who>>
  BY DEF NextRound
<1>2. round \in Nat /\ round + 1 \in Nat /\ down \in Seq(Message)
  BY DEF Types, TypeOK, Message
<1>3. x \in Message /\ x.kind = "room" /\ x.seat = 0 /\ x.ask = 0 /\ x.round = round + 1
  BY <1>2 DEF Say, Events, Message
<1> HIDE DEF x
<1>4. ASSUME Tell(<<>>, <<x>>) PROVE Hears({}, {x})
  BY <1>2, <1>3, <1>4, Says DEF Seating
<1> QED BY <1>1, <1>3, <1>4
-----------------------------------------------------------------------------
(* Every step keeps the invariant.                                         *)

LEMMA LineAppend ==
  ASSUME NEW T, NEW s \in Seq(T), NEW x \in T
  PROVE  Append(s, x) \in Seq(T) /\ In(Append(s, x)) = In(s) \cup {x}
<1> DEFINE n == Len(s)
           t == Append(s, x)
<1>1. /\ t \in Seq(T) /\ n \in Nat /\ Len(t) = n + 1 /\ t[n + 1] = x
      /\ \A i \in 1..n : t[i] = s[i]
  OBVIOUS
<1>2. Len(s) = n
  BY DEF n
<1> HIDE DEF n, t
<1>3. ASSUME NEW i \in 1..Len(t) PROVE t[i] \in In(s) \cup {x}
  BY <1>1, <1>2 DEF In
<1>4. ASSUME NEW i \in 1..n PROVE s[i] \in In(t)
  BY <1>1 DEF In
<1>5. x \in In(t)
  <2>1. n + 1 \in 1..Len(t)
    BY <1>1
  <2> QED BY <1>1, <2>1 DEF In
<1> QED BY <1>1, <1>2, <1>3, <1>4, <1>5 DEF In, t

LEMMA OneInLine ==
  ASSUME NEW T, NEW x \in T
  PROVE  <<x>> \in Seq(T) /\ In(<<x>>) = {x}
  BY DEF In

\* joinRoom.
LEMMA JoinKeeps == ASSUME SeatIInv, Join PROVE SeatIInv'
<1>1. Types
  BY DEF SeatIInv
<1>2. PICK m \in Question : /\ m.kind = "join" /\ m.seat = 0 /\ m.device = phone'.device
                            /\ m.ask = phone.awaiting /\ up' = Append(up, m)
  BY <1>1, JoinDoes
<1>3. /\ linked /\ phone.connected /\ phone.player = 0 /\ phone.stored = 0
      /\ phone' \in Phone /\ phone'.device \in 1..devices' /\ devices' \in Nat
      /\ phone.device # 0 => phone'.device = phone.device
      /\ ~phone'.ended /\ ~phone'.leaving
      /\ UNCHANGED <<phone.stored, phone.resuming, phone.retry, phone.awaiting, phone.connected,
                     phone.player, phone.shown>>
  BY <1>1, JoinDoes
<1>4. /\ UNCHANGED <<conn, losses, timeouts, alive, open, round, seats, made, who>>
      /\ UNCHANGED <<linked, refused, recoverable, down>>
  BY <1>1, JoinDoes DEF Fixed, roomVars
<1>5. up \in Seq(Question) /\ down \in Seq(Message)
  BY <1>1 DEF Types, TypeOK, Question, Message
<1>6. up' \in Seq(Question) /\ In(up') = In(up) \cup {m}
  BY <1>2, <1>5, LineAppend
<1>7. Types'
  BY SMTT(60), <1>1, <1>2, <1>3, <1>4, <1>5, <1>6 DEF Types, TypeOK, Question, Message
<1>8. PhoneFits'
  BY <1>3, <1>4 DEF SeatIInv, PhoneFits
<1>9. AsksFit'
  <2>1. losses \in Nat /\ timeouts \in Nat /\ phone.awaiting \in Nat
    BY <1>1 DEF Types, TypeOK, Phone
  <2>2. phone.retry => phone.awaiting = 0
    BY DEF SeatIInv, PhoneFits
  <2> QED BY <1>2, <1>3, <1>4, <1>6, <2>1, <2>2 DEF SeatIInv, AsksFit
<1>10. RoomFits'
  BY <1>4 DEF SeatIInv, RoomFits
<1>11. LineFits'
  BY <1>3, <1>4 DEF SeatIInv, LineFits, Closing
<1>12. JoinsAlone'
  BY <1>2, <1>3, <1>4, <1>6 DEF SeatIInv, JoinsAlone, Joining
<1>13. DevicesFit'
  BY <1>3, <1>4 DEF SeatIInv, DevicesFit
<1>14. UpFits'
  BY <1>1, <1>2, <1>3, <1>4, <1>6 DEF SeatIInv, UpFits, On, Live, Gone, Types
<1>15. DownFits'
  <2>1. \A q \in In(down) : q.kind \in Seating => q.seat # 0 /\ phone'.device = phone.device
    BY <1>1, <1>3 DEF Types, SeatIInv, DevicesFit
  <2>2. \A q \in In(down) : q.kind \in Seating => q.kind # "resumed"
    BY <1>3, <2>1 DEF SeatIInv, DownFits
  <2> QED BY <1>3, <1>4, <2>1, <2>2 DEF SeatIInv, DownFits, Live, Gone, Sits, Closing
<1>16. EndedFits'
  BY <1>3 DEF EndedFits
<1>17. PendFits'
  BY <1>3, <1>4, <1>6 DEF SeatIInv, PendFits, Live
<1>18. NewsFit'
  BY <1>4 DEF SeatIInv, NewsFit, On
<1>19. Settles'
  BY <1>3 DEF Settles
<1> QED BY <1>7, <1>8, <1>9, <1>10, <1>11, <1>12, <1>13, <1>14, <1>15, <1>16, <1>17, <1>18, <1>19
        DEF SeatIInv

\* leaveRoom.
LEMMA LeaveKeeps == ASSUME SeatIInv, Leave PROVE SeatIInv'
<1>1. Types
  BY DEF SeatIInv
<1>2. PICK m \in Question : /\ m.kind = "leave" /\ m.seat = phone.stored
                            /\ m.device = DeviceOf(phone)
                            /\ m.ask = phone.awaiting /\ up' = Append(up, m)
  BY <1>1, LeaveDoes
<1>3. /\ linked /\ phone.connected /\ phone.player # 0
      /\ phone' \in Phone /\ phone'.leaving
      /\ UNCHANGED <<phone.stored, phone.device, phone.ended, phone.resuming, phone.retry,
                     phone.awaiting, phone.connected, phone.player, phone.shown>>
  BY <1>1, LeaveDoes
<1>4. /\ UNCHANGED <<conn, losses, timeouts, alive, open, round, seats, made, who>>
      /\ UNCHANGED <<linked, devices, refused, recoverable, down>>
  BY <1>1, LeaveDoes DEF Fixed, roomVars
<1>5. up \in Seq(Question) /\ down \in Seq(Message)
  BY <1>1 DEF Types, TypeOK, Question, Message
<1>6. up' \in Seq(Question) /\ In(up') = In(up) \cup {m}
  BY <1>2, <1>5, LineAppend
<1>7. Types'
  <2>1. m.device # 0
    BY <1>1, <1>2 DEF DeviceOf, Types, TypeOK
  <2> QED BY <1>1, <1>2, <1>3, <1>4, <1>5, <1>6, <2>1 DEF Types, TypeOK, Question, Message
<1>8. PhoneFits'
  BY <1>3, <1>4 DEF SeatIInv, PhoneFits
<1>9. AsksFit'
  <2>1. losses \in Nat /\ timeouts \in Nat /\ phone.awaiting \in Nat
    BY <1>1 DEF Types, TypeOK, Phone
  <2>2. phone.retry => phone.awaiting = 0
    BY DEF SeatIInv, PhoneFits
  <2> QED BY <1>2, <1>3, <1>4, <1>6, <2>1, <2>2 DEF SeatIInv, AsksFit
<1>10. RoomFits'
  BY <1>4 DEF SeatIInv, RoomFits
<1>11. LineFits'
  BY <1>3, <1>4 DEF SeatIInv, LineFits, Closing
<1>12. JoinsAlone'
  BY <1>2, <1>3, <1>4, <1>6 DEF SeatIInv, JoinsAlone, Joining
<1>13. DevicesFit'
  BY <1>3, <1>4 DEF SeatIInv, DevicesFit
<1>14. UpFits'
  BY <1>2, <1>3, <1>4, <1>6 DEF SeatIInv, UpFits, On, Live, Gone, Sits
<1>15. DownFits'
  BY <1>3, <1>4 DEF SeatIInv, DownFits, Live, Gone, Sits, Closing, Pending
<1>16. EndedFits'
  BY <1>2, <1>3, <1>4, <1>6 DEF SeatIInv, EndedFits, Live, Gone
<1>17. PendFits'
  BY <1>2, <1>3, <1>4, <1>6 DEF SeatIInv, PendFits, Live
<1>18. NewsFit'
  BY <1>4 DEF SeatIInv, NewsFit, On
<1>19. Settles'
  BY <1>3, <1>4 DEF SeatIInv, Settles, Live, Pending
<1> QED BY <1>7, <1>8, <1>9, <1>10, <1>11, <1>12, <1>13, <1>14, <1>15, <1>16, <1>17, <1>18, <1>19
        DEF SeatIInv

\* setProfile.
LEMMA SetProfileKeeps == ASSUME SeatIInv, SetProfile PROVE SeatIInv'
<1>1. Types
  BY DEF SeatIInv
<1>2. PICK m \in Question : /\ m.kind = "profile" /\ m.seat = phone.stored
                            /\ m.device = DeviceOf(phone)
                            /\ m.ask = phone.awaiting /\ up' = Append(up, m)
  BY <1>1, SetProfileDoes
<1>3. /\ linked /\ phone.connected /\ phone.player # 0 /\ phone' = phone
      /\ UNCHANGED <<conn, losses, timeouts, alive, open, round, seats, made, who>>
      /\ UNCHANGED <<linked, devices, refused, recoverable, down>>
  BY <1>1, SetProfileDoes DEF Fixed, roomVars
<1>4. phone.stored # 0 /\ m.device = phone.device /\ m.device # 0 /\ ~phone.ended
  BY <1>1, <1>2, <1>3 DEF DeviceOf, SeatIInv, PhoneFits
<1>5. up \in Seq(Question) /\ down \in Seq(Message)
  BY <1>1 DEF Types, TypeOK, Question, Message
<1>6. up' \in Seq(Question) /\ In(up') = In(up) \cup {m}
  BY <1>2, <1>5, LineAppend
<1>7. Types'
  BY <1>1, <1>2, <1>3, <1>4, <1>5, <1>6 DEF Types, TypeOK, Question, Message
<1>8. PhoneFits'
  BY <1>3 DEF SeatIInv, PhoneFits
<1>9. AsksFit'
  BY SMTT(60), <1>1, <1>2, <1>3, <1>6 DEF SeatIInv, AsksFit, PhoneFits, Types, TypeOK
<1>10. RoomFits'
  BY <1>3 DEF SeatIInv, RoomFits
<1>11. LineFits'
  BY <1>3 DEF SeatIInv, LineFits, Closing
<1>12. JoinsAlone'
  BY <1>2, <1>3, <1>6 DEF SeatIInv, JoinsAlone, Joining
<1>13. DevicesFit'
  BY <1>3 DEF SeatIInv, DevicesFit
<1>14. UpFits'
  BY <1>2, <1>3, <1>4, <1>6 DEF SeatIInv, UpFits, On, Live, Gone, Sits
<1>15. DownFits'
  BY <1>3 DEF SeatIInv, DownFits, Live, Gone, Sits, Closing, Pending
<1>16. EndedFits'
  BY <1>3, <1>4 DEF SeatIInv, EndedFits
<1>17. PendFits'
  BY <1>2, <1>3, <1>6 DEF SeatIInv, PendFits, Live
<1>18. NewsFit'
  BY <1>3 DEF SeatIInv, NewsFit, On
<1>19. Settles'
  BY <1>3 DEF SeatIInv, Settles, Live, Pending, Sits, Closing
<1> QED BY <1>7, <1>8, <1>9, <1>10, <1>11, <1>12, <1>13, <1>14, <1>15, <1>16, <1>17, <1>18, <1>19
        DEF SeatIInv
\* The session ends and the connection with it.
LEMMA EndKeeps ==
  ASSUME SeatIInv,
         phone' \in Phone, Over(phone'), phone'.device = devices + 1,
         phone'.awaiting = 0, ~phone'.connected,
         devices' = devices + 1, ~linked', ~recoverable', down' = <<>>,
         linked' \in BOOLEAN, recoverable' \in BOOLEAN, refused' \in BOOLEAN,
         Fixed, up' = up
  PROVE  SeatIInv'
<1>1. Types
  BY DEF SeatIInv
<1>2. /\ ~phone'.leaving /\ ~phone'.resuming /\ ~phone'.retry /\ phone'.stored = 0 /\ phone'.player = 0
      /\ phone'.ended
  BY DEF Over
<1>3. UNCHANGED <<conn, losses, timeouts, alive, open, round, seats, made, who>>
  BY DEF Fixed, roomVars
<1>4. /\ In(down') = {} /\ Sealed(down') /\ Told(down') /\ \A a : Refusing(down', a)
  BY EmptyLine
<1>5. devices \in Nat /\ devices' \in Nat /\ down' \in Seq(Message)
  BY SMTT(60), <1>1 DEF Types, TypeOK
<1>7. Types'
  BY SMTT(60), <1>1, <1>2, <1>3, <1>4, <1>5 DEF Types, TypeOK, Message
<1>8. PhoneFits'
  BY <1>2 DEF PhoneFits
<1>9. AsksFit'
  <2>1. losses \in Nat /\ timeouts \in Nat
    BY <1>1 DEF Types, TypeOK
  <2> QED BY <1>2, <1>3, <1>4, <2>1 DEF SeatIInv, AsksFit
<1>10. RoomFits'
  BY <1>3 DEF SeatIInv, RoomFits
<1>11. LineFits'
  BY <1>4 DEF LineFits, Closing
<1>12. JoinsAlone'
  BY <1>2, <1>4 DEF JoinsAlone
<1>13. DevicesFit'
  BY <1>2, <1>4 DEF DevicesFit
<1>14. UpFits'
  BY DEF UpFits, On, Live
<1>15. DownFits'
  BY <1>4 DEF DownFits
<1>16. EndedFits'
  BY <1>4 DEF EndedFits, Live
<1>17. PendFits'
  BY DEF PendFits, Live
<1>18. NewsFit'
  BY DEF NewsFit, On
<1>19. Settles'
  BY DEF Settles
<1> QED BY <1>7, <1>8, <1>9, <1>10, <1>11, <1>12, <1>13, <1>14, <1>15, <1>16, <1>17, <1>18, <1>19
        DEF SeatIInv

\* "Discard".
LEMMA DiscardKeeps == ASSUME SeatIInv, Discard PROVE SeatIInv'
<1>1. Types /\ EndSession
  BY DEF SeatIInv, Discard
<1>2. refused' \in BOOLEAN /\ Fixed /\ up' = up
  BY <1>1 DEF Discard, Types, TypeOK, Fixed
<1> QED BY <1>1, <1>2, EndDoes, EndKeeps

\* connect.
LEMMA ConnectKeeps == ASSUME SeatIInv, Connect PROVE SeatIInv'
<1> DEFINE resumes == phone.stored # 0 /\ ~phone.ended /\ ~phone.leaving
<1>1. Types
  BY DEF SeatIInv
<1>2. /\ ~linked /\ linked' /\ ~recoverable' /\ ~refused' /\ conn' \in alive'
      /\ linked' \in BOOLEAN /\ recoverable' \in BOOLEAN /\ refused' \in BOOLEAN
      /\ alive' = alive \cup {conn'}
      /\ \/ recoverable /\ conn' = conn /\ who' = who /\ down' = down
         \/ conn' = conn + 1 /\ who' = 0 /\ down' = <<>>
      /\ phone' \in Phone /\ (phone'.connected <=> phone.stored = 0)
      /\ UNCHANGED <<phone.stored, phone.device, phone.ended, phone.leaving, phone.player, phone.shown>>
  BY <1>1, ConnectDoes
<1>3. UNCHANGED <<devices, losses, timeouts, open, round, seats, made>>
  BY <1>1, ConnectDoes DEF roomVars
<1>4. /\ resumes => /\ phone'.resuming /\ ~phone'.retry /\ phone'.awaiting = losses + timeouts + 1
                    /\ \E m \in Question : /\ m.kind = "resume" /\ m.seat = phone.stored
                                           /\ m.device = DeviceOf(phone)
                                           /\ m.ask = phone'.awaiting /\ up' = <<m>>
      /\ ~resumes => /\ UNCHANGED <<phone.resuming, phone.retry, phone.awaiting>>
                     /\ up' = <<>>
  BY <1>1, ConnectDoes
<1>5. /\ phone.player \in {0, phone.stored} /\ (phone.stored # 0 => phone.device # 0)
      /\ (phone.ended => phone.stored = 0 /\ ~phone.retry) /\ (phone.leaving => phone.stored # 0)
      /\ phone.awaiting = 0 /\ ~phone.retry
  BY <1>2 DEF SeatIInv, PhoneFits
\* At most one question is on its way, the resume.
<1>6. /\ up' \in Seq(Question)
      /\ \A q \in In(up') : /\ resumes /\ q.kind = "resume" /\ q.seat = phone.stored
                            /\ q.device = phone.device /\ q.ask = phone'.awaiting
      /\ resumes => \E q \in In(up') : q.kind = "resume" /\ q.ask = phone'.awaiting
  <2>1. CASE resumes
    <3>1. PICK m \in Question : /\ m.kind = "resume" /\ m.seat = phone.stored
                                /\ m.device = DeviceOf(phone)
                                /\ m.ask = phone'.awaiting /\ up' = <<m>>
      BY <1>4, <2>1
    <3>2. m.device = phone.device
      BY <1>5, <2>1, <3>1 DEF DeviceOf
    <3>3. up' \in Seq(Question) /\ In(up') = {m}
      BY <3>1, OneInLine
    <3> QED BY <2>1, <3>1, <3>2, <3>3
  <2>2. CASE ~resumes
    <3>1. up' = <<>>
      BY <1>4, <2>2
    <3>2. In(up') = {} /\ up' \in Seq(Question)
      BY <3>1, EmptyLine
    <3> QED BY <2>2, <3>2
  <2> QED BY <2>1, <2>2
\* What is kept of the old connection are events.
<1>7. /\ down' \in Seq(Message) /\ Sealed(down') /\ Told(down')
      /\ \A m \in In(down') : m \in In(down) /\ m.kind \in Events
      /\ \A a : Refusing(down', a)
  <2>1. /\ down \in Seq(Message) /\ Sealed(down) /\ Told(down)
        /\ \A m \in In(down) : m.kind \in Events
    BY <1>1, <1>2 DEF Types, TypeOK, Message, SeatIInv, LineFits
  <2>2. /\ <<>> \in Seq(Message) /\ In(<<>>) = {} /\ Sealed(<<>>) /\ Told(<<>>)
        /\ \A a : Refusing(<<>>, a)
    BY EmptyLine
  <2>3. \A a : Refusing(down, a)
    <3>1. \A i \in 1..Len(down) : down[i].kind # "resume-error"
      BY <2>1 DEF In, Events
    <3> QED BY <3>1 DEF Refusing
  <2> QED BY <1>2, <2>1, <2>2, <2>3
<1>8. losses \in Nat /\ timeouts \in Nat
  BY <1>1 DEF Types, TypeOK
<1>9. Types'
  <2>1. conn' \in Nat /\ alive' \subseteq 1..conn'
    <3>1. conn \in Nat /\ alive \subseteq 1..conn /\ (recoverable => conn # 0)
      BY <1>1 DEF Types, TypeOK
    <3>2. conn' \in Nat /\ conn <= conn' /\ conn' # 0
      BY <1>2, <3>1
    <3> QED BY <1>2, <3>1, <3>2
  <2>2. \A m \in In(down') : m.seat <= made' /\ (m.kind \in Seating => m.seat \in 1..made')
    BY <1>1, <1>3, <1>7 DEF Types
  <2>3. \A q \in In(up') : q.device # 0 /\ q.seat <= made' /\ q.seat # 0
    BY <1>1, <1>3, <1>5, <1>6 DEF Types, TypeOK
  <2>4. TypeOK'
    <3>1. who' \in Number \cup {0} /\ who' \in Nat
      BY <1>1, <1>2 DEF Types, TypeOK
    <3>2. down' \in Seq([kind : Events \cup Acks, seat : Nat, round : Nat, ask : Nat])
      BY <1>7 DEF Message
    <3>3. up' \in Seq([kind : {"join", "resume", "leave", "profile"}, seat : Nat, device : Nat, ask : Nat])
      BY <1>6 DEF Question
    <3> QED BY <1>1, <1>2, <1>3, <2>1, <3>1, <3>2, <3>3 DEF Types, TypeOK
  <2> QED BY <1>2, <2>2, <2>3, <2>4 DEF Types
<1>10. PhoneFits'
  BY <1>2, <1>4, <1>5 DEF PhoneFits
<1>11. AsksFit'
  <2>1. phone'.awaiting \in {0, losses + timeouts + 1} /\ ~phone'.retry
    BY <1>4, <1>5
  <2>2. \A q \in In(up') : q.ask = losses + timeouts + 1
    BY <1>4, <1>6
  <2>3. \A m \in In(down') : m.ask <= losses + timeouts + 1
                             /\ (m.kind \in {"resume", "resume-ok", "resume-error"} => m.ask # 0)
    BY <1>7 DEF SeatIInv, AsksFit
  <2> QED BY <1>3, <1>8, <2>1, <2>2, <2>3 DEF AsksFit
<1>12. RoomFits'
  BY <1>3 DEF SeatIInv, RoomFits
<1>13. LineFits'
  BY <1>2, <1>3, <1>7 DEF SeatIInv, LineFits, Closing
<1>14. JoinsAlone'
  <2>1. ~Joining'
    BY <1>6, <1>7 DEF Joining, Events
  <2> QED BY <1>2, <1>4, <1>5, <2>1 DEF JoinsAlone
<1>15. DevicesFit'
  BY <1>2, <1>3, <1>7 DEF SeatIInv, DevicesFit
<1>16. UpFits'
  BY <1>2, <1>6 DEF UpFits
<1>17. DownFits'
  <2>1. ASSUME NEW m \in In(down'), m.kind \in Seating
        PROVE  /\ m.kind = "resumed" /\ m.seat = phone'.stored /\ m.seat # 0
               /\ \A n \in In(down') : n.kind \in Seating => m.seat = n.seat
    <3>1. m \in In(down) /\ m.kind = "resumed"
      BY <1>7, <2>1 DEF Events, Seating
    <3>2. m.seat = phone.stored /\ m.seat # 0
      BY <1>1, <2>1, <3>1 DEF SeatIInv, DownFits, Types
    <3> QED BY <1>2, <1>7, <2>1, <3>1, <3>2 DEF SeatIInv, DownFits
  <2>2. phone.stored # 0 => Pending'
    BY <1>2, <1>4, <1>5, <1>8 DEF Pending
  <2>3. \A m \in In(down') : m.kind # "resume-error"
    BY <1>7 DEF Events
  <2> QED BY <1>2, <2>1, <2>2, <2>3 DEF DownFits
<1>18. EndedFits'
  <2>1. \A m \in In(down') : m.kind \notin {"joined", "profile-ok"}
    BY <1>7 DEF Events
  <2>2. phone'.ended => \A q \in In(up') : FALSE
    BY <1>2, <1>6
  <2> QED BY <2>1, <2>2 DEF EndedFits
<1>19. PendFits'
  <2>1. phone'.awaiting # 0 => resumes
    BY <1>4, <1>5
  <2>2. phone'.leaving => ~phone'.connected
    BY <1>2, <1>5
  <2>3. (\A q \in In(up') : q.kind # "join") /\ (\A m \in In(down') : m.kind # "joined")
    BY <1>6, <1>7 DEF Events
  <2> QED BY <1>6, <2>1, <2>2, <2>3 DEF PendFits
<1>20. NewsFit'
  <2>1. CASE recoverable /\ conn' = conn /\ who' = who /\ down' = down
    <3>1. On
      BY <1>2, <2>1 DEF On
    <3> QED BY <1>3, <2>1, <3>1 DEF SeatIInv, NewsFit
  <2>2. CASE down' = <<>>
    BY <2>2, EmptyLine DEF NewsFit
  <2> QED BY <1>2, <2>1, <2>2
<1>21. Settles'
  BY <1>2 DEF Settles
<1> QED BY <1>9, <1>10, <1>11, <1>12, <1>13, <1>14, <1>15, <1>16, <1>17, <1>18, <1>19, <1>20, <1>21
        DEF SeatIInv

\* The eight seconds.
LEMMA TimesOutKeeps == ASSUME SeatIInv, ResumeTimesOut PROVE SeatIInv'
<1>1. Types
  BY DEF SeatIInv
<1>2. /\ linked /\ phone.awaiting # 0 /\ timeouts' = timeouts + 1
      /\ phone' \in Phone /\ phone'.awaiting = 0
      /\ UNCHANGED <<phone.stored, phone.device, phone.ended, phone.leaving, phone.player,
                     phone.shown>>
      /\ IF Ignoring THEN UNCHANGED <<phone.resuming, phone.retry, phone.connected>>
         ELSE ~phone'.resuming /\ phone'.retry /\ ~phone'.connected
      /\ UNCHANGED <<conn, losses, alive, who, linked, devices, refused, recoverable,
                     up, down>>
      /\ UNCHANGED <<open, round, seats, made>>
  BY <1>1, TimesOutDoes DEF roomVars
<1>3. /\ phone.retry => FALSE
      /\ phone.ended => phone.stored = 0 /\ ~phone.leaving
      /\ linked => ~recoverable
  BY <1>2 DEF SeatIInv, PhoneFits
<1>4. /\ ~phone.ended /\ ~phone.leaving => ~phone'.resuming /\ phone'.retry /\ ~phone'.connected
      /\ phone.ended \/ phone.leaving => UNCHANGED <<phone.resuming, phone.retry, phone.connected>>
  BY <1>2 DEF Ignoring
<1>5. losses \in Nat /\ timeouts \in Nat /\ timeouts' \in Nat
  BY <1>1, <1>2 DEF Types, TypeOK
<1>6. Types'
  BY <1>1, <1>2, <1>5 DEF Types, TypeOK
<1>7. PhoneFits'
  BY <1>2, <1>3, <1>4 DEF SeatIInv, PhoneFits
<1>8. AsksFit'
  <2>1. ASSUME NEW m \in In(up) \cup In(down)
        PROVE  /\ m.ask <= losses' + timeouts' + 1 /\ m.ask <= losses' + timeouts'
               /\ m.kind \in {"resume", "resume-ok", "resume-error"} => m.ask # 0
    <3>1. m.ask \in Nat
      <4>1. up \in Seq(Question) /\ down \in Seq(Message)
        BY <1>1 DEF Types, TypeOK, Question, Message
      <4>2. m \in Question \/ m \in Message
        BY <2>1, <4>1 DEF In
      <4> QED BY <4>2 DEF Question, Message
    <3> QED BY <1>2, <1>5, <2>1, <3>1 DEF SeatIInv, AsksFit
  <2> QED BY <1>2, <1>5, <2>1 DEF AsksFit
<1>9. RoomFits'
  BY <1>2 DEF SeatIInv, RoomFits
<1>10. LineFits'
  <2>1. Refusing(down, 0)
    <3>1. \A m \in In(down) : m.kind = "resume-error" => m.ask # 0
      BY DEF SeatIInv, AsksFit
    <3> QED BY <3>1 DEF Refusing, In
  <2> QED BY <1>2, <2>1 DEF SeatIInv, LineFits, Closing
<1>11. JoinsAlone'
  BY <1>2, <1>3 DEF SeatIInv, JoinsAlone, Joining
<1>12. DevicesFit'
  BY <1>2 DEF SeatIInv, DevicesFit
<1>13. UpFits'
  <2>1. \A m \in In(up) : m.kind = "resume" => m.ask # 0
    BY DEF SeatIInv, AsksFit
  <2> QED BY <1>2, <2>1 DEF SeatIInv, UpFits, On, Live, Gone, Sits
<1>14. DownFits'
  <2>1. \A m \in In(down) : m.kind = "resume-error" => m.ask # 0
    BY DEF SeatIInv, AsksFit
  <2>2. \A m \in In(down) : m.kind \in Seating => m.seat # 0
    BY <1>1 DEF Types
  <2>3. phone.stored # 0 => Pending'
    BY <1>2, <1>3, <1>4 DEF Pending
  <2>4. \A m \in In(down) : m.kind \in Seating =>
          /\ phone.stored # 0 => m.seat = phone.stored
          /\ m.kind = "resumed" => m.seat = phone.stored
          /\ \A n \in In(down) : n.kind \in Seating => m.seat = n.seat
    BY DEF SeatIInv, DownFits
  <2>5. Live => \A m \in In(down) : m.kind \in Seating =>
          Sits(m.seat) \/ Closing \/ m.kind = "resumed"
    BY DEF SeatIInv, DownFits
  <2>6. Live' = Live /\ Closing' = Closing /\ \A s : Sits(s)' = Sits(s)
    BY <1>2 DEF Live, Closing, Sits
  <2>7. Live' => \A m \in In(down) : m.kind \in Seating =>
          Sits(m.seat)' \/ Closing' \/ (m.kind = "resumed" /\ Pending')
    BY <2>2, <2>3, <2>4, <2>5, <2>6
  <2> QED BY <1>2, <2>1, <2>4, <2>7 DEF DownFits
<1>15. EndedFits'
  BY <1>2 DEF SeatIInv, EndedFits, Live, Gone
<1>16. PendFits'
  BY <1>2, <1>4 DEF SeatIInv, PendFits, Live
<1>17. NewsFit'
  BY <1>2 DEF SeatIInv, NewsFit, On
<1>18. Settles'
  BY <1>2, <1>3, <1>4 DEF SeatIInv, Settles, Live, Pending, Sits, Closing
<1> QED BY <1>6, <1>7, <1>8, <1>9, <1>10, <1>11, <1>12, <1>13, <1>14, <1>15, <1>16, <1>17, <1>18
        DEF SeatIInv

\* The two seconds.
LEMMA RetryKeeps == ASSUME SeatIInv, Retry PROVE SeatIInv'
<1> DEFINE idle == phone.resuming \/ phone.leaving \/ phone.stored = 0
<1>1. Types
  BY DEF SeatIInv
<1>2. /\ phone.retry /\ phone' \in Phone /\ ~phone'.retry
      /\ UNCHANGED <<phone.stored, phone.device, phone.connected, phone.player, phone.shown>>
      /\ UNCHANGED <<conn, losses, timeouts, alive, open, round, seats, made, who>>
      /\ UNCHANGED <<linked, devices, refused, recoverable, down>>
  BY <1>1, RetryDoes DEF Fixed, roomVars
<1>3. /\ idle => /\ up' = up
                 /\ UNCHANGED <<phone.ended, phone.leaving, phone.resuming, phone.awaiting>>
      /\ ~idle => /\ ~phone'.ended /\ ~phone'.leaving /\ phone'.resuming
                  /\ phone'.awaiting = losses + timeouts + 1
                  /\ \E m \in Question : /\ m.kind = "resume" /\ m.seat = phone.stored
                                         /\ m.device = DeviceOf(phone)
                                         /\ m.ask = phone'.awaiting /\ up' = Append(up, m)
  BY <1>1, RetryDoes
<1>4. /\ ~phone.resuming /\ phone.awaiting = 0 /\ linked /\ ~phone.ended /\ ~recoverable
      /\ phone.stored # 0 => phone.device # 0
  BY <1>2 DEF SeatIInv, PhoneFits
<1>5. losses \in Nat /\ timeouts \in Nat /\ up \in Seq(Question) /\ down \in Seq(Message)
  BY <1>1 DEF Types, TypeOK, Question, Message
\* No question or answer has the number of the next one yet.
<1>6. \A m \in In(up) \cup In(down) : m.ask # losses + timeouts + 1
  <2>1. ASSUME NEW m \in In(up) \cup In(down) PROVE m.ask \in Nat /\ m.ask <= losses + timeouts
    <3>1. m \in Question \/ m \in Message
      BY <1>5, <2>1 DEF In
    <3> QED BY <1>2, <2>1, <3>1 DEF SeatIInv, AsksFit, Question, Message
  <2> QED BY <1>5, <2>1
<1>7. ~Joining /\ (phone.stored = 0 => ~open)
  BY <1>2 DEF SeatIInv, JoinsAlone
\* The question that is added, if any.
<1>8. /\ up' \in Seq(Question) /\ In(up) \subseteq In(up')
      /\ \A q \in In(up') \ In(up) : /\ q.kind = "resume" /\ q.seat = phone.stored /\ phone.stored # 0
                                     /\ q.device = phone.device /\ q.ask = phone'.awaiting
                                     /\ q.ask = losses + timeouts + 1
      /\ ~idle => \E q \in In(up') : q.kind = "resume" /\ q.ask = phone'.awaiting
  <2>1. CASE ~idle
    <3>1. PICK m \in Question : /\ m.kind = "resume" /\ m.seat = phone.stored
                                /\ m.device = DeviceOf(phone)
                                /\ m.ask = phone'.awaiting /\ up' = Append(up, m)
      BY <1>3, <2>1
    <3>2. m.device = phone.device
      BY <1>4, <2>1, <3>1 DEF DeviceOf
    <3>3. up' \in Seq(Question) /\ In(up') = In(up) \cup {m}
      BY <1>5, <3>1, LineAppend
    <3> QED BY <1>3, <2>1, <3>1, <3>2, <3>3
  <2>2. CASE idle
    BY <1>3, <1>5, <2>2
  <2> QED BY <2>1, <2>2
<1>9. phone'.awaiting \in {0, losses + timeouts + 1} /\ (~idle => phone'.awaiting = losses + timeouts + 1)
  BY <1>3, <1>4
<1>10. Types'
  <2>1. \A q \in In(up') : q.device # 0 /\ q.seat <= made' /\ (q.kind \in {"resume", "profile"} => q.seat # 0)
    BY <1>1, <1>2, <1>4, <1>8 DEF Types, TypeOK
  <2> QED BY <1>1, <1>2, <1>5, <1>8, <2>1 DEF Types, TypeOK, Question
<1>11. PhoneFits'
  BY <1>2, <1>3, <1>4 DEF SeatIInv, PhoneFits
<1>12. AsksFit'
  <2>1. ASSUME NEW m \in In(up') \cup In(down')
        PROVE  /\ m.ask <= losses + timeouts + 1
               /\ m.kind \in {"resume", "resume-ok", "resume-error"} => m.ask # 0
    <3>1. CASE m \in In(up') \ In(up)
      <4>1. m.ask = losses + timeouts + 1
        BY <1>8, <3>1
      <4> QED BY <1>5, <4>1
    <3>2. CASE m \in In(up) \cup In(down)
      BY <3>2 DEF SeatIInv, AsksFit
    <3> QED BY <1>2, <2>1, <3>1, <3>2
  <2> QED BY <1>2, <1>5, <1>9, <2>1 DEF AsksFit
<1>13. RoomFits'
  BY <1>2 DEF SeatIInv, RoomFits
<1>14. LineFits'
  <2>1. Refusing(down, phone'.awaiting)
    <3>1. \A i \in 1..Len(down) : down[i].ask # losses + timeouts + 1
                                  /\ (down[i].kind = "resume-error" => down[i].ask # 0)
      BY <1>6 DEF In, SeatIInv, AsksFit
    <3> QED BY <1>9, <3>1 DEF Refusing
  <2> QED BY <1>2, <2>1 DEF SeatIInv, LineFits, Closing
<1>15. JoinsAlone'
  <2>1. ~Joining'
    BY <1>2, <1>7, <1>8 DEF Joining
  <2>2. phone'.stored = 0 => ~open'
    BY <1>2, <1>7
  <2> QED BY <2>1, <2>2 DEF JoinsAlone
<1>16. DevicesFit'
  BY <1>2 DEF SeatIInv, DevicesFit
<1>17. UpFits'
  <2>1. On' = On /\ Live' = Live
    BY <1>2 DEF On, Live
  <2>2. ASSUME On, open, NEW q \in In(up'), q.kind \in {"resume", "profile"}
        PROVE  /\ Gone(q.seat)' \/ (q.seat = phone'.stored /\ q.device = phone'.device)
               /\ q.kind = "resume" /\ q.ask = phone'.awaiting => q.seat = phone'.stored
    <3>1. CASE q \in In(up)
      <4>1. Gone(q.seat)' \/ (q.seat = phone'.stored /\ q.device = phone'.device)
        BY <1>2, <2>2, <3>1 DEF SeatIInv, UpFits, Gone
      <4>2. q.kind = "resume" => q.ask # losses + timeouts + 1 /\ q.ask # 0
        BY <1>6, <3>1 DEF SeatIInv, AsksFit
      <4> QED BY <1>9, <4>1, <4>2
    <3>2. CASE q \notin In(up)
      BY <1>2, <1>8, <2>2, <3>2
    <3> QED BY <3>1, <3>2
  <2>3. ASSUME Live, open, NEW q \in In(up'), q.kind = "join"
        PROVE  FALSE
    BY <1>7, <1>8, <2>3 DEF Joining, Live
  <2> QED BY <1>2, <2>1, <2>2, <2>3 DEF UpFits
<1>18. DownFits'
  <2>1. \A m \in In(down) : m.kind = "resume-error" => m.ask # 0 /\ m.ask # losses + timeouts + 1
    BY <1>6 DEF SeatIInv, AsksFit
  <2>2. \A m \in In(down) : m.kind \in Seating => m.seat # 0
    BY <1>1 DEF Types
  <2>3. phone.stored # 0 => Pending'
    BY <1>3, <1>4, <1>5, <1>9 DEF Pending
  <2>4. \A m \in In(down) : m.kind \in Seating =>
          /\ phone.stored # 0 => m.seat = phone.stored
          /\ m.kind = "resumed" => m.seat = phone.stored
          /\ \A n \in In(down) : n.kind \in Seating => m.seat = n.seat
    BY DEF SeatIInv, DownFits
  <2>5. Live => \A m \in In(down) : m.kind \in Seating =>
          Sits(m.seat) \/ Closing \/ m.kind = "resumed"
    BY DEF SeatIInv, DownFits
  <2>6. Live' = Live /\ Closing' = Closing /\ \A s : Sits(s)' = Sits(s)
    BY <1>2 DEF Live, Closing, Sits
  <2>7. Live' => \A m \in In(down) : m.kind \in Seating =>
          Sits(m.seat)' \/ Closing' \/ (m.kind = "resumed" /\ Pending')
    BY <2>2, <2>3, <2>4, <2>5, <2>6
  <2> QED BY <1>2, <1>9, <2>1, <2>4, <2>7 DEF DownFits
<1>19. EndedFits'
  BY <1>2, <1>3, <1>4 DEF EndedFits
<1>20. PendFits'
  <2>1. CASE ~idle
    BY <1>3, <1>8, <2>1 DEF PendFits
  <2>2. CASE idle
    BY <1>2, <1>3, <1>4, <2>2 DEF SeatIInv, PendFits, Live
  <2> QED BY <2>1, <2>2
<1>21. NewsFit'
  BY <1>2 DEF SeatIInv, NewsFit, On
<1>22. Settles'
  <2>1. phone.stored # 0 => Pending'
    BY <1>3, <1>4, <1>5, <1>9 DEF Pending
  <2>2. phone.stored # 0 /\ phone.leaving => phone'.leaving
    BY <1>3
  <2> QED BY <1>2, <2>1, <2>2 DEF SeatIInv, Settles, Live
<1> QED BY <1>10, <1>11, <1>12, <1>13, <1>14, <1>15, <1>16, <1>17, <1>18, <1>19, <1>20, <1>21, <1>22
        DEF SeatIInv

\* The connection breaks.
LEMMA LoseKeeps == ASSUME SeatIInv, NEW reload \in BOOLEAN, LoseConnection(reload) PROVE SeatIInv'
<1>1. Types
  BY DEF SeatIInv
<1>2. /\ linked /\ ~linked' /\ losses' = losses + 1 /\ linked' \in BOOLEAN
      /\ recoverable' \in BOOLEAN /\ (recoverable' => ~reload /\ conn \in alive)
      /\ phone' \in Phone /\ phone'.awaiting = 0 /\ ~phone'.retry /\ ~phone'.connected
      /\ ~phone'.resuming
      /\ UNCHANGED <<phone.stored, phone.device>>
      /\ IF reload
         THEN ~phone'.ended /\ ~phone'.leaving /\ phone'.player = 0
         ELSE UNCHANGED <<phone.ended, phone.leaving, phone.player>>
      /\ UNCHANGED <<conn, timeouts, alive, up, open, round, seats, made, who, devices, refused>>
  BY <1>1, LoseDoes DEF roomVars
<1>3. /\ phone'.ended => phone.ended
      /\ phone'.leaving => phone.leaving
      /\ phone'.player \in {0, phone.player}
  BY <1>2
<1>4. /\ down \in Seq(Message) /\ up \in Seq(Question) /\ OnlyEventsStay
      /\ losses \in Nat /\ timeouts \in Nat /\ losses' \in Nat
  BY SMTT(60), <1>1, <1>2, LoseDoes DEF Types, TypeOK, Message, Question
<1>5. /\ down' \in Seq(Message)
      /\ \A m \in In(down') : m \in In(down) /\ m.kind \in Events
      /\ \A m \in In(down) : m.kind \in Events => m \in In(down')
      /\ Sealed(down') /\ Told(down')
      /\ \A a : Refusing(down', a) /\ (Newest(down, a) => Newest(down', a))
  BY <1>4, EventsStay DEF SeatIInv, LineFits
<1>6. Types'
  <2>1. recoverable' => conn' # 0
    BY <1>1, <1>2 DEF Types, TypeOK
  <2> QED BY <1>1, <1>2, <1>4, <1>5, <2>1 DEF Types, TypeOK, Message
<1>7. PhoneFits'
  BY <1>2, <1>3 DEF SeatIInv, PhoneFits
<1>8. AsksFit'
  <2>1. ASSUME NEW m \in In(up) \cup In(down)
        PROVE  /\ m.ask <= losses' + timeouts' + 1
               /\ m.kind \in {"resume", "resume-ok", "resume-error"} => m.ask # 0
    <3>1. m.ask \in Nat
      <4>1. m \in Question \/ m \in Message
        BY <1>4, <2>1 DEF In
      <4> QED BY <4>1 DEF Question, Message
    <3> QED BY <1>2, <1>4, <2>1, <3>1 DEF SeatIInv, AsksFit
  <2> QED BY <1>2, <1>4, <1>5, <2>1 DEF AsksFit
<1>9. RoomFits'
  BY <1>2 DEF SeatIInv, RoomFits
<1>10. LineFits'
  BY <1>2, <1>5 DEF SeatIInv, LineFits, Closing
<1>11. JoinsAlone'
  BY <1>2 DEF JoinsAlone
<1>12. DevicesFit'
  BY <1>2, <1>5 DEF SeatIInv, DevicesFit
<1>13. UpFits'
  <2>1. On' => On
    BY <1>2 DEF On
  <2>2. ~Live'
    BY <1>2 DEF Live
  <2>3. \A m \in In(up) : m.kind = "resume" => m.ask # 0
    BY DEF SeatIInv, AsksFit
  <2> QED BY <1>2, <2>1, <2>2, <2>3 DEF SeatIInv, UpFits, Gone
<1>14. DownFits'
  <2>1. ~Live'
    BY <1>2 DEF Live
  <2> QED BY <1>2, <1>5, <2>1 DEF SeatIInv, DownFits
<1>15. EndedFits'
  BY <1>2 DEF EndedFits, Live
<1>16. PendFits'
  BY <1>2 DEF PendFits, Live
<1>17. NewsFit'
  <2>1. On' => On
    BY <1>2 DEF On
  <2> QED BY <1>2, <1>5, <2>1 DEF SeatIInv, NewsFit
<1>18. Settles'
  BY <1>2 DEF Settles
<1> QED BY <1>6, <1>7, <1>8, <1>9, <1>10, <1>11, <1>12, <1>13, <1>14, <1>15, <1>16, <1>17, <1>18
        DEF SeatIInv
\* A message is taken from the line, and the connection stays.
Hearing(m) ==
  /\ linked /\ m \in Message /\ phone' \in Phone
  /\ refused' = (refused \/ m.kind = "leave-error")
  /\ UNCHANGED <<conn, losses, timeouts, alive, open, round, seats, made, who,
                 linked, recoverable, up>>
  /\ down' \in Seq(Message) /\ In(down) = In(down') \cup {m}
  /\ Sealed(down') /\ Told(down')
  /\ m.kind = "closed" => \A n \in In(down') : n.kind \notin Seating
  /\ m.kind \in Seating => m.seat \in 1..made /\ \E n \in In(down') : n.kind = "room"
  /\ Refusing(down', phone.awaiting) /\ Refusing(down', 0)
  /\ m.kind = "resume-error" /\ m.ask = phone.awaiting => \A n \in In(down') : n.kind \notin Seating
  /\ Newest(down, round) => Newest(down', round)
  /\ Newest(down, round) /\ m.kind = "room" /\ m.round # round
         => \E n \in In(down') : n.kind = "room"
  /\ m.kind \in {"resume-ok", "resume-error"} => m.ask # 0

LEMMA ReceiveHears ==
  ASSUME SeatIInv, Receive, Head(down).kind \notin {"left", "terminated"}
  PROVE  Hearing(Head(down)) /\ Reaction(Head(down))
<1> DEFINE m == Head(down)
<1>1. Types
  BY DEF SeatIInv
<1>2. down \in Seq(Message)
  BY <1>1 DEF Types, TypeOK, Message
<1>3. /\ linked /\ down # <<>> /\ m \in Message /\ phone' \in Phone /\ Reaction(m)
      /\ refused' = (refused \/ m.kind = "leave-error")
      /\ down' = Tail(down) /\ UNCHANGED <<linked, recoverable>>
      /\ UNCHANGED <<conn, losses, timeouts, alive, open, round, seats, made, who, up>>
  BY <1>1, ReceiveDoes DEF Fixed, roomVars
<1>4. Sealed(down) /\ Told(down) /\ Refusing(down, phone.awaiting)
  BY DEF SeatIInv, LineFits
<1>5. /\ down' \in Seq(Message) /\ In(down) = In(down') \cup {m}
      /\ Sealed(down') /\ (m.kind = "closed" => \A n \in In(down') : n.kind \notin Seating)
  BY <1>2, <1>3, <1>4, LineTail
<1>6. Told(down') /\ (m.kind \in Seating => \E n \in In(down') : n.kind = "room")
  BY <1>2, <1>3, <1>4, LineTail
<1>7. /\ Refusing(down', phone.awaiting)
      /\ m.kind = "resume-error" /\ m.ask = phone.awaiting
             => \A n \in In(down') : n.kind \notin Seating
  BY <1>2, <1>3, <1>4, LineTail
<1>8. /\ Newest(down, round) => Newest(down', round)
      /\ Newest(down, round) /\ m.kind = "room" /\ m.round # round
             => \E n \in In(down') : n.kind = "room"
  BY <1>2, <1>3, LineTail
<1>9. \A n \in In(down) : /\ n.kind \in {"resume-ok", "resume-error"} => n.ask # 0
                          /\ n.kind \in Seating => n.seat \in 1..made
  BY <1>1 DEF SeatIInv, AsksFit, Types
<1>10. Refusing(down', 0)
  <2>1. \A n \in In(down') : n.kind = "resume-error" => n.ask # 0
    BY <1>5, <1>9
  <2> QED BY <2>1 DEF Refusing, In
<1>11. m \in In(down)
  BY <1>5
<1> HIDE DEF m
<1>12. Hearing(m)
  BY <1>3, <1>5, <1>6, <1>7, <1>8, <1>9, <1>10, <1>11 DEF Hearing
<1> QED BY <1>3, <1>12 DEF m

\* What every message leaves right.
LEMMA HearingKeeps ==
  ASSUME SeatIInv, NEW m, Hearing(m),
         devices' \in Nat, phone'.device <= devices', phone'.stored <= made,
         phone'.awaiting \in {0, phone.awaiting}, phone'.retry => phone.retry
  PROVE  Types' /\ AsksFit' /\ RoomFits' /\ LineFits' /\ NewsFit'
<1>1. Types
  BY DEF SeatIInv
<1>2. /\ linked /\ phone' \in Phone /\ refused' = (refused \/ m.kind = "leave-error")
      /\ UNCHANGED <<conn, losses, timeouts, alive, open, round, seats, made, who,
                     linked, recoverable, up>>
      /\ down' \in Seq(Message) /\ In(down) = In(down') \cup {m}
      /\ Sealed(down') /\ Told(down')
      /\ Refusing(down', phone.awaiting) /\ Refusing(down', 0)
      /\ Newest(down, round) => Newest(down', round)
  BY DEF Hearing
<1>3. losses \in Nat /\ timeouts \in Nat /\ phone.awaiting \in Nat
  BY <1>1 DEF Types, TypeOK, Phone
<1>4. Types'
  <2>1. refused' \in BOOLEAN
    BY <1>1, <1>2 DEF Types, TypeOK
  <2> QED BY <1>1, <1>2, <2>1 DEF Types, TypeOK, Message
<1>5. AsksFit'
  BY <1>2, <1>3 DEF SeatIInv, AsksFit
<1>6. RoomFits'
  BY <1>2 DEF SeatIInv, RoomFits
<1>7. LineFits'
  BY <1>2 DEF SeatIInv, LineFits, Closing
<1>8. NewsFit'
  BY <1>2 DEF SeatIInv, NewsFit, On
<1> QED BY <1>4, <1>5, <1>6, <1>7, <1>8

\* A message that changes nothing.
LEMMA IdleKeeps ==
  ASSUME SeatIInv, NEW m, Hearing(m), phone' = phone, devices' = devices,
         m.kind \in {"room", "resumed"} => phone.ended \/ phone.leaving,
         m.kind \in {"resume-ok", "resume-error"} => m.ask # phone.awaiting,
         m.kind \notin {"closed", "joined", "profile-ok", "leave-error"}
  PROVE  SeatIInv'
<1>1. Types
  BY DEF SeatIInv
<1>2. /\ linked /\ refused' = (refused \/ m.kind = "leave-error")
      /\ UNCHANGED <<conn, losses, timeouts, alive, open, round, seats, made, who,
                     linked, recoverable, up>>
      /\ In(down) = In(down') \cup {m}
  BY DEF Hearing
<1>3. Types' /\ AsksFit' /\ RoomFits' /\ LineFits' /\ NewsFit'
  <2>1. devices' \in Nat /\ phone'.device <= devices' /\ phone'.stored <= made
    BY <1>1 DEF Types, TypeOK
  <2> QED BY <2>1, HearingKeeps
<1>4. PhoneFits'
  BY <1>2 DEF SeatIInv, PhoneFits
<1>5. JoinsAlone'
  BY <1>2 DEF SeatIInv, JoinsAlone, Joining
<1>6. DevicesFit'
  BY <1>2 DEF SeatIInv, DevicesFit
<1>7. UpFits'
  BY <1>2 DEF SeatIInv, UpFits, On, Live, Gone, Sits
<1>8. DownFits'
  <2>1. Closing' = Closing /\ Live' = Live /\ Pending' = Pending
          /\ \A s : Sits(s)' = Sits(s) /\ Gone(s)' = Gone(s)
    BY <1>2 DEF Closing, Live, Pending, Sits, Gone
  <2> QED BY <1>2, <2>1 DEF SeatIInv, DownFits
<1>9. EndedFits'
  BY <1>2 DEF SeatIInv, EndedFits, Live, Gone
<1>10. PendFits'
  BY <1>2 DEF SeatIInv, PendFits, Live
<1>11. Settles'
  <2>1. phone.stored # 0 => ~phone.ended
    BY DEF SeatIInv, PhoneFits
  <2>2. Closing' = Closing /\ Live' = Live /\ Pending' = Pending /\ \A s : Sits(s)' = Sits(s)
    BY <1>2 DEF Closing, Live, Pending, Sits
  <2> QED BY <1>2, <2>1, <2>2 DEF SeatIInv, Settles
<1> QED BY <1>3, <1>4, <1>5, <1>6, <1>7, <1>8, <1>9, <1>10, <1>11 DEF SeatIInv

\* room:closed.
LEMMA ClosedKeeps ==
  ASSUME SeatIInv, NEW m, Hearing(m), m.kind = "closed",
         Over(phone'), phone'.device = devices + 1, devices' = devices + 1,
         UNCHANGED <<phone.awaiting, phone.connected, phone.shown>>
  PROVE  SeatIInv'
<1>1. Types
  BY DEF SeatIInv
<1>2. /\ linked /\ refused' = (refused \/ m.kind = "leave-error")
      /\ UNCHANGED <<conn, losses, timeouts, alive, open, round, seats, made, who,
                     linked, recoverable, up>>
      /\ In(down) = In(down') \cup {m}
      /\ \A n \in In(down') : n.kind \notin Seating
  BY DEF Hearing
<1>3. /\ ~phone'.leaving /\ ~phone'.resuming /\ ~phone'.retry /\ phone'.stored = 0 /\ phone'.player = 0
      /\ phone'.ended
  BY DEF Over
<1>4. ~open /\ ~open'
  BY <1>2 DEF SeatIInv, LineFits, Closing
<1>5. Types' /\ AsksFit' /\ RoomFits' /\ LineFits' /\ NewsFit'
  <2>1. devices' \in Nat /\ phone'.device <= devices' /\ phone'.stored <= made
    BY SMTT(60), <1>1, <1>3 DEF Types, TypeOK
  <2> QED BY <1>3, <2>1, HearingKeeps
<1>6. PhoneFits'
  BY <1>2, <1>3 DEF SeatIInv, PhoneFits
<1>7. JoinsAlone'
  BY <1>2, <1>3, <1>4 DEF JoinsAlone, Joining, Seating
<1>8. DevicesFit'
  BY <1>2, <1>3 DEF DevicesFit
<1>9. UpFits'
  BY <1>4 DEF UpFits
<1>10. DownFits'
  BY <1>2, <1>4 DEF DownFits
<1>11. EndedFits'
  BY <1>2, <1>4 DEF EndedFits, Seating
<1>12. PendFits'
  BY <1>2, <1>3 DEF SeatIInv, PendFits, Live
<1>13. Settles'
  BY <1>3 DEF Settles
<1> QED BY <1>5, <1>6, <1>7, <1>8, <1>9, <1>10, <1>11, <1>12, <1>13 DEF SeatIInv

\* News of the room.
LEMMA NewsKeeps ==
  ASSUME SeatIInv, NEW m, Hearing(m), m.kind = "room", devices' = devices,
         phone'.shown = m.round, phone'.player = IF phone.player = 0 THEN phone.stored ELSE phone.player,
         UNCHANGED <<phone.stored, phone.device, phone.ended, phone.leaving, phone.retry,
                     phone.awaiting, phone.resuming, phone.connected>>
  PROVE  SeatIInv'
<1>1. Types
  BY DEF SeatIInv
<1>2. /\ linked /\ refused' = refused
      /\ UNCHANGED <<conn, losses, timeouts, alive, open, round, seats, made, who,
                     linked, recoverable, up>>
      /\ In(down) = In(down') \cup {m}
      /\ Newest(down, round) /\ m.round # round => \E n \in In(down') : n.kind = "room"
  <2>1. refused \in BOOLEAN
    BY <1>1 DEF Types, TypeOK
  <2>2. refused' = refused
    BY <2>1 DEF Hearing
  <2> QED BY <2>2 DEF Hearing
<1>3. Types' /\ AsksFit' /\ RoomFits' /\ LineFits' /\ NewsFit'
  <2>1. devices' \in Nat /\ phone'.device <= devices' /\ phone'.stored <= made
    BY <1>1 DEF Types, TypeOK
  <2> QED BY <2>1, HearingKeeps
<1>4. PhoneFits'
  BY <1>2 DEF SeatIInv, PhoneFits
<1>5. JoinsAlone'
  BY <1>2 DEF SeatIInv, JoinsAlone, Joining
<1>6. DevicesFit'
  BY <1>2 DEF SeatIInv, DevicesFit
<1>7. UpFits'
  BY <1>2 DEF SeatIInv, UpFits, On, Live, Gone, Sits
<1>8. Closing' = Closing /\ Live' = Live /\ Pending' = Pending
        /\ \A s : Sits(s)' = Sits(s) /\ Gone(s)' = Gone(s)
  BY <1>2 DEF Closing, Live, Pending, Sits, Gone
<1>9. DownFits'
  BY <1>2, <1>8 DEF SeatIInv, DownFits, Seating
<1>10. EndedFits'
  BY <1>2, <1>8 DEF SeatIInv, EndedFits
<1>11. PendFits'
  BY <1>2, <1>8 DEF SeatIInv, PendFits
<1>12. Settles'
  <2>1. Live => Newest(down, round)
    BY DEF SeatIInv, NewsFit, Live, On
  <2>2. phone.player \in {0, phone.stored}
    BY DEF SeatIInv, PhoneFits
  <2> QED BY <1>2, <1>8, <2>1, <2>2 DEF SeatIInv, Settles
<1> QED BY <1>3, <1>4, <1>5, <1>6, <1>7, <1>9, <1>10, <1>11, <1>12 DEF SeatIInv

\* A refused leave.
LEMMA RefusedKeeps ==
  ASSUME SeatIInv, NEW m, Hearing(m), m.kind = "leave-error", devices' = devices, ~phone'.leaving,
         UNCHANGED <<phone.stored, phone.device, phone.ended, phone.retry, phone.awaiting,
                     phone.resuming, phone.connected, phone.player, phone.shown>>
  PROVE  SeatIInv'
<1>1. Types
  BY DEF SeatIInv
<1>2. /\ linked /\ refused' = TRUE
      /\ UNCHANGED <<conn, losses, timeouts, alive, open, round, seats, made, who,
                     linked, recoverable, up>>
      /\ In(down) = In(down') \cup {m}
  BY DEF Hearing
<1>3. Types' /\ AsksFit' /\ RoomFits' /\ LineFits' /\ NewsFit'
  <2>1. devices' \in Nat /\ phone'.device <= devices' /\ phone'.stored <= made
    BY <1>1 DEF Types, TypeOK
  <2> QED BY <2>1, HearingKeeps
<1>4. PhoneFits'
  BY <1>2 DEF SeatIInv, PhoneFits
<1>5. JoinsAlone'
  BY <1>2 DEF SeatIInv, JoinsAlone, Joining
<1>6. DevicesFit'
  BY <1>2 DEF SeatIInv, DevicesFit
<1>7. UpFits'
  BY <1>2 DEF SeatIInv, UpFits, On, Live, Gone, Sits
<1>8. Closing' = Closing /\ Live' = Live /\ Pending' /\ \A s : Sits(s)' = Sits(s) /\ Gone(s)' = Gone(s)
  BY <1>2 DEF Closing, Live, Pending, Sits, Gone
<1>9. DownFits'
  BY <1>2, <1>8 DEF SeatIInv, DownFits, Seating
<1>10. EndedFits'
  BY <1>2, <1>8 DEF SeatIInv, EndedFits
<1>11. PendFits'
  BY <1>2, <1>8 DEF SeatIInv, PendFits
<1>12. Settles'
  BY <1>2, <1>8 DEF SeatIInv, Settles
<1> QED BY <1>3, <1>4, <1>5, <1>6, <1>7, <1>9, <1>10, <1>11, <1>12 DEF SeatIInv

\* A message that seats the phone.
LEMMA SeatingKeeps ==
  ASSUME SeatIInv, NEW m, Hearing(m), m.kind \in Seating, SeatedBy(m), devices' = devices,
         m.kind \in {"resumed", "resume-ok"} => ~phone.ended /\ ~phone.leaving,
         IF m.kind = "resume-ok" THEN m.ask = phone.awaiting /\ phone'.awaiting = 0 /\ ~phone'.resuming
                                 ELSE UNCHANGED <<phone.awaiting, phone.resuming>>,
         m.kind = "profile-ok" => phone'.connected = phone.connected
  PROVE  SeatIInv'
<1>1. Types
  BY DEF SeatIInv
<1>2. /\ linked /\ refused' = (refused \/ m.kind = "leave-error")
      /\ UNCHANGED <<conn, losses, timeouts, alive, open, round, seats, made, who,
                     linked, recoverable, up>>
      /\ In(down) = In(down') \cup {m} /\ m \in In(down)
      /\ Refusing(down', 0)
      /\ m.seat \in 1..made /\ \E n \in In(down') : n.kind = "room"
  BY DEF Hearing
<1>3. /\ phone'.stored = m.seat /\ phone'.player = m.seat
      /\ UNCHANGED <<phone.device, phone.ended, phone.leaving, phone.retry>>
      /\ m.seat # 0
  BY <1>1, <1>2 DEF SeatedBy, Types, TypeOK
<1>4. /\ m.kind \in {"joined", "resume-ok", "resumed", "profile-ok"}
      /\ m.kind # "resume-ok" => phone'.awaiting = phone.awaiting /\ phone'.resuming = phone.resuming
      /\ m.kind = "resume-ok" => m.ask = phone.awaiting /\ phone'.awaiting = 0 /\ ~phone'.resuming
  BY DEF Seating
<1>5. ~phone.ended
  BY <1>2, <1>4 DEF SeatIInv, EndedFits
<1>6. \A n \in In(down) : n.kind \in Seating =>
        /\ phone.stored # 0 => n.seat = phone.stored
        /\ n.kind = "resumed" => n.seat = phone.stored
        /\ n.seat = m.seat
  BY <1>2 DEF SeatIInv, DownFits
<1>7. /\ \A n \in In(up) : n.kind = "resume" => n.ask # 0
      /\ \A n \in In(down) : n.kind = "resume-error" => n.ask # 0
      /\ \A n \in In(up) : n.kind \in {"resume", "profile"} => n.seat # 0
  BY <1>1 DEF SeatIInv, AsksFit, Types
<1>8. phone'.awaiting \in {0, phone.awaiting}
  BY <1>4
\* The phone sits where it is told to, or has yet to hear that it does not.
<1>9. Live => Sits(m.seat) \/ Closing \/ (m.kind = "resumed" /\ Pending)
  BY <1>2 DEF SeatIInv, DownFits
<1>10. Live => Sits(m.seat)' \/ Closing' \/ Pending'
  <2>1. CASE Sits(m.seat)
    BY <1>2, <1>3, <2>1 DEF Sits
  <2>2. CASE Closing
    BY <1>2, <1>4, <2>2 DEF Closing
  <2>3. CASE m.kind = "resumed" /\ Pending
    BY <1>2, <1>3, <1>4, <2>3 DEF Pending
  <2> QED BY <1>9, <2>1, <2>2, <2>3
<1>11. Types' /\ AsksFit' /\ RoomFits' /\ LineFits' /\ NewsFit'
  <2>1. devices' \in Nat /\ phone'.device <= devices' /\ phone'.stored <= made
    BY <1>1, <1>2, <1>3 DEF Types, TypeOK
  <2> QED BY <1>3, <1>8, <2>1, HearingKeeps
<1>12. PhoneFits'
  <2>1. phone.device # 0
    BY <1>2 DEF SeatIInv, DevicesFit
  <2> QED BY <1>2, <1>3, <1>4, <1>5, <1>8, <2>1 DEF SeatIInv, PhoneFits
<1>13. JoinsAlone'
  BY <1>2, <1>3, <1>8 DEF SeatIInv, JoinsAlone, Joining
<1>14. DevicesFit'
  BY <1>2, <1>3 DEF SeatIInv, DevicesFit
<1>15. UpFits'
  <2>1. On' = On /\ Live' = Live /\ \A s : Gone(s)' = Gone(s) /\ Sits(s)' = Sits(s)
    BY <1>2, <1>3 DEF On, Live, Gone, Sits
  <2>2. ASSUME On, open, NEW q \in In(up), q.kind \in {"resume", "profile"}
        PROVE  /\ Gone(q.seat) \/ (q.seat = m.seat /\ q.device = phone.device)
               /\ q.kind = "resume" /\ q.ask = phone'.awaiting => q.seat = m.seat
    <3>1. /\ Gone(q.seat) \/ (q.seat = phone.stored /\ q.device = phone.device)
          /\ q.kind = "resume" /\ q.ask = phone.awaiting => q.seat = phone.stored
      BY <2>2 DEF SeatIInv, UpFits
    <3>2. phone.stored # 0 => m.seat = phone.stored
      BY <1>2, <1>6
    <3> QED BY <1>7, <1>8, <2>2, <3>1, <3>2
  <2>3. ASSUME Live, open, NEW q \in In(up), q.kind = "join"
        PROVE  q.device = phone.device /\ Sits(m.seat)
    <3>1. q.device = phone.device /\ (phone.stored # 0 => Sits(phone.stored))
      BY <2>3 DEF SeatIInv, UpFits
    <3>2. Sits(m.seat) \/ m.kind = "resumed"
      BY <1>9, <2>3 DEF SeatIInv, LineFits
    <3>3. m.kind = "resumed" => m.seat = phone.stored /\ phone.stored # 0
      BY <1>2, <1>3, <1>6
    <3> QED BY <3>1, <3>2, <3>3
  <2> QED BY <1>2, <1>3, <2>1, <2>2, <2>3 DEF UpFits
<1>16. DownFits'
  <2>1. ASSUME NEW n \in In(down'), n.kind \in Seating
        PROVE  n.seat = phone'.stored /\ \A k \in In(down') : k.kind \in Seating => n.seat = k.seat
    BY <1>2, <1>3, <1>6, <2>1
  <2>2. ASSUME Live, NEW n \in In(down'), n.kind \in Seating
        PROVE  Sits(n.seat)' \/ Closing' \/ (n.kind = "resumed" /\ Pending')
    <3>1. n.seat = m.seat /\ n \in In(down)
      BY <1>2, <1>6, <2>2
    <3>2. Sits(n.seat) \/ Closing \/ (n.kind = "resumed" /\ Pending)
      BY <2>2, <3>1 DEF SeatIInv, DownFits
    <3>3. CASE Sits(n.seat)
      BY <1>2, <1>3, <3>3 DEF Sits
    <3>4. CASE Closing
      BY <1>2, <1>4, <3>4 DEF Closing
    <3>5. CASE n.kind = "resumed" /\ Pending
      <4>1. CASE Pending'
        BY <3>5, <4>1
      <4>2. CASE ~Pending'
        BY <1>10, <2>2, <3>1, <4>2
      <4> QED BY <4>1, <4>2
    <3> QED BY <3>2, <3>3, <3>4, <3>5
  <2>3. ASSUME Live, open, NEW n \in In(down'), n.kind = "resume-error", n.ask = phone'.awaiting
        PROVE  Gone(m.seat)
    <3>1. n \in In(down) /\ n.ask = phone.awaiting
      BY <1>2, <1>7, <1>8, <2>3
    <3>2. Gone(phone.stored)
      BY <2>3, <3>1 DEF SeatIInv, DownFits
    <3>3. phone.stored # 0
      BY <1>1, <3>2 DEF Gone, Types, TypeOK
    <3> QED BY <1>2, <1>6, <3>2, <3>3
  <2>4. Live' = Live /\ \A s : Gone(s)' = Gone(s)
    BY <1>2 DEF Live, Gone
  <2> QED BY <1>2, <1>3, <2>1, <2>2, <2>3, <2>4 DEF DownFits
<1>17. EndedFits'
  BY <1>3, <1>5 DEF EndedFits
<1>18. PendFits'
  <2>1. phone'.awaiting # 0 => phone'.awaiting = phone.awaiting /\ m.kind \notin {"resume-ok", "resume-error"}
    BY <1>4
  <2>2. phone'.leaving => phone.leaving /\ m.kind \in {"joined", "profile-ok"}
    BY <1>3, <1>4
  <2>3. /\ Live' = Live /\ refused' = (refused \/ m.kind = "leave-error")
    BY <1>2 DEF Live
  <2>4. ASSUME Live', phone'.awaiting # 0
        PROVE  \/ \E q \in In(up') : q.kind = "resume" /\ q.ask = phone'.awaiting
               \/ \E n \in In(down') : n.kind \in {"resume-ok", "resume-error"} /\ n.ask = phone'.awaiting
    BY <1>2, <2>1, <2>3, <2>4 DEF SeatIInv, PendFits
  <2>5. ASSUME Live', phone'.leaving,
               phone'.connected \/ (\E q \in In(up') : q.kind = "join")
                 \/ (\E n \in In(down') : n.kind = "joined")
        PROVE  refused' \/ (\E q \in In(up') : q.kind = "leave")
                 \/ (\E n \in In(down') : n.kind = "leave-error")
    <3>1. phone.connected \/ (\E q \in In(up) : q.kind = "join")
            \/ (\E n \in In(down) : n.kind = "joined")
      BY <1>2, <2>2, <2>5
    <3>2. refused \/ (\E q \in In(up) : q.kind = "leave")
            \/ (\E n \in In(down) : n.kind = "leave-error")
      BY <2>2, <2>3, <2>5, <3>1 DEF SeatIInv, PendFits
    <3> QED BY <1>2, <1>4, <3>2
  <2> QED BY <2>4, <2>5 DEF PendFits
<1>19. Settles'
  <2>1. Live' = Live /\ (Live => On)
    BY <1>2 DEF Live, On
  <2>2. Live /\ open => who # 0
    <3>1. \E n \in In(down) : n.kind = "room"
      BY <1>2
    <3> QED BY <2>1, <3>1 DEF SeatIInv, NewsFit
  <2> QED BY <1>2, <1>3, <1>10, <2>1, <2>2 DEF Settles
<1> QED BY <1>11, <1>12, <1>13, <1>14, <1>15, <1>16, <1>17, <1>18, <1>19 DEF SeatIInv

\* The answer to a resume that the phone no longer wants.
LEMMA AnsweredKeeps ==
  ASSUME SeatIInv, NEW m, Hearing(m), m.kind \in {"resume-ok", "resume-error"},
         phone.ended \/ phone.leaving, phone'.awaiting = 0, devices' = devices,
         UNCHANGED <<phone.stored, phone.device, phone.ended, phone.leaving, phone.retry,
                     phone.resuming, phone.connected, phone.player, phone.shown>>
  PROVE  SeatIInv'
<1>1. Types
  BY DEF SeatIInv
<1>2. /\ linked /\ refused' = (refused \/ m.kind = "leave-error")
      /\ UNCHANGED <<conn, losses, timeouts, alive, open, round, seats, made, who,
                     linked, recoverable, up>>
      /\ In(down) = In(down') \cup {m}
  BY DEF Hearing
<1>3. phone.stored # 0 => phone.leaving
  BY DEF SeatIInv, PhoneFits
<1>4. /\ \A n \in In(up) : n.kind = "resume" => n.ask # 0
      /\ \A n \in In(down) : n.kind = "resume-error" => n.ask # 0
      /\ \A n \in In(down) : n.kind \in Seating => n.seat # 0
  BY <1>1 DEF SeatIInv, AsksFit, Types
<1>5. Types' /\ AsksFit' /\ RoomFits' /\ LineFits' /\ NewsFit'
  <2>1. devices' \in Nat /\ phone'.device <= devices' /\ phone'.stored <= made
    BY <1>1 DEF Types, TypeOK
  <2> QED BY <2>1, HearingKeeps
<1>6. PhoneFits'
  BY <1>2 DEF SeatIInv, PhoneFits
<1>7. JoinsAlone'
  BY <1>2 DEF SeatIInv, JoinsAlone, Joining
<1>8. DevicesFit'
  BY <1>2 DEF SeatIInv, DevicesFit
<1>9. UpFits'
  BY <1>2, <1>4 DEF SeatIInv, UpFits, On, Live, Gone, Sits
<1>10. /\ Closing' = Closing /\ Live' = Live /\ \A s : Sits(s)' = Sits(s) /\ Gone(s)' = Gone(s)
       /\ phone.leaving => Pending'
  BY <1>2 DEF Closing, Live, Pending, Sits, Gone
<1>11. DownFits'
  <2>1. \A n \in In(down) : n.kind \in Seating =>
          /\ phone.stored # 0 => n.seat = phone.stored
          /\ n.kind = "resumed" => n.seat = phone.stored
          /\ \A k \in In(down) : k.kind \in Seating => n.seat = k.seat
    BY DEF SeatIInv, DownFits
  <2>2. Live => \A n \in In(down) : n.kind \in Seating =>
          Sits(n.seat) \/ Closing \/ n.kind = "resumed"
    BY DEF SeatIInv, DownFits
  <2>3. Live' => \A n \in In(down') : n.kind \in Seating =>
          Sits(n.seat)' \/ Closing' \/ (n.kind = "resumed" /\ Pending')
    BY <1>2, <1>3, <1>4, <1>10, <2>1, <2>2
  <2>4. \A n \in In(down') : n.kind = "resume-error" => n.ask # phone'.awaiting
    BY <1>2, <1>4
  <2> QED BY <1>2, <2>1, <2>3, <2>4 DEF DownFits
<1>12. EndedFits'
  BY <1>2, <1>10 DEF SeatIInv, EndedFits
<1>13. PendFits'
  BY <1>2, <1>10 DEF SeatIInv, PendFits
<1>14. Settles'
  BY <1>2, <1>3, <1>10 DEF SeatIInv, Settles
<1> QED BY <1>5, <1>6, <1>7, <1>8, <1>9, <1>11, <1>12, <1>13, <1>14 DEF SeatIInv

\* The server does not know the session.
LEMMA UnknownKeeps ==
  ASSUME SeatIInv, NEW m, Hearing(m), m.kind = "resume-error", m.ask = phone.awaiting,
         ~phone.ended, ~phone.leaving, devices' = devices,
         phone'.ended, phone'.stored = 0, phone'.device = 0, phone'.player = 0,
         phone'.connected, phone'.awaiting = 0, ~phone'.resuming,
         UNCHANGED <<phone.leaving, phone.retry, phone.shown>>
  PROVE  SeatIInv'
<1>1. Types
  BY DEF SeatIInv
<1>2. /\ linked /\ refused' = (refused \/ m.kind = "leave-error")
      /\ UNCHANGED <<conn, losses, timeouts, alive, open, round, seats, made, who,
                     linked, recoverable, up>>
      /\ In(down) = In(down') \cup {m} /\ m \in In(down)
      /\ \A n \in In(down') : n.kind \notin Seating
      /\ m.ask # 0
  BY DEF Hearing
<1>3. ~phone.retry /\ (linked => ~recoverable)
  BY <1>2 DEF SeatIInv, PhoneFits
<1>4. \A n \in In(up) \cup In(down) : n.kind \in {"resume", "resume-error"} => n.ask # 0
  BY DEF SeatIInv, AsksFit
<1>5. /\ open => \A n \in In(up) : n.kind # "join"
      /\ \A n \in In(down) : n.kind # "joined"
  BY <1>2 DEF SeatIInv, JoinsAlone, Joining
<1>6. Live /\ open => Gone(phone.stored)
  BY <1>2 DEF SeatIInv, DownFits
<1>7. Live' = Live /\ On' = Live /\ On = Live /\ \A s : Gone(s)' = Gone(s)
  BY <1>2 DEF Live, On, Gone
\* Whatever else the phone has asked is about seats that are gone.
<1>8. Live /\ open => \A q \in In(up) : q.kind \in {"resume", "profile"} => Gone(q.seat)
  BY <1>6, <1>7 DEF SeatIInv, UpFits
<1>9. Types' /\ AsksFit' /\ RoomFits' /\ LineFits' /\ NewsFit'
  <2>1. devices' \in Nat /\ phone'.device <= devices' /\ phone'.stored <= made
    BY <1>1 DEF Types, TypeOK
  <2> QED BY <2>1, HearingKeeps
<1>10. PhoneFits'
  BY <1>2, <1>3 DEF PhoneFits
<1>11. JoinsAlone'
  BY <1>3 DEF JoinsAlone
<1>12. DevicesFit'
  BY <1>2 DEF DevicesFit
<1>13. UpFits'
  BY <1>2, <1>4, <1>5, <1>7, <1>8 DEF UpFits
<1>14. DownFits'
  BY <1>2, <1>4 DEF DownFits
<1>15. EndedFits'
  BY <1>2, <1>5, <1>7, <1>8 DEF EndedFits, Seating
<1>16. PendFits'
  BY <1>2 DEF PendFits
<1>17. Settles'
  BY DEF Settles
<1> QED BY <1>9, <1>10, <1>11, <1>12, <1>13, <1>14, <1>15, <1>16, <1>17 DEF SeatIInv

LEMMA ReceiveKeeps == ASSUME SeatIInv, Receive PROVE SeatIInv'
<1> DEFINE m == Head(down)
<1>1. Types
  BY DEF SeatIInv
<1>2. CASE m.kind \in {"left", "terminated"}
  <2>1. EndSession /\ Fixed /\ up' = up
    BY <1>2 DEF Receive, Fixed
  <2>2. refused' \in BOOLEAN
    BY <1>1 DEF Receive, Types, TypeOK
  <2> QED BY <1>1, <2>1, <2>2, EndDoes, EndKeeps
<1>3. CASE m.kind \notin {"left", "terminated"}
  <2>1. Hearing(m) /\ Reaction(m)
    BY <1>3, ReceiveHears
  <2> HIDE DEF m
  <2>2. phone.ended \/ phone.leaving <=> Ignoring
    BY DEF Ignoring
  <2>3. CASE m.kind = "closed"
    BY <2>1, <2>3, ClosedKeeps DEF Reaction
  <2>4. CASE m.kind = "room" /\ ~Ignoring
    BY <2>1, <2>4, NewsKeeps DEF Reaction
  <2>5. CASE m.kind = "leave-error"
    BY <2>1, <2>5, RefusedKeeps DEF Reaction
  <2>6. CASE m.kind = "joined" \/ (m.kind = "resumed" /\ ~Ignoring)
    <3>1. /\ SeatedBy(m) /\ UNCHANGED <<phone.awaiting, phone.resuming>> /\ devices' = devices
          /\ m.kind \in Seating /\ m.kind # "resume-ok" /\ m.kind # "profile-ok"
      BY <2>1, <2>6 DEF Reaction, Seating
    <3> QED BY <2>1, <2>2, <2>6, <3>1, SeatingKeeps
  <2>7. CASE m.kind = "profile-ok"
    <3>1. /\ SeatedBy(m) /\ UNCHANGED <<phone.awaiting, phone.resuming, phone.connected>>
          /\ devices' = devices /\ m.kind \in Seating
      BY <2>1, <2>7 DEF Reaction, Seating
    <3> QED BY <2>1, <2>7, <3>1, SeatingKeeps
  <2>8. CASE m.kind = "resume-ok" /\ m.ask = phone.awaiting /\ ~Ignoring
    <3>1. /\ SeatedBy(m) /\ phone'.awaiting = 0 /\ ~phone'.resuming /\ devices' = devices
          /\ m.kind \in Seating
      BY <2>1, <2>8 DEF Reaction, Seating
    <3> QED BY <2>1, <2>2, <2>8, <3>1, SeatingKeeps
  <2>9. CASE m.kind \in {"resume-ok", "resume-error"} /\ m.ask = phone.awaiting /\ Ignoring
    BY <2>1, <2>2, <2>9, AnsweredKeeps DEF Reaction
  <2>10. CASE m.kind = "resume-error" /\ m.ask = phone.awaiting /\ ~Ignoring
    BY <2>1, <2>2, <2>10, UnknownKeeps DEF Reaction
  <2>11. CASE \/ m.kind \in {"room", "resumed"} /\ Ignoring
              \/ m.kind \in {"resume-ok", "resume-error"} /\ m.ask # phone.awaiting
              \/ m.kind = "error"
    <3>1. phone' = phone /\ devices' = devices
      BY <2>1, <2>11 DEF Reaction
    <3> QED BY <2>1, <2>2, <2>11, <3>1, IdleKeeps
  <2>12. m.kind \in Events \cup Acks
    BY <2>1 DEF Hearing, Message
  <2> QED BY <1>3, <2>3, <2>4, <2>5, <2>6, <2>7, <2>8, <2>9, <2>10, <2>11, <2>12 DEF Events, Acks
<1> QED BY <1>2, <1>3
\* The phone and the connections stay as they are.
Untouched ==
  UNCHANGED <<phone, linked, conn, devices, refused, losses, timeouts, round>>

\* A seat is vacated and the phone's connection is cut.
LEMMA SeverKeeps ==
  ASSUME SeatIInv, Severed, NEW k, Vacated(k), Untouched, UNCHANGED <<open, made>>,
         up' \in Seq(Question), In(up') \subseteq In(up)
  PROVE  SeatIInv'
<1>1. Types
  BY DEF SeatIInv
<1>2. /\ UNCHANGED <<phone, linked, conn, devices, refused, losses, timeouts, round, open, made>>
      /\ alive' = alive \ {conn} /\ who' = 0 /\ recoverable' = FALSE
      /\ down' \in Seq(Message)
      /\ \A m \in In(down') : m \in In(down) \/ (m.kind \in {"left", "terminated"} /\ m.seat = 0 /\ m.ask = 0)
      /\ ~linked => down' = <<>>
      /\ Told(down) => Told(down')
      /\ Sealed(down) => Sealed(down')
      /\ \A a : Refusing(down, a) => Refusing(down', a)
  BY DEF Untouched, Severed
<1>3. /\ seats' \in [Number -> [device : Nat, socket : Nat]]
      /\ \A s \in Number : seats'[s] # NoSeat => seats'[s] = seats[s]
  BY DEF Vacated
<1>4. ~On' /\ ~Live'
  BY <1>2 DEF On, Live
<1>5. losses \in Nat /\ timeouts \in Nat /\ made \in Number \cup {0} /\ phone.stored \in Nat
      /\ phone.stored <= made /\ MaxSeats \in Nat
  BY <1>1, SessionBoundsFit DEF Types, TypeOK, Phone
<1>6. /\ phone.stored # 0 => phone.stored \in Number
      /\ \A m \in In(down) : m.kind \in Seating => m.seat \in Number
  <2>1. \A s \in 1..made : s \in Number
    BY <1>5 DEF Number
  <2> QED BY <1>1, <1>5, <2>1 DEF Types
<1>7. Types'
  <2>1. \A m \in In(down') : m.seat <= made /\ (m.kind \in Seating => m.seat \in 1..made)
    <3>1. 0 <= made
      BY <1>5 DEF Number
    <3> QED BY <1>1, <1>2, <3>1 DEF Types, Seating
  <2>2. 0 \in Nat /\ 0 \in Number \cup {0} /\ alive' \subseteq 1..conn /\ FALSE \in BOOLEAN
    BY <1>1, <1>2 DEF Types, TypeOK
  <2>3. /\ who' \in Nat /\ who' \in Number \cup {0} /\ recoverable' \in BOOLEAN /\ ~recoverable'
        /\ alive' \subseteq 1..conn'
    BY <1>2, <2>2
  <2>4. TypeOK'
    BY ZenonT(60), <1>1, <1>2, <1>3, <2>3 DEF Types, TypeOK, Message, Question
  <2> QED BY <1>1, <1>2, <2>1, <2>3, <2>4 DEF Types
<1>8. PhoneFits'
  BY <1>2 DEF SeatIInv, PhoneFits
<1>9. AsksFit'
  <2>1. ASSUME NEW m \in In(up') \cup In(down')
        PROVE  \/ m \in In(up) \cup In(down)
               \/ m.kind \in {"left", "terminated"} /\ m.ask = 0
    BY <1>2, <2>1
  <2> QED BY <1>2, <1>5, <2>1 DEF SeatIInv, AsksFit
<1>10. RoomFits'
  BY <1>2, <1>3 DEF SeatIInv, RoomFits
<1>11. LineFits'
  <2>1. Closing' => Closing
    BY <1>2 DEF Closing
  <2>2. ~linked => \A m \in In(down') : m.kind \in Events
    BY <1>2, EmptyLine
  <2> QED BY <1>2, <2>1, <2>2 DEF SeatIInv, LineFits
<1>12. JoinsAlone'
  BY <1>2 DEF SeatIInv, JoinsAlone, Joining
<1>13. DevicesFit'
  <2>1. \A m \in In(down') : m.kind \in Seating => m \in In(down)
    BY <1>2 DEF Seating
  <2> QED BY <1>2, <1>3, <1>6, <2>1 DEF SeatIInv, DevicesFit
<1>14. UpFits'
  BY <1>4 DEF UpFits
<1>15. DownFits'
  <2>1. \A m \in In(down') : m.kind \in Seating => m \in In(down)
    BY <1>2 DEF Seating
  <2> QED BY <1>2, <1>4, <2>1 DEF SeatIInv, DownFits
<1>16. EndedFits'
  BY <1>2, <1>4 DEF SeatIInv, EndedFits
<1>17. PendFits'
  BY <1>4 DEF PendFits
<1>18. NewsFit'
  BY <1>4 DEF NewsFit
<1>19. Settles'
  BY <1>4 DEF Settles
<1> QED BY <1>7, <1>8, <1>9, <1>10, <1>11, <1>12, <1>13, <1>14, <1>15, <1>16, <1>17, <1>18, <1>19
        DEF SeatIInv

\* Other connections are gone, and with them the seats or the sockets of others.
LEMMA ShrinkKeeps ==
  ASSUME SeatIInv, Untouched, UNCHANGED <<open, made, who, recoverable, down>>,
         seats' \in [Number -> [device : Nat, socket : Nat]],
         \A k \in Number : seats'[k] # NoSeat => seats[k] # NoSeat /\ seats'[k].device = seats[k].device,
         alive' \subseteq alive,
         Live' => up' = up /\ \A k \in Number : seats[k].socket = conn => seats'[k] = seats[k],
         up' \in Seq(Question), In(up') \subseteq In(up)
  PROVE  SeatIInv'
<1>1. Types
  BY DEF SeatIInv
<1>2. /\ UNCHANGED <<phone, linked, conn, devices, refused, losses, timeouts, round>>
      /\ UNCHANGED <<open, made, who, recoverable, down>>
  BY DEF Untouched
<1>3. (On' => On) /\ (Live' => Live)
  BY <1>2 DEF On, Live
<1>4. made \in Number \cup {0} /\ phone.stored \in Nat /\ phone.stored <= made /\ MaxSeats \in Nat
  BY <1>1, SessionBoundsFit DEF Types, TypeOK, Phone
<1>5. \A s \in 1..made : s \in Number
  BY <1>4 DEF Number
<1>6. /\ phone.stored # 0 => phone.stored \in Number
      /\ \A m \in In(down) : m.kind \in Seating => m.seat \in Number
  BY <1>1, <1>4, <1>5 DEF Types
<1>7. \A s : Gone(s) => Gone(s)'
  BY <1>2, <1>5 DEF Gone
<1>8. Live' => \A s : Sits(s) => Sits(s)'
  BY <1>2 DEF Sits
<1>9. Closing' = Closing /\ Pending' = Pending
  BY <1>2 DEF Closing, Pending
<1>10. Types'
  BY SMTT(60), <1>1, <1>2 DEF Types, TypeOK, Question
<1>11. PhoneFits'
  BY <1>2 DEF SeatIInv, PhoneFits
<1>12. AsksFit'
  BY <1>2 DEF SeatIInv, AsksFit
<1>13. RoomFits'
  BY <1>2 DEF SeatIInv, RoomFits
<1>14. LineFits'
  BY <1>2, <1>9 DEF SeatIInv, LineFits
<1>15. JoinsAlone'
  BY <1>2 DEF SeatIInv, JoinsAlone, Joining
<1>16. DevicesFit'
  BY <1>2, <1>6 DEF SeatIInv, DevicesFit
<1>17. UpFits'
  BY <1>2, <1>3, <1>7, <1>8 DEF SeatIInv, UpFits
<1>18. DownFits'
  BY <1>2, <1>3, <1>7, <1>8, <1>9 DEF SeatIInv, DownFits
<1>19. EndedFits'
  BY <1>2, <1>3, <1>7 DEF SeatIInv, EndedFits
<1>20. PendFits'
  BY <1>2, <1>3 DEF SeatIInv, PendFits
<1>21. NewsFit'
  BY <1>2, <1>3 DEF SeatIInv, NewsFit
<1>22. Settles'
  BY <1>2, <1>3, <1>8, <1>9 DEF SeatIInv, Settles
<1> QED BY <1>10, <1>11, <1>12, <1>13, <1>14, <1>15, <1>16, <1>17, <1>18, <1>19, <1>20, <1>21, <1>22
        DEF SeatIInv

\* The disconnect handler.
LEMMA NoticeKeeps == ASSUME SeatIInv, NEW c \in alive, NoticeLoss(c) PROVE SeatIInv'
<1>1. Types /\ up \in Seq(Question)
  BY DEF SeatIInv, Types, TypeOK, Question
<1>2. /\ ~(linked /\ c = conn) /\ alive' = alive \ {c}
      /\ seats' \in [Number -> [device : Nat, socket : Nat]]
      /\ \A k \in Number : /\ seats[k].socket # c => seats'[k] = seats[k]
                           /\ seats'[k].device = seats[k].device
                           /\ seats'[k] # NoSeat => seats[k] # NoSeat
      /\ up' = IF c = conn THEN <<>> ELSE up
      /\ UNCHANGED <<client, recoverable, down, open, round, made, who>>
  BY <1>1, NoticeDoes
<1>3. up' \in Seq(Question) /\ In(up') \subseteq In(up)
  BY <1>1, <1>2, EmptyLine
<1>4. Live' => up' = up /\ \A k \in Number : seats[k].socket = conn => seats'[k] = seats[k]
  BY <1>2 DEF Live, client
<1>5. Untouched
  BY <1>2 DEF Untouched, client
<1> QED BY <1>2, <1>3, <1>4, <1>5, ShrinkKeeps

\* player:kick.
LEMMA KickKeeps == ASSUME SeatIInv, NEW k \in Number, Kick(k) PROVE SeatIInv'
<1>1. Types /\ up \in Seq(Question)
  BY DEF SeatIInv, Types, TypeOK, Question
<1>2. /\ Vacated(k)
      /\ \/ Severed
         \/ /\ ~(seats[k].socket = conn /\ conn \in alive)
            /\ alive' = alive \ {seats[k].socket} /\ UNCHANGED <<who, recoverable, down>>
      /\ UNCHANGED <<client, up, open, round, made>>
  BY <1>1, KickDoes
<1>3. Untouched /\ up' \in Seq(Question) /\ In(up') \subseteq In(up)
  BY <1>1, <1>2 DEF Untouched, client
<1>4. CASE Severed
  BY <1>2, <1>3, <1>4, SeverKeeps
<1>5. CASE /\ ~(seats[k].socket = conn /\ conn \in alive)
           /\ alive' = alive \ {seats[k].socket} /\ UNCHANGED <<who, recoverable, down>>
  <2>1. /\ seats' \in [Number -> [device : Nat, socket : Nat]]
        /\ \A j \in Number : seats'[j] = IF j = k THEN NoSeat ELSE seats[j]
    BY <1>2 DEF Vacated
  <2>2. \A j \in Number : seats'[j] # NoSeat => seats[j] # NoSeat /\ seats'[j].device = seats[j].device
    BY <2>1
  <2>3. Live' => up' = up /\ \A j \in Number : seats[j].socket = conn => seats'[j] = seats[j]
    BY <1>2, <1>5, <2>1 DEF Live, client
  <2> QED BY <1>2, <1>3, <1>5, <2>1, <2>2, <2>3, ShrinkKeeps
<1> QED BY <1>2, <1>4, <1>5

\* closeRoom.
LEMMA CloseKeeps == ASSUME SeatIInv, CloseRoom PROVE SeatIInv'
<1>1. Types
  BY DEF SeatIInv
<1>2. /\ open /\ ~open' /\ open' \in BOOLEAN /\ seats' \in [Number -> [device : Nat, socket : Nat]]
      /\ \A k \in Number : seats'[k] = NoSeat
      /\ \/ who = 0 /\ down' = down
         \/ who # 0 /\ \E x \in Message : x.kind = "closed" /\ x.seat = 0 /\ x.ask = 0 /\ Hears({}, {x})
      /\ who' = IF conn \in alive THEN 0 ELSE who
      /\ UNCHANGED <<alive, recoverable, up, round, made>>
      /\ UNCHANGED <<phone, linked, conn, devices, refused, losses, timeouts>>
  BY <1>1, CloseDoes DEF client
<1>3. ~Closing /\ Sealed(down) /\ Told(down) /\ Refusing(down, phone.awaiting)
      /\ (~linked => \A m \in In(down) : m.kind \in Events)
  BY <1>2 DEF SeatIInv, LineFits
<1>4. /\ down' \in Seq(Message) /\ In(down) \subseteq In(down')
      /\ \A m \in In(down') : m \in In(down) \/ (m.kind = "closed" /\ m.seat = 0 /\ m.ask = 0)
      /\ Sealed(down') /\ Told(down') /\ Refusing(down', phone.awaiting)
      /\ On => (Newest(down, round) => Newest(down', round))
      /\ Live /\ who # 0 => Closing'
  <2>1. CASE down' = down /\ who = 0
    BY <1>1, <1>3, <2>1 DEF Types, TypeOK, Message
  <2>2. CASE who # 0 /\ \E x \in Message : x.kind = "closed" /\ x.seat = 0 /\ x.ask = 0 /\ Hears({}, {x})
    <3>1. PICK x \in Message : x.kind = "closed" /\ x.seat = 0 /\ x.ask = 0 /\ Hears({}, {x})
      BY <2>2
    <3>2. /\ down' \in Seq(Message)
          /\ In(down') = In(down) \cup (IF linked \/ recoverable THEN {x} ELSE {})
          /\ Told(down')
      BY <1>3, <3>1 DEF Hears
    <3>3. x.kind \notin Seating /\ x.kind # "room"
      BY <3>1 DEF Seating
    <3>4. Sealed(down') /\ Refusing(down', phone.awaiting)
      BY <1>3, <3>1, <3>3 DEF Hears
    <3>5. Newest(down, round) => Newest(down', round)
      BY <3>1, <3>3 DEF Hears
    <3>6. Live => Closing'
      BY <3>1, <3>2 DEF Live, Closing
    <3> QED BY <3>1, <3>2, <3>4, <3>5, <3>6
  <2> QED BY <1>2, <2>1, <2>2
<1>5. Live' = Live /\ On' = On /\ Pending' = Pending
  BY <1>2 DEF Live, On, Pending
<1>6. losses \in Nat /\ timeouts \in Nat /\ made \in Nat /\ who' \in Nat /\ who' \in Number \cup {0}
  BY <1>1, <1>2 DEF Types, TypeOK
<1>7. \A m \in In(down') : m.kind \in Seating => m \in In(down)
  BY <1>4 DEF Seating
<1>8. made \in Number \cup {0} /\ phone.stored \in Nat /\ phone.stored <= made /\ MaxSeats \in Nat
  BY <1>1, SessionBoundsFit DEF Types, TypeOK, Phone
<1>9. /\ phone.stored # 0 => phone.stored \in Number
      /\ \A m \in In(down) : m.kind \in Seating => m.seat \in Number
  <2>1. \A s \in 1..made : s \in Number
    BY <1>8 DEF Number
  <2> QED BY <1>1, <1>8, <2>1 DEF Types
<1>10. Types'
  <2>1. \A m \in In(down') : m.seat <= made /\ (m.kind \in Seating => m.seat \in 1..made)
    BY <1>1, <1>4, <1>6, <1>7 DEF Types
  <2> QED BY <1>1, <1>2, <1>4, <1>6, <2>1 DEF Types, TypeOK, Message
<1>11. PhoneFits'
  BY <1>2 DEF SeatIInv, PhoneFits
<1>12. AsksFit'
  BY <1>2, <1>4, <1>6 DEF SeatIInv, AsksFit
<1>13. RoomFits'
  BY <1>2 DEF RoomFits
<1>14. LineFits'
  <2>1. ~linked => \A m \in In(down') : m.kind \in Events
    BY <1>3, <1>4 DEF Events
  <2> QED BY <1>2, <1>4, <2>1 DEF LineFits
<1>15. JoinsAlone'
  BY <1>2, <1>4 DEF SeatIInv, JoinsAlone, Joining
<1>16. DevicesFit'
  BY <1>2, <1>7, <1>9 DEF SeatIInv, DevicesFit
<1>17. UpFits'
  BY <1>2 DEF UpFits
<1>18. DownFits'
  <2>1. Live => \A m \in In(down') : m.kind \in Seating => Closing' \/ (m.kind = "resumed" /\ Pending)
    <3> SUFFICES ASSUME Live, NEW m \in In(down), m.kind \in Seating
                 PROVE  Closing' \/ (m.kind = "resumed" /\ Pending)
      BY <1>7
    <3>1. Sits(m.seat) \/ (m.kind = "resumed" /\ Pending)
      BY <1>3 DEF SeatIInv, DownFits
    <3>2. Sits(m.seat) => who # 0
      BY DEF Sits, Number
    <3> QED BY <1>4, <3>1, <3>2
  <2> QED BY <1>2, <1>5, <1>7, <2>1 DEF SeatIInv, DownFits
<1>19. EndedFits'
  BY <1>2, <1>4 DEF SeatIInv, EndedFits
<1>20. PendFits'
  BY <1>2, <1>4, <1>5 DEF SeatIInv, PendFits
<1>21. NewsFit'
  BY <1>2, <1>4, <1>5 DEF SeatIInv, NewsFit
<1>22. Settles'
  <2>1. Sits(phone.stored) => who # 0
    BY DEF Sits, Number
  <2>2. Live /\ phone.connected /\ phone.stored # 0 =>
          /\ phone.player = phone.stored
          /\ Sits(phone.stored) \/ Pending
          /\ ~phone.leaving /\ ~refused /\ (\A m \in In(down) : m.kind # "room")
                 => phone.shown = round
    BY <1>3 DEF SeatIInv, Settles
  <2> QED BY <1>2, <1>4, <1>5, <2>1, <2>2 DEF Settles
<1> QED BY <1>10, <1>11, <1>12, <1>13, <1>14, <1>15, <1>16, <1>17, <1>18, <1>19, <1>20, <1>21, <1>22
        DEF SeatIInv

\* A round starts or ends.
LEMMA NextRoundKeeps == ASSUME SeatIInv, NextRound PROVE SeatIInv'
<1>1. Types
  BY DEF SeatIInv
<1>2. /\ open /\ round' = round + 1
      /\ \/ who = 0 /\ down' = down
         \/ who # 0 /\ \E x \in Message : /\ x.kind = "room" /\ x.seat = 0 /\ x.ask = 0
                                          /\ x.round = round + 1 /\ Hears({}, {x})
      /\ UNCHANGED <<alive, recoverable, up, open, seats, made, who>>
      /\ UNCHANGED <<phone, linked, conn, devices, refused, losses, timeouts>>
  BY <1>1, NextRoundDoes DEF client
<1>3. ~Closing /\ Sealed(down) /\ Told(down) /\ Refusing(down, phone.awaiting)
      /\ (~linked => \A m \in In(down) : m.kind \in Events)
  BY <1>2 DEF SeatIInv, LineFits
<1>4. /\ down' \in Seq(Message) /\ In(down) \subseteq In(down')
      /\ \A m \in In(down') : m \in In(down) \/ (m.kind = "room" /\ m.seat = 0 /\ m.ask = 0 /\ who # 0)
      /\ Sealed(down') /\ Told(down') /\ Refusing(down', phone.awaiting)
      /\ On => Newest(down', round')
      /\ Live /\ who # 0 => \E m \in In(down') : m.kind = "room"
  <2>1. CASE down' = down /\ who = 0
    <3>1. On => \A m \in In(down) : m.kind # "room"
      BY <1>2, <2>1 DEF SeatIInv, NewsFit
    <3>2. On => Newest(down, round')
      BY <3>1 DEF Newest, In
    <3> QED BY <1>1, <1>3, <2>1, <3>2 DEF Types, TypeOK, Message
  <2>2. CASE who # 0 /\ \E x \in Message : /\ x.kind = "room" /\ x.seat = 0 /\ x.ask = 0
                                           /\ x.round = round + 1 /\ Hears({}, {x})
    <3>1. PICK x \in Message : /\ x.kind = "room" /\ x.seat = 0 /\ x.ask = 0
                               /\ x.round = round + 1 /\ Hears({}, {x})
      BY <2>2
    <3>2. /\ down' \in Seq(Message)
          /\ In(down') = In(down) \cup (IF linked \/ recoverable THEN {x} ELSE {})
          /\ Told(down')
      BY <1>3, <3>1 DEF Hears
    <3>3. x.kind \notin Seating
      BY <3>1 DEF Seating
    <3>4. Sealed(down') /\ Refusing(down', phone.awaiting)
      BY <1>3, <3>1, <3>3 DEF Hears
    <3>5. On => linked \/ recoverable
      BY DEF On
    <3>6. On => Newest(down', round + 1)
      BY <3>1, <3>5 DEF Hears
    <3>7. Live => \E m \in In(down') : m.kind = "room"
      BY <3>1, <3>2 DEF Live
    <3> QED BY <1>2, <2>2, <3>1, <3>2, <3>4, <3>6, <3>7
  <2> QED BY <1>2, <2>1, <2>2
<1>5. /\ Live' = Live /\ On' = On /\ Pending' = Pending /\ \A s : Sits(s)' = Sits(s) /\ Gone(s)' = Gone(s)
  BY <1>2 DEF Live, On, Pending, Sits, Gone
<1>6. Closing' = Closing
  BY <1>4 DEF Closing
<1>7. losses \in Nat /\ timeouts \in Nat /\ made \in Nat /\ round' \in Nat
  BY <1>1, <1>2 DEF Types, TypeOK
<1>8. \A m \in In(down') : m.kind \in Seating \cup {"joined", "profile-ok", "resume-error"}
          => m \in In(down)
  BY <1>4 DEF Seating
<1>9. Types'
  <2>1. \A m \in In(down') : m.seat <= made /\ (m.kind \in Seating => m.seat \in 1..made)
    BY <1>1, <1>4, <1>7, <1>8 DEF Types
  <2> QED BY <1>1, <1>2, <1>4, <1>7, <2>1 DEF Types, TypeOK, Message
<1>10. PhoneFits'
  BY <1>2 DEF SeatIInv, PhoneFits
<1>11. AsksFit'
  BY <1>2, <1>4, <1>7 DEF SeatIInv, AsksFit
<1>12. RoomFits'
  BY <1>2 DEF SeatIInv, RoomFits
<1>13. LineFits'
  <2>1. ~linked => \A m \in In(down') : m.kind \in Events
    BY <1>3, <1>4 DEF Events
  <2> QED BY <1>2, <1>3, <1>4, <1>6, <2>1 DEF LineFits
<1>14. JoinsAlone'
  BY <1>2, <1>4 DEF SeatIInv, JoinsAlone, Joining
<1>15. DevicesFit'
  BY <1>2, <1>8 DEF SeatIInv, DevicesFit
<1>16. UpFits'
  BY <1>2, <1>5 DEF SeatIInv, UpFits
<1>17. DownFits'
  BY <1>2, <1>5, <1>6, <1>8 DEF SeatIInv, DownFits
<1>18. EndedFits'
  BY <1>2, <1>5, <1>8 DEF SeatIInv, EndedFits
<1>19. PendFits'
  BY <1>2, <1>4, <1>5 DEF SeatIInv, PendFits
<1>20. NewsFit'
  BY <1>2, <1>4, <1>5 DEF SeatIInv, NewsFit
<1>21. Settles'
  <2>1. Live /\ phone.connected /\ phone.stored # 0 => who # 0
    BY <1>2 DEF SeatIInv, Settles
  <2> QED BY <1>2, <1>4, <1>5, <1>6, <2>1 DEF SeatIInv, Settles
<1> QED BY <1>9, <1>10, <1>11, <1>12, <1>13, <1>14, <1>15, <1>16, <1>17, <1>18, <1>19, <1>20, <1>21
        DEF SeatIInv
-----------------------------------------------------------------------------
(* The server handles a request.                                           *)

\* Request m is handled, on a connection that is alive.
Taking(m) ==
  /\ conn \in alive /\ m \in Question /\ up' \in Seq(Question) /\ In(up) = In(up') \cup {m}
  /\ Untouched /\ open' = open

\* What of the invariant does not depend on which request it is.
LEMMA AnswerFits ==
  ASSUME SeatIInv, NEW m, Taking(m), UNCHANGED <<alive, recoverable>>,
         NEW answers \in SUBSET Message, NEW events \in SUBSET Message, Hears(answers, events),
         seats' \in [Number -> [device : Nat, socket : Nat]], open \/ seats' = seats,
         made' \in Number \cup {0}, made <= made', who' \in Number \cup {0}, who # 0 => who' # 0,
         \A k \in Number : seats'[k] # NoSeat => k <= made',
         \A n \in answers \cup events :
            /\ n.kind # "closed" /\ n.ask \in {0, m.ask} /\ n.seat <= made'
            /\ n.kind \in Seating => n.seat \in 1..made'
            /\ n.kind \in {"resume-ok", "resume-error"} => n.ask = m.ask /\ m.kind = "resume"
            /\ n.kind = "room" => n \in events /\ n.round = round /\ who' # 0,
         \A n \in events : n.kind \in Events,
         \/ \A n \in answers \cup events : n.kind \notin Seating
         \/ open /\ (Live => \A n \in In(down) : ~(n.kind = "resume-error" /\ n.ask = phone.awaiting))
  PROVE  /\ Types' /\ PhoneFits' /\ AsksFit' /\ RoomFits' /\ LineFits' /\ NewsFit'
         /\ Live' = Live /\ On' = On /\ Pending' = Pending /\ Closing' = Closing
<1>1. Types
  BY DEF SeatIInv
<1>2. /\ UNCHANGED <<phone, linked, conn, devices, refused, losses, timeouts, round>>
      /\ UNCHANGED <<open, alive, recoverable>>
      /\ up' \in Seq(Question) /\ In(up) = In(up') \cup {m}
  BY DEF Taking, Untouched
<1>3. /\ down' \in Seq(Message)
      /\ In(down') = In(down) \cup (IF linked THEN answers \cup events
                                    ELSE IF recoverable THEN events ELSE {})
  BY DEF Hears
<1>4. /\ losses \in Nat /\ timeouts \in Nat /\ made \in Nat /\ made' \in Nat /\ phone.stored \in Nat
      /\ phone.stored <= made /\ MaxSeats \in Nat
  <2>1. losses \in Nat /\ timeouts \in Nat /\ made \in Nat /\ phone.stored \in Nat
        /\ phone.stored <= made /\ MaxSeats \in Nat
    BY <1>1, SessionBoundsFit DEF Types, TypeOK, Phone
  <2>2. made' \in Nat
    BY <2>1 DEF Number
  <2> QED BY <2>1, <2>2
<1>5. \A n \in In(down') : n \in In(down) \/ n \in answers \cup events
  BY <1>3
<1>6. \A n \in Message : n.seat \in Nat
  BY DEF Message
<1>7. Types'
  <2>1. ASSUME NEW n \in In(down')
        PROVE  n.seat <= made' /\ (n.kind \in Seating => n.seat \in 1..made')
    <3>1. CASE n \in In(down)
      <4>1. n.seat <= made /\ (n.kind \in Seating => n.seat \in 1..made)
        BY <1>1, <3>1 DEF Types
      <4>2. n.seat \in Nat
        <5>1. down \in Seq(Message)
          BY <1>1 DEF Types, TypeOK, Message
        <5>2. n \in Message
          BY <3>1, <5>1 DEF In
        <5> QED BY <1>6, <5>2
      <4> QED BY <1>4, <4>1, <4>2
    <3>2. CASE n \in answers \cup events
      BY <3>2
    <3> QED BY <1>5, <3>1, <3>2
  <2>2. ASSUME NEW q \in In(up')
        PROVE  q.device # 0 /\ q.seat <= made' /\ (q.kind \in {"resume", "profile"} => q.seat # 0)
    <3>1. q.device # 0 /\ q.seat <= made /\ (q.kind \in {"resume", "profile"} => q.seat # 0)
      BY <1>1, <1>2 DEF Types
    <3>2. q.seat \in Nat
      <4>1. q \in Question
        BY <1>2 DEF In
      <4> QED BY <4>1 DEF Question
    <3> QED BY <1>4, <3>1, <3>2
  <2>3. who' \in Nat /\ made' \in Nat /\ phone.stored <= made'
    BY <1>4 DEF Number
  <2>4. TypeOK'
    BY <1>1, <1>2, <1>3, <2>3 DEF Types, TypeOK, Message, Question
  <2> QED BY <1>1, <1>2, <2>1, <2>2, <2>4 DEF Types
<1>8. PhoneFits'
  BY <1>2 DEF SeatIInv, PhoneFits
<1>9. AsksFit'
  <2>1. /\ phone.awaiting <= losses + timeouts + 1
        /\ \A n \in In(up) \cup In(down) :
             /\ n.ask <= losses + timeouts + 1 /\ (phone.retry => n.ask <= losses + timeouts)
             /\ n.kind \in {"resume", "resume-ok", "resume-error"} => n.ask # 0
    BY DEF SeatIInv, AsksFit
  <2>2. ASSUME NEW n \in answers \cup events
        PROVE  /\ n.ask <= losses + timeouts + 1 /\ (phone.retry => n.ask <= losses + timeouts)
               /\ n.kind \in {"resume", "resume-ok", "resume-error"} => n.ask # 0
    <3>1. 0 <= losses + timeouts /\ 0 <= losses + timeouts + 1
      BY <1>4
    <3>2. n.kind # "resume"
      BY DEF Message, Events, Acks
    <3> QED BY <1>2, <2>1, <3>1, <3>2
  <2> QED BY <1>2, <1>5, <2>1, <2>2 DEF AsksFit
<1>10. RoomFits'
  BY <1>2 DEF SeatIInv, RoomFits
<1>11. /\ Live' = Live /\ On' = On /\ Pending' = Pending
  BY <1>2 DEF Live, On, Pending
<1>12. Closing' = Closing
  BY <1>3 DEF Closing
<1>13. LineFits'
  <2>1. /\ Sealed(down) /\ Told(down) /\ Refusing(down, phone.awaiting) /\ (open => ~Closing)
        /\ ~linked => \A n \in In(down) : n.kind \in Events
    BY DEF SeatIInv, LineFits
  <2>2. Told(down')
    BY <2>1 DEF Hears
  <2>3. Sealed(down')
    <3>1. (\A n \in In(down) : n.kind # "closed") \/ \A n \in answers \cup events : n.kind \notin Seating
      BY <2>1 DEF Closing
    <3> QED BY <2>1, <3>1 DEF Hears
  <2>4. Refusing(down', phone.awaiting)
    <3>1. ~Live => \A n \in In(down) : n.kind # "resume-error"
      BY <2>1 DEF Live, Taking, Events
    <3>2. \/ \A n \in In(down) : ~(n.kind = "resume-error" /\ n.ask = phone.awaiting)
          \/ \A n \in answers \cup events : n.kind \notin Seating
      BY <3>1
    <3> QED BY <2>1, <3>2 DEF Hears
  <2>5. ~linked => \A n \in In(down') : n.kind \in Events
    BY <1>3, <2>1
  <2> QED BY <1>2, <1>12, <2>1, <2>2, <2>3, <2>4, <2>5 DEF LineFits
<1>14. NewsFit'
  <2>1. On => Newest(down', round)
    <3>1. On => Newest(down, round)
      BY DEF SeatIInv, NewsFit
    <3>2. \A n \in events : n.kind = "room" => n.round = round
      OBVIOUS
    <3> QED BY <3>1, <3>2 DEF Hears
  <2>2. ASSUME On, open, NEW n \in In(down'), n.kind = "room" PROVE who' # 0
    BY <1>5, <2>2 DEF SeatIInv, NewsFit
  <2> QED BY <1>2, <1>11, <2>1, <2>2 DEF NewsFit
<1> QED BY <1>7, <1>8, <1>9, <1>10, <1>11, <1>12, <1>13, <1>14

\* Numbers of seats, as the phone and the lines have them.
LEMMA SeatNumbers ==
  ASSUME SeatIInv
  PROVE  /\ phone.stored # 0 => phone.stored \in 1..made /\ phone.stored \in Number
         /\ \A n \in In(down) : n.kind \in Seating => n.seat \in 1..made /\ n.seat \in Number /\ n.seat # 0
         /\ \A j \in 1..made : j \in Number
<1>1. made \in Number \cup {0} /\ phone.stored \in Nat /\ phone.stored <= made /\ MaxSeats \in Nat
  BY SessionBoundsFit DEF SeatIInv, Types, TypeOK, Phone
<1>2. \A j \in 1..made : j \in Number
  BY <1>1 DEF Number
<1> QED BY <1>1, <1>2 DEF SeatIInv, Types

\* A request is turned down.
LEMMA RefusesKeeps ==
  ASSUME SeatIInv, NEW m, Taking(m), NEW x \in Message, Refuses(m, x)
  PROVE  SeatIInv'
<1>1. Types
  BY DEF SeatIInv
<1>2. /\ UNCHANGED <<phone, linked, conn, devices, refused, losses, timeouts, round>>
      /\ UNCHANGED <<open, alive, recoverable, seats, made, who>>
      /\ In(up) = In(up') \cup {m} /\ m \in Question /\ conn \in alive
  BY DEF Taking, Untouched, Refuses, Silent
<1>3. /\ x.seat = 0 /\ x.ask = (IF m.kind = "resume" THEN m.ask ELSE 0)
      /\ Hears({x}, {})
      /\ \/ m.kind = "join" /\ ~open /\ x.kind = "error"
         \/ m.kind = "resume" /\ x.kind = "resume-error" /\ ~(open /\ m.seat \in SeatsOf(m.device))
         \/ m.kind = "leave" /\ x.kind = "leave-error"
         \/ m.kind = "profile" /\ x.kind = "error"
  BY DEF Refuses
<1>4. In(down') = In(down) \cup (IF linked THEN {x} ELSE {})
  BY <1>3 DEF Hears
<1>5. x.kind \in {"error", "resume-error", "leave-error"} /\ x.kind \notin Seating
  BY <1>3 DEF Seating
<1>6. /\ Types' /\ PhoneFits' /\ AsksFit' /\ RoomFits' /\ LineFits' /\ NewsFit'
      /\ Live' = Live /\ On' = On /\ Pending' = Pending /\ Closing' = Closing
  <2>1. /\ seats' \in [Number -> [device : Nat, socket : Nat]] /\ made' \in Number \cup {0}
        /\ who' \in Number \cup {0} /\ made <= made' /\ 0 <= made'
    BY <1>1, <1>2 DEF Types, TypeOK
  <2>2. \A k \in Number : seats'[k] # NoSeat => k <= made'
    BY <1>2 DEF SeatIInv, RoomFits
  <2>3. {x} \in SUBSET Message /\ {} \in SUBSET Message /\ {x} \cup {} = {x}
    OBVIOUS
  <2>4. \A n \in {x} \cup {} :
            /\ n.kind # "closed" /\ n.ask \in {0, m.ask} /\ n.seat <= made'
            /\ n.kind \in Seating => n.seat \in 1..made'
            /\ n.kind \in {"resume-ok", "resume-error"} => n.ask = m.ask /\ m.kind = "resume"
            /\ n.kind = "room" => n \in {} /\ n.round = round /\ who' # 0
    BY <1>3, <1>5, <2>1
  <2>5. \A n \in {x} \cup {} : n.kind \notin Seating
    BY <1>5
  <2>6. UNCHANGED <<alive, recoverable>> /\ (open \/ seats' = seats) /\ (who # 0 => who' # 0)
    BY <1>2
  <2> QED BY <1>3, <2>1, <2>2, <2>3, <2>4, <2>5, <2>6, AnswerFits
<1>7. JoinsAlone'
  BY <1>2, <1>4, <1>5 DEF SeatIInv, JoinsAlone, Joining
<1>8. DevicesFit'
  BY <1>2, <1>4, <1>5 DEF SeatIInv, DevicesFit
<1>9. /\ \A s : Gone(s)' = Gone(s) /\ Sits(s)' = Sits(s)
  BY <1>2 DEF Gone, Sits
<1>10. UpFits'
  BY <1>2, <1>6, <1>9 DEF SeatIInv, UpFits
\* A resume that is refused while it is awaited spoke of a seat that is gone.
<1>11. ASSUME Live, open, x.kind = "resume-error", x.ask = phone.awaiting PROVE Gone(phone.stored)
  <2>1. m.kind = "resume" /\ m.ask = phone.awaiting /\ m.seat \notin SeatsOf(m.device) /\ m \in In(up)
    BY <1>2, <1>3, <1>11
  <2>2. On
    BY <1>11 DEF On, Live
  <2>3. m.seat = phone.stored /\ (Gone(m.seat) \/ m.device = phone.device)
    BY <1>11, <2>1, <2>2 DEF SeatIInv, UpFits
  <2>4. phone.stored # 0
    BY <1>1, <2>1, <2>3 DEF Types
  <2>5. phone.stored \in 1..made /\ phone.stored \in Number
    BY <2>4, SeatNumbers
  <2>6. seats[phone.stored] # NoSeat => seats[phone.stored].device = phone.device
    BY <2>4 DEF SeatIInv, DevicesFit
  <2> QED BY <2>1, <2>3, <2>5, <2>6 DEF Gone, SeatsOf
<1>12. DownFits'
  <2>1. \A n \in In(down') : n.kind \in Seating => n \in In(down)
    BY <1>4, <1>5
  <2>2. Live /\ open => \A n \in In(down') :
          n.kind = "resume-error" /\ n.ask = phone.awaiting => Gone(phone.stored)
    BY <1>4, <1>11 DEF SeatIInv, DownFits
  <2> QED BY <1>2, <1>6, <1>9, <2>1, <2>2 DEF SeatIInv, DownFits
<1>13. EndedFits'
  BY <1>2, <1>4, <1>5, <1>6, <1>9 DEF SeatIInv, EndedFits
<1>14. PendFits'
  <2>1. Live => x \in In(down')
    BY <1>4 DEF Live
  <2>2. ASSUME Live, phone.awaiting # 0
        PROVE  \/ \E q \in In(up') : q.kind = "resume" /\ q.ask = phone.awaiting
               \/ \E n \in In(down') : n.kind \in {"resume-ok", "resume-error"} /\ n.ask = phone.awaiting
    <3>1. CASE m.kind = "resume" /\ m.ask = phone.awaiting
      BY <1>3, <2>1, <2>2, <3>1
    <3>2. CASE ~(m.kind = "resume" /\ m.ask = phone.awaiting)
      BY <1>2, <1>4, <2>2, <3>2 DEF SeatIInv, PendFits
    <3> QED BY <3>1, <3>2
  <2>3. ASSUME Live, phone.leaving,
               phone.connected \/ (\E q \in In(up') : q.kind = "join")
                 \/ (\E n \in In(down') : n.kind = "joined")
        PROVE  refused \/ (\E q \in In(up') : q.kind = "leave")
                 \/ (\E n \in In(down') : n.kind = "leave-error")
    <3>1. CASE m.kind = "leave"
      BY <1>3, <2>1, <2>3, <3>1
    <3>2. CASE m.kind # "leave"
      <4>1. phone.connected \/ (\E q \in In(up) : q.kind = "join")
              \/ (\E n \in In(down) : n.kind = "joined")
        BY <1>2, <1>4, <1>5, <2>3
      <4>2. refused \/ (\E q \in In(up) : q.kind = "leave")
              \/ (\E n \in In(down) : n.kind = "leave-error")
        BY <2>3, <4>1 DEF SeatIInv, PendFits
      <4> QED BY <1>2, <1>4, <3>2, <4>2
    <3> QED BY <3>1, <3>2
  <2> QED BY <1>2, <1>6, <2>2, <2>3 DEF PendFits
<1>15. Settles'
  BY <1>2, <1>4, <1>6, <1>9 DEF SeatIInv, Settles
<1> QED BY <1>6, <1>7, <1>8, <1>10, <1>12, <1>13, <1>14, <1>15 DEF SeatIInv
\* Who has a seat keeps it, whoever else takes one.
LEMMA TakenLeaves ==
  ASSUME Types, RoomFits, NEW k, NEW device, Taken(k, device)
  PROVE  /\ \A j \in 1..made : j \in Number /\ seats'[j] # NoSeat =>
              seats[j] # NoSeat /\ seats'[j].device = seats[j].device
         /\ \A s : Gone(s) /\ s \in Number => s \in 1..made' /\ (seats'[s] = NoSeat \/ s = k)
         /\ \A j \in Number : seats'[j] # NoSeat => j <= made'
<1>1. /\ k \in Number /\ seats'[k] = [device |-> device, socket |-> conn]
      /\ \A j \in Number : j # k => seats'[j] = seats[j]
      /\ made' \in Number /\ made <= made' /\ k <= made'
      /\ k <= made => seats[k] # NoSeat /\ seats[k].device = device
  BY DEF Taken
<1>2. made \in Nat /\ made' \in Nat
  <2>1. made \in Nat
    BY DEF Types, TypeOK
  <2> QED BY <1>1, <2>1 DEF Number
<1>3. \A j \in 1..made : j \in Number /\ seats'[j] # NoSeat =>
              seats[j] # NoSeat /\ seats'[j].device = seats[j].device
  <2> SUFFICES ASSUME NEW j \in 1..made, j \in Number, seats'[j] # NoSeat
               PROVE  seats[j] # NoSeat /\ seats'[j].device = seats[j].device
    OBVIOUS
  <2>1. CASE j # k
    BY <1>1, <2>1
  <2>2. CASE j = k
    <3>1. k <= made
      BY <2>2
    <3> QED BY <1>1, <2>2, <3>1
  <2> QED BY <2>1, <2>2
<1>4. \A s : Gone(s) /\ s \in Number => s \in 1..made' /\ (seats'[s] = NoSeat \/ s = k)
  BY <1>1, <1>2 DEF Gone
<1>5. \A j \in Number : seats'[j] # NoSeat => j <= made'
  <2>1. ASSUME NEW j \in Number, seats'[j] # NoSeat, j # k PROVE j <= made'
    <3>1. seats[j] # NoSeat
      BY <1>1, <2>1
    <3>2. j <= made /\ j \in Nat
      BY <2>1, <3>1 DEF RoomFits, Number
    <3> QED BY <1>1, <1>2, <3>2
  <2> QED BY <1>1, <2>1
<1> QED BY <1>3, <1>4, <1>5

\* A seat that is gone stays gone: it is only taken by who has it.
LEMMA GoneStays ==
  ASSUME SeatIInv, NEW k, NEW device, Taken(k, device), NEW s, Gone(s)
  PROVE  Gone(s)'
<1>1. Types /\ RoomFits
  BY DEF SeatIInv
<1>2. s \in Number /\ s \in 1..made /\ seats[s] = NoSeat
  BY SeatNumbers DEF Gone
<1>3. k <= made => seats[k] # NoSeat
  BY DEF Taken
<1>4. s # k
  BY <1>2, <1>3
<1> QED BY <1>1, <1>2, <1>4, TakenLeaves DEF Gone

\* The profile of a player who is in the room is set.
LEMMA ProfilesKeeps ==
  ASSUME SeatIInv, NEW m, Taking(m), NEW x \in Message, NEW y \in Message, Profiles(m, x, y)
  PROVE  SeatIInv'
<1>1. Types
  BY DEF SeatIInv
<1>2. /\ UNCHANGED <<phone, linked, conn, devices, refused, losses, timeouts, round>>
      /\ UNCHANGED <<open, alive, recoverable, seats, made, who>>
      /\ In(up) = In(up') \cup {m} /\ m \in In(up) /\ conn \in alive
  BY DEF Taking, Untouched, Profiles, Silent
<1>3. /\ m.kind = "profile" /\ open /\ who = m.seat /\ who \in Number
      /\ seats[who] # NoSeat /\ seats[who].socket = conn
      /\ x.kind = "profile-ok" /\ x.seat = m.seat /\ x.ask = 0
      /\ y.kind = "room" /\ y.round = round /\ y.seat = 0 /\ y.ask = 0
      /\ Hears({x}, {y})
  BY DEF Profiles, News
<1>4. In(down') = In(down) \cup (IF linked THEN {x, y} ELSE IF recoverable THEN {y} ELSE {})
  <2>1. {x} \cup {y} = {x, y}
    OBVIOUS
  <2> QED BY <1>3, <2>1 DEF Hears
<1>5. x.kind \in Seating /\ y.kind \notin Seating
  BY <1>3 DEF Seating
<1>6. who # 0 /\ who \in 1..made
  <2>1. who <= made
    BY <1>3 DEF SeatIInv, RoomFits
  <2> QED BY <1>1, <1>3, <2>1 DEF Number, Types, TypeOK
<1>7. /\ \A s : Gone(s)' = Gone(s) /\ Sits(s)' = Sits(s)
      /\ Live <=> linked
  BY <1>2 DEF Gone, Sits, Live
\* It is the phone's own seat.
<1>8. ASSUME Live
      PROVE  /\ m.seat = phone.stored /\ phone.stored # 0 /\ phone.device # 0 /\ ~phone.ended
             /\ Sits(m.seat) /\ ~Gone(phone.stored)
  <2>1. On
    BY <1>8 DEF On, Live
  <2>2. ~Gone(m.seat)
    BY <1>3 DEF Gone
  <2>3. m.seat = phone.stored
    BY <1>2, <1>3, <2>1, <2>2 DEF SeatIInv, UpFits
  <2>4. phone.stored # 0 /\ phone.device # 0 /\ ~phone.ended
    BY <1>3, <1>6, <2>3 DEF SeatIInv, PhoneFits
  <2>5. seats[who].device = phone.device
    BY <1>3, <2>3, <2>4 DEF SeatIInv, DevicesFit
  <2>6. seats[who] \in [device : Nat, socket : Nat]
    BY <1>1, <1>3 DEF Types, TypeOK
  <2>7. Sits(m.seat)
    BY <1>3, <2>5, <2>6 DEF Sits
  <2> QED BY <2>2, <2>3, <2>4, <2>7
<1>9. /\ Types' /\ PhoneFits' /\ AsksFit' /\ RoomFits' /\ LineFits' /\ NewsFit'
      /\ Live' = Live /\ On' = On /\ Pending' = Pending /\ Closing' = Closing
  <2>1. /\ seats' \in [Number -> [device : Nat, socket : Nat]] /\ made' \in Number \cup {0}
        /\ who' \in Number \cup {0} /\ made <= made' /\ 0 <= made'
    BY <1>1, <1>2 DEF Types, TypeOK
  <2>2. \A k \in Number : seats'[k] # NoSeat => k <= made'
    BY <1>2 DEF SeatIInv, RoomFits
  <2>3. {x} \in SUBSET Message /\ {y} \in SUBSET Message
    OBVIOUS
  <2>4. \A n \in {x} \cup {y} :
            /\ n.kind # "closed" /\ n.ask \in {0, m.ask} /\ n.seat <= made'
            /\ n.kind \in Seating => n.seat \in 1..made'
            /\ n.kind \in {"resume-ok", "resume-error"} => n.ask = m.ask /\ m.kind = "resume"
            /\ n.kind = "room" => n \in {y} /\ n.round = round /\ who' # 0
    <3>1. who <= made /\ who \in 1..made'
      BY <1>2, <1>6
    <3> QED BY <1>2, <1>3, <1>5, <1>6, <2>1, <3>1
  <2>5. Live => \A n \in In(down) : ~(n.kind = "resume-error" /\ n.ask = phone.awaiting)
    BY <1>3, <1>8 DEF SeatIInv, DownFits
  <2>6. UNCHANGED <<alive, recoverable>> /\ (open \/ seats' = seats) /\ (who # 0 => who' # 0)
    BY <1>2
  <2>7. \A n \in {y} : n.kind \in Events
    BY <1>3 DEF Events
  <2>8. \/ \A n \in {x} \cup {y} : n.kind \notin Seating
        \/ open /\ (Live => \A n \in In(down) : ~(n.kind = "resume-error" /\ n.ask = phone.awaiting))
    BY <1>3, <2>5
  <2> QED BY <1>3, <2>1, <2>2, <2>3, <2>4, <2>6, <2>7, <2>8, AnswerFits
<1>10. JoinsAlone'
  BY <1>2, <1>3, <1>4 DEF SeatIInv, JoinsAlone, Joining
<1>11. DevicesFit'
  <2>1. \A n \in In(down') : n.kind \in Seating => n \in In(down) \/ (Live /\ n = x)
    BY <1>4, <1>5, <1>7
  <2>2. Live => seats[x.seat].device = phone.device
    BY <1>3, <1>8 DEF Sits
  <2> QED BY <1>2, <1>8, <2>1, <2>2 DEF SeatIInv, DevicesFit
<1>12. UpFits'
  BY <1>2, <1>7, <1>9 DEF SeatIInv, UpFits
<1>13. DownFits'
  <2>1. \A n \in In(down') : n.kind \in Seating => n \in In(down) \/ (Live /\ n = x)
    BY <1>4, <1>5, <1>7
  <2>2. Live => x.seat = phone.stored /\ Sits(x.seat) /\ x.kind # "resumed"
    BY <1>3, <1>8
  <2>3. \A n \in In(down') : n.kind \in Seating =>
          /\ phone.stored # 0 => n.seat = phone.stored
          /\ n.kind = "resumed" => n.seat = phone.stored
          /\ \A o \in In(down') : o.kind \in Seating => n.seat = o.seat
    BY <1>8, <2>1, <2>2 DEF SeatIInv, DownFits
  <2>4. Live => \A n \in In(down') : n.kind \in Seating =>
          Sits(n.seat) \/ Closing \/ (n.kind = "resumed" /\ Pending)
    BY <2>1, <2>2 DEF SeatIInv, DownFits
  <2>5. Live => \A n \in In(down') : n.kind = "resume-error" => n \in In(down)
    BY <1>3, <1>4
  <2> QED BY <1>2, <1>7, <1>9, <2>3, <2>4, <2>5 DEF SeatIInv, DownFits
<1>14. EndedFits'
  BY <1>2, <1>7, <1>8, <1>9 DEF SeatIInv, EndedFits
<1>15. PendFits'
  BY <1>2, <1>3, <1>4, <1>9 DEF SeatIInv, PendFits
<1>16. Settles'
  BY <1>2, <1>3, <1>4, <1>7, <1>9 DEF SeatIInv, Settles
<1> QED BY <1>9, <1>10, <1>11, <1>12, <1>13, <1>14, <1>15, <1>16 DEF SeatIInv
\* A phone is given a seat.
LEMMA JoinsKeeps ==
  ASSUME SeatIInv, NEW m, Taking(m), NEW x \in Message, NEW y \in Message, NEW k, Joins(m, k, x, y)
  PROVE  SeatIInv'
<1>1. Types /\ RoomFits
  BY DEF SeatIInv
<1>2. /\ UNCHANGED <<phone, linked, conn, devices, refused, losses, timeouts, round>>
      /\ UNCHANGED <<open, alive, recoverable>>
      /\ In(up) = In(up') \cup {m} /\ m \in In(up) /\ conn \in alive
  BY DEF Taking, Untouched, Joins
<1>3. /\ m.kind = "join" /\ open /\ Taken(k, m.device)
      /\ x.kind = "joined" /\ x.seat = k /\ x.ask = 0
      /\ y.kind = "room" /\ y.round = round /\ y.seat = 0 /\ y.ask = 0
      /\ Hears({x}, {y})
  BY DEF Joins, News
<1>4. In(down') = In(down) \cup (IF linked THEN {x, y} ELSE IF recoverable THEN {y} ELSE {})
  <2>1. {x} \cup {y} = {x, y}
    OBVIOUS
  <2> QED BY <1>3, <2>1 DEF Hears
<1>5. x.kind \in Seating /\ y.kind \notin Seating
  BY <1>3 DEF Seating
<1>6. /\ k \in Number /\ seats' \in [Number -> [device : Nat, socket : Nat]]
      /\ seats'[k] = [device |-> m.device, socket |-> conn]
      /\ who' = k /\ made' \in Number /\ made <= made' /\ k <= made'
      /\ \A j \in Number : seats[j] # NoSeat /\ seats[j].device = m.device => j = k
  BY <1>3 DEF Taken
<1>7. k \in 1..made' /\ k # 0 /\ 0 <= made'
  BY <1>6, SessionBoundsFit DEF Number
<1>8. /\ \A j \in 1..made : seats'[j] # NoSeat => seats[j] # NoSeat /\ seats'[j].device = seats[j].device
      /\ \A j \in Number : seats'[j] # NoSeat => j <= made'
      /\ \A s : Gone(s) => Gone(s)'
  <2>1. \A s : Gone(s) => Gone(s)'
    BY <1>3, GoneStays
  <2>2. /\ \A j \in 1..made : j \in Number /\ seats'[j] # NoSeat =>
              seats[j] # NoSeat /\ seats'[j].device = seats[j].device
        /\ \A j \in Number : seats'[j] # NoSeat => j <= made'
    BY <1>1, <1>3, TakenLeaves
  <2> QED BY <2>1, <2>2, SeatNumbers
\* A phone that joins awaits nothing, and what it knows of is this seat.
<1>9. ASSUME Live
      PROVE  /\ phone.awaiting = 0 /\ ~phone.retry /\ ~phone.ended
             /\ m.device = phone.device /\ phone.device # 0
             /\ phone.stored # 0 => phone.stored = k
             /\ \A n \in In(down) : n.kind \in Seating => n.seat = k
             /\ Sits(k)'
  <2>1. Joining
    BY <1>2, <1>3, <1>9 DEF Joining, Live
  <2>2. phone.awaiting = 0 /\ ~phone.retry
    BY <2>1 DEF SeatIInv, JoinsAlone
  <2>3. ~phone.ended
    BY <1>2, <1>3, <1>9 DEF SeatIInv, EndedFits
  <2>4. m.device = phone.device /\ (phone.stored # 0 => Sits(phone.stored))
    BY <1>2, <1>3, <1>9 DEF SeatIInv, UpFits
  <2>5. phone.device # 0
    BY <1>1, <1>2, <2>4 DEF Types
  <2>6. ASSUME NEW s, Sits(s) PROVE s = k
    <3>1. s \in Number /\ seats[s] = [device |-> phone.device, socket |-> conn]
      BY <2>6 DEF Sits
    <3>2. seats[s] # NoSeat /\ seats[s].device = m.device
      BY <2>4, <2>5, <3>1 DEF NoSeat
    <3> QED BY <1>6, <3>1, <3>2
  <2>7. phone.stored # 0 => phone.stored = k
    BY <2>4, <2>6
  <2>8. ASSUME NEW n \in In(down), n.kind \in Seating PROVE n.seat = k
    <3>1. Sits(n.seat) \/ n.kind = "resumed"
      BY <1>3, <1>9, <2>8 DEF SeatIInv, DownFits, LineFits
    <3>2. n.kind = "resumed" => n.seat = phone.stored
      BY <2>8 DEF SeatIInv, DownFits
    <3>3. n.seat # 0
      BY <2>8, SeatNumbers
    <3> QED BY <2>6, <2>7, <3>1, <3>2, <3>3
  <2>9. Sits(k)'
    BY <1>2, <1>6, <2>4 DEF Sits
  <2> QED BY <2>2, <2>3, <2>4, <2>5, <2>7, <2>8, <2>9
<1>10. /\ Types' /\ PhoneFits' /\ AsksFit' /\ RoomFits' /\ LineFits' /\ NewsFit'
       /\ Live' = Live /\ On' = On /\ Pending' = Pending /\ Closing' = Closing
  <2>1. /\ made' \in Number \cup {0} /\ who' \in Number \cup {0} /\ who' # 0
    BY <1>6, <1>7
  <2>2. {x} \in SUBSET Message /\ {y} \in SUBSET Message
    OBVIOUS
  <2>3. \A n \in {x} \cup {y} :
            /\ n.kind # "closed" /\ n.ask \in {0, m.ask} /\ n.seat <= made'
            /\ n.kind \in Seating => n.seat \in 1..made'
            /\ n.kind \in {"resume-ok", "resume-error"} => n.ask = m.ask /\ m.kind = "resume"
            /\ n.kind = "room" => n \in {y} /\ n.round = round /\ who' # 0
    BY <1>3, <1>5, <1>6, <1>7, <2>1
  <2>4. Live => \A n \in In(down) : ~(n.kind = "resume-error" /\ n.ask = phone.awaiting)
    BY <1>9 DEF SeatIInv, AsksFit
  <2>5. UNCHANGED <<alive, recoverable>> /\ (open \/ seats' = seats) /\ (who # 0 => who' # 0)
    BY <1>2, <1>3, <2>1
  <2>6. \A n \in {y} : n.kind \in Events
    BY <1>3 DEF Events
  <2>7. \/ \A n \in {x} \cup {y} : n.kind \notin Seating
        \/ open /\ (Live => \A n \in In(down) : ~(n.kind = "resume-error" /\ n.ask = phone.awaiting))
    BY <1>3, <2>4
  <2> QED BY <1>3, <1>6, <1>8, <2>1, <2>2, <2>3, <2>5, <2>6, <2>7, AnswerFits
<1>11. Live <=> linked
  BY <1>2 DEF Live
<1>12. \A n \in In(down') : n.kind \in Seating => n \in In(down) \/ (Live /\ n = x)
  BY <1>4, <1>5, <1>11
<1>13. JoinsAlone'
  <2>1. Joining' => Joining
    BY <1>2, <1>3, <1>4 DEF Joining
  <2> QED BY <1>2, <2>1 DEF SeatIInv, JoinsAlone
<1>14. DevicesFit'
  <2>1. Live => seats'[x.seat].device = phone.device
    BY <1>3, <1>6, <1>9
  <2>2. phone.stored # 0 /\ seats'[phone.stored] # NoSeat
            => seats'[phone.stored].device = phone.device
    BY <1>8, SeatNumbers DEF SeatIInv, DevicesFit
  <2>3. ASSUME NEW n \in In(down), n.kind \in Seating
        PROVE  phone.device # 0 /\ (seats'[n.seat] # NoSeat => seats'[n.seat].device = phone.device)
    BY <1>8, <2>3, SeatNumbers DEF SeatIInv, DevicesFit
  <2> QED BY <1>2, <1>9, <1>12, <2>1, <2>2, <2>3 DEF DevicesFit
<1>15. UpFits'
  BY <1>2, <1>8, <1>9, <1>10 DEF SeatIInv, UpFits
<1>16. DownFits'
  <2>1. Live => \A n \in In(down') : n.kind \in Seating => n.seat = k
    BY <1>3, <1>9, <1>12
  <2>2. ASSUME NEW n \in In(down'), n.kind \in Seating
        PROVE  /\ phone.stored # 0 => n.seat = phone.stored
               /\ n.kind = "resumed" => n.seat = phone.stored
    <3>1. CASE n \in In(down)
      BY <2>2, <3>1 DEF SeatIInv, DownFits
    <3>2. CASE Live /\ n = x
      BY <1>3, <1>9, <3>2
    <3> QED BY <1>12, <2>2, <3>1, <3>2
  <2>3. ASSUME NEW n \in In(down'), n.kind \in Seating, NEW o \in In(down'), o.kind \in Seating
        PROVE  n.seat = o.seat
    <3>1. CASE Live
      BY <2>1, <2>3, <3>1
    <3>2. CASE ~Live
      BY <1>12, <2>3, <3>2 DEF SeatIInv, DownFits
    <3> QED BY <3>1, <3>2
  <2>4. Live => \A n \in In(down') : n.kind \in Seating => Sits(n.seat)'
    BY <1>9, <2>1
  <2>5. Live => \A n \in In(down') : n.kind = "resume-error" => n.ask # phone.awaiting
    BY <1>3, <1>4, <1>9 DEF SeatIInv, AsksFit
  <2> QED BY <1>2, <1>10, <2>2, <2>3, <2>4, <2>5 DEF DownFits
<1>17. EndedFits'
  BY <1>2, <1>9, <1>10, <1>11 DEF SeatIInv, EndedFits
<1>18. PendFits'
  <2>1. ASSUME Live, phone.leaving
        PROVE  refused \/ (\E q \in In(up') : q.kind = "leave")
                 \/ (\E n \in In(down') : n.kind = "leave-error")
    <3>1. refused \/ (\E q \in In(up) : q.kind = "leave")
            \/ (\E n \in In(down) : n.kind = "leave-error")
      BY <1>2, <1>3, <2>1 DEF SeatIInv, PendFits
    <3> QED BY <1>2, <1>3, <1>4, <3>1
  <2> QED BY <1>2, <1>9, <1>10, <2>1 DEF PendFits
<1>19. Settles'
  <2>1. Live => y \in In(down')
    BY <1>4, <1>11
  <2>2. Live /\ phone.connected /\ phone.stored # 0 => phone.player = phone.stored /\ Sits(phone.stored)'
    BY <1>2, <1>9 DEF SeatIInv, Settles, Sits
  <2> QED BY <1>2, <1>3, <1>6, <1>7, <1>10, <2>1, <2>2 DEF Settles
<1> QED BY <1>10, <1>13, <1>14, <1>15, <1>16, <1>17, <1>18, <1>19 DEF SeatIInv

\* A phone is given back its seat.
LEMMA ResumesKeeps ==
  ASSUME SeatIInv, NEW m, Taking(m), NEW x \in Message, NEW y \in Message, NEW z \in Message,
         Resumes(m, x, y, z)
  PROVE  SeatIInv'
<1>1. Types /\ RoomFits
  BY DEF SeatIInv
<1>2. /\ UNCHANGED <<phone, linked, conn, devices, refused, losses, timeouts, round>>
      /\ UNCHANGED <<open, alive, recoverable, made>>
      /\ In(up) = In(up') \cup {m} /\ m \in In(up) /\ conn \in alive
  BY DEF Taking, Untouched, Resumes
<1>3. /\ m.kind = "resume" /\ open /\ Taken(m.seat, m.device)
      /\ seats[m.seat] # NoSeat /\ m.seat <= made
      /\ x.kind = "resume-ok" /\ x.seat = m.seat /\ x.ask = m.ask
      /\ y.kind = "resumed" /\ y.seat = m.seat /\ y.ask = 0
      /\ z.kind = "room" /\ z.round = round /\ z.seat = 0 /\ z.ask = 0
      /\ Hears({x}, {y, z})
  BY DEF Resumes, News
<1>4. In(down') = In(down) \cup (IF linked THEN {x, y, z} ELSE IF recoverable THEN {y, z} ELSE {})
  <2>1. {x} \cup {y, z} = {x, y, z}
    OBVIOUS
  <2> QED BY <1>3, <2>1 DEF Hears
<1>5. x.kind \in Seating /\ y.kind \in Seating /\ z.kind \notin Seating
  BY <1>3 DEF Seating
<1>6. /\ m.seat \in Number /\ seats' \in [Number -> [device : Nat, socket : Nat]]
      /\ seats'[m.seat] = [device |-> m.device, socket |-> conn]
      /\ who' = m.seat /\ made' \in Number /\ made <= made' /\ m.seat <= made'
  BY <1>3 DEF Taken
<1>7. m.seat \in 1..made' /\ m.seat # 0 /\ 0 <= made'
  BY <1>6, SessionBoundsFit DEF Number
<1>8. /\ \A j \in 1..made : seats'[j] # NoSeat => seats[j] # NoSeat /\ seats'[j].device = seats[j].device
      /\ \A j \in Number : seats'[j] # NoSeat => j <= made'
      /\ \A s : Gone(s) => Gone(s)'
  <2>1. \A s : Gone(s) => Gone(s)'
    BY <1>3, GoneStays
  <2>2. /\ \A j \in 1..made : j \in Number /\ seats'[j] # NoSeat =>
              seats[j] # NoSeat /\ seats'[j].device = seats[j].device
        /\ \A j \in Number : seats'[j] # NoSeat => j <= made'
    BY <1>1, <1>3, TakenLeaves
  <2> QED BY <2>1, <2>2, SeatNumbers
<1>9. (Live <=> linked) /\ (Live => On) /\ (~linked /\ recoverable => On)
  BY <1>2 DEF Live, On
\* A phone that hears of it asked for the seat it has.
<1>10. ASSUME On
       PROVE  /\ m.seat = phone.stored /\ m.device = phone.device /\ phone.device # 0
              /\ Sits(phone.stored)' /\ ~Gone(phone.stored)
  <2>1. ~Gone(m.seat)
    BY <1>3 DEF Gone
  <2>2. m.seat = phone.stored /\ m.device = phone.device
    BY <1>2, <1>3, <1>10, <2>1 DEF SeatIInv, UpFits
  <2>3. phone.device # 0
    BY <1>1, <1>2, <2>2 DEF Types
  <2>4. Sits(phone.stored)'
    BY <1>2, <1>6, <2>2 DEF Sits
  <2> QED BY <2>1, <2>2, <2>3, <2>4
<1>11. /\ Types' /\ PhoneFits' /\ AsksFit' /\ RoomFits' /\ LineFits' /\ NewsFit'
       /\ Live' = Live /\ On' = On /\ Pending' = Pending /\ Closing' = Closing
  <2>1. /\ made' \in Number \cup {0} /\ who' \in Number \cup {0} /\ who' # 0
    BY <1>6, <1>7
  <2>2. {x} \in SUBSET Message /\ {y, z} \in SUBSET Message
    OBVIOUS
  <2>3. \A n \in {x} \cup {y, z} :
            /\ n.kind # "closed" /\ n.ask \in {0, m.ask} /\ n.seat <= made'
            /\ n.kind \in Seating => n.seat \in 1..made'
            /\ n.kind \in {"resume-ok", "resume-error"} => n.ask = m.ask /\ m.kind = "resume"
            /\ n.kind = "room" => n \in {y, z} /\ n.round = round /\ who' # 0
    BY <1>3, <1>5, <1>6, <1>7, <2>1
  <2>4. Live => \A n \in In(down) : ~(n.kind = "resume-error" /\ n.ask = phone.awaiting)
    BY <1>3, <1>9, <1>10 DEF SeatIInv, DownFits
  <2>5. UNCHANGED <<alive, recoverable>> /\ (open \/ seats' = seats) /\ (who # 0 => who' # 0)
    BY <1>2, <1>3, <2>1
  <2>6. \A n \in {y, z} : n.kind \in Events
    BY <1>3 DEF Events
  <2>7. \/ \A n \in {x} \cup {y, z} : n.kind \notin Seating
        \/ open /\ (Live => \A n \in In(down) : ~(n.kind = "resume-error" /\ n.ask = phone.awaiting))
    BY <1>3, <2>4
  <2> QED BY <1>3, <1>6, <1>8, <2>1, <2>2, <2>3, <2>5, <2>6, <2>7, AnswerFits
<1>12. \A n \in In(down') : n.kind \in Seating => n \in In(down) \/ (On /\ n.seat = m.seat)
  BY <1>3, <1>4, <1>5, <1>9
<1>13. JoinsAlone'
  <2>1. Joining' => Joining
    BY <1>2, <1>3, <1>4 DEF Joining
  <2> QED BY <1>2, <2>1 DEF SeatIInv, JoinsAlone
<1>14. DevicesFit'
  <2>1. On => seats'[m.seat].device = phone.device
    BY <1>6, <1>10
  <2>2. phone.stored # 0 /\ seats'[phone.stored] # NoSeat
            => seats'[phone.stored].device = phone.device
    BY <1>8, SeatNumbers DEF SeatIInv, DevicesFit
  <2>3. ASSUME NEW n \in In(down), n.kind \in Seating
        PROVE  phone.device # 0 /\ (seats'[n.seat] # NoSeat => seats'[n.seat].device = phone.device)
    BY <1>8, <2>3, SeatNumbers DEF SeatIInv, DevicesFit
  <2> QED BY <1>2, <1>10, <1>12, <2>1, <2>2, <2>3 DEF DevicesFit
<1>15. UpFits'
  BY <1>2, <1>8, <1>9, <1>10, <1>11 DEF SeatIInv, UpFits
<1>16. DownFits'
  <2>1. ASSUME NEW n \in In(down'), n.kind \in Seating
        PROVE  /\ phone.stored # 0 => n.seat = phone.stored
               /\ n.kind = "resumed" => n.seat = phone.stored
               /\ On => n.seat = phone.stored
    <3>1. CASE n \in In(down)
      <4>1. On => phone.stored # 0
        BY <1>7, <1>10
      <4> QED BY <2>1, <3>1, <4>1 DEF SeatIInv, DownFits
    <3>2. CASE On /\ n.seat = m.seat
      BY <1>10, <3>2
    <3> QED BY <1>12, <2>1, <3>1, <3>2
  <2>2. ASSUME NEW n \in In(down'), n.kind \in Seating, NEW o \in In(down'), o.kind \in Seating
        PROVE  n.seat = o.seat
    <3>1. CASE On
      BY <2>1, <2>2, <3>1
    <3>2. CASE ~On
      BY <1>12, <2>2, <3>2 DEF SeatIInv, DownFits
    <3> QED BY <3>1, <3>2
  <2>3. Live => \A n \in In(down') : n.kind \in Seating => Sits(n.seat)'
    BY <1>2, <1>9, <1>10, <2>1 DEF Sits
  <2>4. Live => \A n \in In(down') : n.kind = "resume-error" => n.ask # phone.awaiting
    <3>1. \A n \in In(down') : n.kind = "resume-error" => n \in In(down)
      BY <1>3, <1>4
    <3> QED BY <1>3, <1>9, <1>10, <3>1 DEF SeatIInv, DownFits
  <2> QED BY <1>2, <1>11, <2>1, <2>2, <2>3, <2>4 DEF DownFits
<1>17. EndedFits'
  <2>1. \A n \in In(down') : n.kind \in {"joined", "profile-ok"} => n \in In(down)
    BY <1>3, <1>4
  <2> QED BY <1>2, <1>8, <1>11, <2>1 DEF SeatIInv, EndedFits
<1>18. PendFits'
  <2>1. ASSUME Live, phone.awaiting # 0
        PROVE  \/ \E q \in In(up') : q.kind = "resume" /\ q.ask = phone.awaiting
               \/ \E n \in In(down') : n.kind \in {"resume-ok", "resume-error"} /\ n.ask = phone.awaiting
    <3>1. CASE m.ask = phone.awaiting
      BY <1>3, <1>4, <1>9, <2>1, <3>1
    <3>2. CASE m.ask # phone.awaiting
      BY <1>2, <1>4, <2>1, <3>2 DEF SeatIInv, PendFits
    <3> QED BY <3>1, <3>2
  <2>2. ASSUME Live, phone.leaving,
               phone.connected \/ (\E q \in In(up') : q.kind = "join")
                 \/ (\E n \in In(down') : n.kind = "joined")
        PROVE  refused \/ (\E q \in In(up') : q.kind = "leave")
                 \/ (\E n \in In(down') : n.kind = "leave-error")
    <3>1. phone.connected \/ (\E q \in In(up) : q.kind = "join")
            \/ (\E n \in In(down) : n.kind = "joined")
      BY <1>2, <1>3, <1>4, <2>2
    <3>2. refused \/ (\E q \in In(up) : q.kind = "leave")
            \/ (\E n \in In(down) : n.kind = "leave-error")
      BY <2>2, <3>1 DEF SeatIInv, PendFits
    <3> QED BY <1>2, <1>3, <1>4, <3>2
  <2> QED BY <1>2, <1>11, <2>1, <2>2 DEF PendFits
<1>19. Settles'
  <2>1. Live => z \in In(down')
    BY <1>4, <1>9
  <2>2. Live /\ phone.connected /\ phone.stored # 0 => phone.player = phone.stored /\ Sits(phone.stored)'
    BY <1>9, <1>10 DEF SeatIInv, Settles
  <2> QED BY <1>2, <1>3, <1>6, <1>7, <1>11, <2>1, <2>2 DEF Settles
<1> QED BY <1>11, <1>13, <1>14, <1>15, <1>16, <1>17, <1>18, <1>19 DEF SeatIInv

\* A request is handled.
LEMMA HandleKeeps == ASSUME SeatIInv, OneSeatPerDevice, Handle PROVE SeatIInv'
<1> DEFINE m == Head(up)
<1>1. /\ conn \in alive /\ m \in Question /\ up' \in Seq(Question) /\ In(up) = In(up') \cup {m}
      /\ UNCHANGED <<client, open, round>>
      /\ \/ \E x \in Message : Refuses(m, x)
         \/ \E x, y \in Message : Profiles(m, x, y)
         \/ \E x, y \in Message, k \in Number : Joins(m, k, x, y)
         \/ \E x, y, z \in Message : Resumes(m, x, y, z)
         \/ Leaves(m)
  BY HandleDoes DEF SeatIInv
<1> HIDE DEF m
<1>2. Taking(m) /\ Untouched /\ In(up') \subseteq In(up)
  BY <1>1 DEF Taking, Untouched, client
<1>3. CASE \E x \in Message : Refuses(m, x)
  BY <1>2, <1>3, RefusesKeeps
<1>4. CASE \E x, y \in Message : Profiles(m, x, y)
  BY <1>2, <1>4, ProfilesKeeps
<1>5. CASE \E x, y \in Message, k \in Number : Joins(m, k, x, y)
  BY <1>2, <1>5, JoinsKeeps
<1>6. CASE \E x, y, z \in Message : Resumes(m, x, y, z)
  BY <1>2, <1>6, ResumesKeeps
<1>7. CASE Leaves(m)
  BY <1>1, <1>2, <1>7, SeverKeeps DEF Leaves
<1> QED BY <1>1, <1>3, <1>4, <1>5, <1>6, <1>7
-----------------------------------------------------------------------------
(* The theorems.                                                           *)

LEMMA InitFits == ASSUME Init PROVE SeatIInv
<1>1. /\ phone = NewPhone(0, 0)
      /\ linked = FALSE /\ conn = 0 /\ alive = {} /\ recoverable = FALSE
      /\ up = <<>> /\ down = <<>> /\ open = TRUE /\ round = 0
      /\ seats = [k \in Number |-> NoSeat] /\ made = 0 /\ who = 0
      /\ devices = 0 /\ refused = FALSE /\ losses = 0 /\ timeouts = 0
  BY DEF Init
<1>2. /\ phone \in Phone /\ phone.stored = 0 /\ phone.device = 0 /\ phone.player = 0
      /\ ~phone.ended /\ ~phone.leaving /\ ~phone.resuming /\ ~phone.retry
      /\ phone.awaiting = 0 /\ ~phone.connected
  BY <1>1 DEF NewPhone, Phone
<1>3. In(up) = {} /\ In(down) = {} /\ Sealed(down) /\ Told(down) /\ \A a : Refusing(down, a) /\ Newest(down, a)
  BY <1>1, EmptyLine
<1>4. seats \in [Number -> [device : Nat, socket : Nat]] /\ \A k \in Number : seats[k] = NoSeat
  BY <1>1 DEF NoSeat
<1>5. ~Live /\ ~On
  BY <1>1 DEF Live, On
<1>6. Types
  <2>1. TypeOK
    <3>1. /\ linked \in BOOLEAN /\ recoverable \in BOOLEAN /\ open \in BOOLEAN /\ refused \in BOOLEAN
      BY <1>1
    <3>2. up \in Seq(Question) /\ down \in Seq(Message)
      BY <1>1
    <3>3. /\ {conn, round, made, who, devices, losses, timeouts} \subseteq Nat
          /\ who \in Number \cup {0} /\ made \in Number \cup {0} /\ alive \subseteq 1..conn
          /\ phone.device <= devices /\ phone.stored <= made
      BY <1>1, <1>2
    <3> QED BY <1>2, <1>4, <3>1, <3>2, <3>3 DEF TypeOK, Question, Message
  <2>2. ~recoverable
    BY <1>1
  <2> QED BY <1>3, <2>1, <2>2 DEF Types
<1>7. PhoneFits /\ RoomFits /\ JoinsAlone /\ DevicesFit
  BY <1>1, <1>2, <1>3, <1>4 DEF PhoneFits, RoomFits, JoinsAlone, Joining, DevicesFit
<1>8. AsksFit
  BY <1>1, <1>2, <1>3 DEF AsksFit
<1>9. LineFits /\ EndedFits /\ UpFits /\ DownFits
  BY <1>1, <1>3, <1>5 DEF LineFits, Closing, EndedFits, UpFits, DownFits
<1>10. PendFits /\ NewsFit /\ Settles
  BY <1>5 DEF PendFits, NewsFit, Settles
<1> QED BY <1>6, <1>7, <1>8, <1>9, <1>10 DEF SeatIInv

LEMMA NextKeeps == ASSUME SeatIInv, OneSeatPerDevice, Next PROVE SeatIInv'
<1>1. CASE PlayerStep
  BY <1>1, JoinKeeps, LeaveKeeps, SetProfileKeeps, DiscardKeeps DEF PlayerStep
<1>2. CASE PhoneStep
  BY <1>2, ConnectKeeps, TimesOutKeeps, RetryKeeps, ReceiveKeeps DEF PhoneStep
<1>3. CASE ServerStep
  <2>1. CASE Handle
    BY <2>1, HandleKeeps
  <2>2. CASE \E c \in alive : NoticeLoss(c)
    BY <2>2, NoticeKeeps
  <2>3. CASE \E k \in Number : Kick(k)
    BY <2>3, KickKeeps
  <2>4. CASE CloseRoom
    BY <2>4, CloseKeeps
  <2>5. CASE NextRound
    BY <2>5, NextRoundKeeps
  <2> QED BY <1>3, <2>1, <2>2, <2>3, <2>4, <2>5 DEF ServerStep
<1>4. CASE Fault
  BY <1>4, LoseKeeps DEF Fault
<1> QED BY <1>1, <1>2, <1>3, <1>4 DEF Next

LEMMA StutterKeeps == ASSUME SeatIInv, UNCHANGED vars PROVE SeatIInv'
<1>1. /\ UNCHANGED <<phone, linked, conn, devices, refused, losses, timeouts, round>>
      /\ UNCHANGED <<open, made, who, recoverable, down, alive, up, seats>>
  BY DEF vars, client, roomVars
<1>2. Untouched /\ Types
  BY <1>1 DEF Untouched, SeatIInv
<1>3. /\ seats' \in [Number -> [device : Nat, socket : Nat]] /\ up' \in Seq(Question)
  BY <1>1, <1>2 DEF Types, TypeOK, Question
<1> QED BY <1>1, <1>2, <1>3, ShrinkKeeps

\* What holds in every state.
LEMMA SeatIInvHolds == Spec => []SeatIInv
<1>1. Init => SeatIInv
  BY InitFits
<1>2. SeatIInv /\ OneSeatPerDevice /\ [Next]_vars => SeatIInv'
  BY NextKeeps, StutterKeeps
<1>3. Spec => []OneSeatPerDevice
  BY DevicesSitOnce
<1> QED BY <1>1, <1>2, <1>3, PTL DEF Spec

\* The variables have their types, and the phone knows of no device or seat that was
\* never made (controllerSocketClient.ts 100-119, registerSocketHandlers.ts 491-588).
THEOREM PhoneTypeOK == Spec => []TypeOK
<1>1. SeatIInv => TypeOK
  BY DEF SeatIInv, Types
<1> QED BY <1>1, SeatIInvHolds, PTL

\* A session the phone has ended stays ended: no acknowledgement, event or retry that
\* was under way stores it again (controllerSocketClient.ts 163, 231, 352).
THEOREM EndedSessionsStayEnded == Spec => []EndedStaysEnded
<1>1. SeatIInv => EndedStaysEnded
  BY DEF SeatIInv, PhoneFits, EndedStaysEnded
<1> QED BY <1>1, SeatIInvHolds, PTL

\* A phone on which nothing is pending, when nothing is under way either.
LEMMA SettledFits ==
  ASSUME SeatIInv, Settled, phone.connected, phone.player # 0
  PROVE  /\ phone.player = phone.stored /\ phone.stored = who
         /\ seats[who] = [device |-> phone.device, socket |-> conn]
         /\ phone.shown = round
<1>1. /\ In(up) = {} /\ In(down) = {} /\ ~phone.retry /\ ~refused /\ Live
  BY EmptyLine DEF Settled, Live
<1>2. phone.player = phone.stored /\ phone.stored # 0
  BY DEF SeatIInv, PhoneFits
<1>3. phone.awaiting = 0 /\ ~phone.leaving
  BY <1>1 DEF SeatIInv, PendFits
<1>4. ~Pending /\ ~Closing
  BY <1>1, <1>3 DEF Pending, Closing
<1>5. Sits(phone.stored) /\ phone.shown = round
  BY <1>1, <1>2, <1>3, <1>4 DEF SeatIInv, Settles
<1> QED BY <1>2, <1>5 DEF Sits

\* When nothing is under way, a phone with its room on screen and its controls enabled
\* sits, with the device and token it has stored, on a seat that the server connects to
\* this very socket (registerSocketHandlers.ts 491-588, controllerSocketClient.ts 312-388).
THEOREM SettledPhonesAreSeated == Spec => []SettledPhoneIsSeated
<1>1. SeatIInv => SettledPhoneIsSeated
  BY SettledFits DEF SettledPhoneIsSeated
<1> QED BY <1>1, SeatIInvHolds, PTL

\* When nothing is under way, an enabled phone shows the round the server is in, through
\* losses, recovered connections and resumes (controllerSocketClient.ts 140-167, 231-251).
THEOREM SettledPhonesShowTheRound == Spec => []SettledPhoneShowsRound
<1>1. SeatIInv => SettledPhoneShowsRound
  BY SettledFits DEF SettledPhoneShowsRound
<1> QED BY <1>1, SeatIInvHolds, PTL
=============================================================================
