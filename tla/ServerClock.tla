----------------------------- MODULE ServerClock -----------------------------
(***************************************************************************)
(* The server's time as a client keeps it (ServerClock.ts): every          *)
(* countdown on the screen and on the phones reads it.  A connection       *)
(* begins with a server:hello that tells a time of unknown age, round      *)
(* trips measured after it correct that, and the two clocks drift apart by *)
(* the odd unit meanwhile.                                                 *)
(*                                                                         *)
(* The clock shows anchor + monotonic() - anchorAt; times are doubled      *)
(* where the code halves a round trip.                                     *)
(***************************************************************************)
EXTENDS Integers, FiniteSets

CONSTANTS
  MaxRoundTrip, RefreshAfter,          \* 2000 and 30000 ms in the code
  WallTime,                            \* Date.now() of the device when the page opens
  MaxTime, MaxSlips, MaxRequests       \* bounds of the model

Infinity == MaxRoundTrip + 1           \* worse than any round trip that is accepted

VARIABLES
  monotonic,   \* performance.now() of the client
  offset,      \* how far the server's clock is ahead of it
  slips,       \* how often the two have drifted apart by a unit
  greeted,     \* a connection is up, the server has greeted it
  hello,       \* the times of server:hello messages on their way
  requests,    \* time requests of this connection that are not answered yet
  anchor2, anchorAt, bestRoundTrip, sampledAt,
  sampleSlips  \* history: slips when the accepted sample was asked for

clock == <<anchor2, anchorAt, bestRoundTrip, sampledAt, sampleSlips>>
vars == <<monotonic, offset, slips, greeted, hello, requests, clock>>

Request == [sentAt : Int, slips : Nat, answered : BOOLEAN, read : Int]
Asked == [sentAt |-> monotonic, slips |-> slips, answered |-> FALSE, read |-> 0]

Init ==
  /\ monotonic = 0 /\ offset = 0 /\ slips = 0 /\ greeted = FALSE /\ hello = {} /\ requests = {}
  /\ anchor2 = 2 * WallTime /\ anchorAt = 0 /\ bestRoundTrip = Infinity
  /\ sampledAt = -RefreshAfter /\ sampleSlips = 0

-----------------------------------------------------------------------------
(* Time, the server and the network.                                       *)

Tick ==
  /\ monotonic < MaxTime
  /\ monotonic' = monotonic + 1
  /\ UNCHANGED <<offset, slips, greeted, hello, requests, clock>>

Drift ==
  /\ slips < MaxSlips
  /\ slips' = slips + 1
  /\ offset' \in {offset - 1, offset + 1}
  /\ UNCHANGED <<monotonic, greeted, hello, requests, clock>>

\* The server greets a connection with its time.
Connect ==
  /\ ~greeted
  /\ greeted' = TRUE
  /\ hello' = {monotonic + offset}
  /\ UNCHANGED <<monotonic, offset, slips, requests, clock>>

\* stopClockSync: what was asked for is not looked at any more.
Disconnect ==
  /\ greeted
  /\ greeted' = FALSE /\ hello' = {} /\ requests' = {}
  /\ UNCHANGED <<monotonic, offset, slips, clock>>

\* startServerClockSync asks at once, twice more and then periodically.
Sample ==
  /\ greeted /\ Cardinality(requests) < MaxRequests
  /\ requests' = requests \cup {Asked}
  /\ UNCHANGED <<monotonic, offset, slips, greeted, hello, clock>>

\* The server's handler acknowledges with its time.
Answer(r) ==
  /\ r \in requests /\ ~r.answered
  /\ requests' = (requests \ {r}) \cup
                 {[r EXCEPT !.answered = TRUE, !.read = monotonic + offset]}
  /\ UNCHANGED <<monotonic, offset, slips, greeted, hello, clock>>

-----------------------------------------------------------------------------
(* The clock.                                                              *)

\* initialize.
Initialize(t) ==
  /\ t \in hello
  /\ hello' = hello \ {t}
  /\ anchor2' = 2 * t /\ anchorAt' = monotonic /\ bestRoundTrip' = Infinity
  /\ UNCHANGED <<monotonic, offset, slips, greeted, requests, sampledAt, sampleSlips>>

\* Mutant: the difference the wrong way round.
RoundTripBackwards(r) == r.sentAt - monotonic

RoundTrip(r) == monotonic - r.sentAt

\* Mutant: the refreshed sample is taken for as good as the best one.
AcceptAsBest(r) ==
  /\ anchor2' = 2 * r.read + RoundTrip(r)
  /\ anchorAt' = monotonic /\ sampledAt' = monotonic
  /\ bestRoundTrip' = IF RoundTrip(r) < bestRoundTrip THEN RoundTrip(r) ELSE bestRoundTrip
  /\ sampleSlips' = r.slips

Accept(r) ==
  /\ anchor2' = 2 * r.read + RoundTrip(r)
  /\ anchorAt' = monotonic /\ sampledAt' = monotonic
  /\ bestRoundTrip' = RoundTrip(r)
  /\ sampleSlips' = r.slips

\* Too slow, or worse than a sample that is still fresh.
Useless(r) ==
  \/ RoundTrip(r) > MaxRoundTrip
  \/ RoundTrip(r) > bestRoundTrip /\ monotonic - sampledAt < RefreshAfter

\* synchronize.
Synchronize(r) ==
  /\ r \in requests /\ r.answered
  /\ requests' = requests \ {r}
  /\ IF Useless(r) THEN UNCHANGED clock ELSE Accept(r)
  /\ UNCHANGED <<monotonic, offset, slips, greeted, hello>>

Next ==
  \/ Tick \/ Drift \/ Connect \/ Disconnect \/ Sample
  \/ \E r \in requests : Answer(r) \/ Synchronize(r)
  \/ \E t \in hello : Initialize(t)

Spec == Init /\ [][Next]_vars

-----------------------------------------------------------------------------
TypeOK ==
  /\ monotonic \in Nat /\ offset \in Int /\ slips \in Nat /\ greeted \in BOOLEAN
  /\ hello \subseteq Int /\ requests \subseteq Request
  /\ anchor2 \in Int /\ anchorAt \in Int /\ bestRoundTrip \in Nat /\ sampledAt \in Int
  /\ sampleSlips \in Nat

\* Twice the distance between what the clock shows and the server's time.
Error2 == (anchor2 - 2 * anchorAt) - 2 * offset

\* Half of the best round trip and what the clocks drifted apart since, both doubled.
Allowed2 == bestRoundTrip + 2 * (slips - sampleSlips)

\* Once a connection has measured a round trip, the clock is wrong by at most half of the
\* round trip it keeps as its best plus what the clocks drifted apart since that was asked for,
\* whichever samples came late, out of order or were passed over (ServerClock.ts 22-32).
ClockErrorBounded ==
  bestRoundTrip # Infinity => -Allowed2 <= Error2 /\ Error2 <= Allowed2
=============================================================================
