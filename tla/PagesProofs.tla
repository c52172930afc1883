----------------------------- MODULE PagesProofs -----------------------------
(***************************************************************************)
(* What is true of the pages as they run side by side: each part is a      *)
(* behaviour of its own module, so that what is proved about the module    *)
(* holds among the others.                                                 *)
(***************************************************************************)
EXTENDS PageProofs, WorkProofs

-----------------------------------------------------------------------------
(* Every part behaves as its module says: a step of the pages is one of    *)
(* its steps or leaves it alone.                                           *)

\* Music: a part among the others.
LEMMA MusicAmong == Spec => Music!Spec
<1>1. Init => Music!Init
  BY DEF Init
<1>2. UNCHANGED music => UNCHANGED Music!vars
  BY DEF music, Music!vars, Music!bounds
<1>3. [Next]_vars => [Music!Next]_Music!vars
  <2>1. CASE UNCHANGED vars
    <3>1. UNCHANGED music
      BY <2>1 DEF vars
    <3> QED BY <1>2, <3>1
  <2>2. CASE Next /\ part # "music"
    BY <1>2, <2>2 DEF Next, OthersStandStill
  <2>3. CASE Next /\ part = "music"
    BY <2>3 DEF Next
  <2> QED BY <2>1, <2>2, <2>3
<1> QED BY <1>1, <1>3, PTL DEF Spec, Music!Spec

\* Wake lock: a part among the others.
LEMMA WakeLockAmong == Spec => WakeLock!Spec
<1>1. Init => WakeLock!Init
  BY DEF Init
<1>2. UNCHANGED lock => UNCHANGED WakeLock!vars
  BY DEF lock, WakeLock!vars, WakeLock!system
<1>3. [Next]_vars => [WakeLock!Next]_WakeLock!vars
  <2>1. CASE UNCHANGED vars
    <3>1. UNCHANGED lock
      BY <2>1 DEF vars
    <3> QED BY <1>2, <3>1
  <2>2. CASE Next /\ part # "wake lock"
    BY <1>2, <2>2 DEF Next, OthersStandStill
  <2>3. CASE Next /\ part = "wake lock"
    BY <2>3 DEF Next
  <2> QED BY <2>1, <2>2, <2>3
<1> QED BY <1>1, <1>3, PTL DEF Spec, WakeLock!Spec

\* Clock: a part among the others.
LEMMA ClockAmong == Spec => Clock!Spec
<1>1. Init => Clock!Init
  BY DEF Init
<1>2. UNCHANGED clock => UNCHANGED Clock!vars
  BY DEF clock, Clock!vars, Clock!clock
<1>3. [Next]_vars => [Clock!Next]_Clock!vars
  <2>1. CASE UNCHANGED vars
    <3>1. UNCHANGED clock
      BY <2>1 DEF vars
    <3> QED BY <1>2, <3>1
  <2>2. CASE Next /\ part # "clock"
    BY <1>2, <2>2 DEF Next, OthersStandStill
  <2>3. CASE Next /\ part = "clock"
    BY <2>3 DEF Next
  <2> QED BY <2>1, <2>2, <2>3
<1> QED BY <1>1, <1>3, PTL DEF Spec, Clock!Spec

\* Photo: a part among the others.
LEMMA PhotoAmong == Spec => Photo!Spec
<1>1. Init => Photo!Init
  BY DEF Init
<1>2. UNCHANGED photos => UNCHANGED Photo!vars
  BY DEF photos, Photo!vars, Photo!page
<1>3. [Next]_vars => [Photo!Next]_Photo!vars
  <2>1. CASE UNCHANGED vars
    <3>1. UNCHANGED photos
      BY <2>1 DEF vars
    <3> QED BY <1>2, <3>1
  <2>2. CASE Next /\ part # "photo"
    BY <1>2, <2>2 DEF Next, OthersStandStill
  <2>3. CASE Next /\ part = "photo"
    BY <2>3 DEF Next
  <2> QED BY <2>1, <2>2, <2>3
<1> QED BY <1>1, <1>3, PTL DEF Spec, Photo!Spec

\* Menu: a part among the others.
LEMMA MenuAmong == Spec => Menu!Spec
<1>1. Init => Menu!Init
  BY DEF Init
<1>2. UNCHANGED menus => UNCHANGED Menu!vars
  BY DEF menus, Menu!vars, Menu!room, Menu!phone
<1>3. [Next]_vars => [Menu!Next]_Menu!vars
  <2>1. CASE UNCHANGED vars
    <3>1. UNCHANGED menus
      BY <2>1 DEF vars
    <3> QED BY <1>2, <3>1
  <2>2. CASE Next /\ part # "menu"
    BY <1>2, <2>2 DEF Next, OthersStandStill
  <2>3. CASE Next /\ part = "menu"
    BY <2>3 DEF Next
  <2> QED BY <2>1, <2>2, <2>3
<1> QED BY <1>1, <1>3, PTL DEF Spec, Menu!Spec

\* Steering: a part among the others.
LEMMA SteeringAmong == Spec => Steering!Spec
<1>1. Init => Steering!Init
  BY DEF Init
<1>2. UNCHANGED steering => UNCHANGED Steering!vars
  BY DEF steering, Steering!vars, Steering!react
<1>3. [Next]_vars => [Steering!Next]_Steering!vars
  <2>1. CASE UNCHANGED vars
    <3>1. UNCHANGED steering
      BY <2>1 DEF vars
    <3> QED BY <1>2, <3>1
  <2>2. CASE Next /\ part # "steering"
    BY <1>2, <2>2 DEF Next, OthersStandStill
  <2>3. CASE Next /\ part = "steering"
    BY <2>3 DEF Next
  <2> QED BY <2>1, <2>2, <2>3
<1> QED BY <1>1, <1>3, PTL DEF Spec, Steering!Spec

\* Phone lock: a part among the others.
LEMMA PhoneLockAmong == Spec => PhoneLock!Spec
<1>1. Init => PhoneLock!Init
  BY DEF Init
<1>2. UNCHANGED phoneLock => UNCHANGED PhoneLock!vars
  BY DEF phoneLock, PhoneLock!vars, PhoneLock!fixed, PhoneLock!system
<1>3. [Next]_vars => [PhoneLock!Next]_PhoneLock!vars
  <2>1. CASE UNCHANGED vars
    <3>1. UNCHANGED phoneLock
      BY <2>1 DEF vars
    <3> QED BY <1>2, <3>1
  <2>2. CASE Next /\ part # "phone lock"
    BY <1>2, <2>2 DEF Next, OthersStandStill
  <2>3. CASE Next /\ part = "phone lock"
    BY <2>3 DEF Next
  <2> QED BY <2>1, <2>2, <2>3
<1> QED BY <1>1, <1>3, PTL DEF Spec, PhoneLock!Spec

\* Thumb: a part among the others.
LEMMA ThumbAmong == Spec => Thumb!Spec
<1>1. Init => Thumb!Init
  BY DEF Init
<1>2. UNCHANGED thumb => UNCHANGED Thumb!vars
  BY DEF thumb, Thumb!vars, Thumb!hand
<1>3. [Next]_vars => [Thumb!Next]_Thumb!vars
  <2>1. CASE UNCHANGED vars
    <3>1. UNCHANGED thumb
      BY <2>1 DEF vars
    <3> QED BY <1>2, <3>1
  <2>2. CASE Next /\ part # "thumb"
    BY <1>2, <2>2 DEF Next, OthersStandStill
  <2>3. CASE Next /\ part = "thumb"
    BY <2>3 DEF Next
  <2> QED BY <2>1, <2>2, <2>3
<1> QED BY <1>1, <1>3, PTL DEF Spec, Thumb!Spec

\* Drawing: a part among the others.
LEMMA DrawingAmong == Spec => Drawing!Spec
<1>1. Init => Drawing!Init
  BY DEF Init
<1>2. UNCHANGED drawings => UNCHANGED Drawing!vars
  BY DEF drawings, Drawing!vars, Drawing!board, Drawing!phone, Drawing!net
<1>3. [Next]_vars => [Drawing!Next]_Drawing!vars
  <2>1. CASE UNCHANGED vars
    <3>1. UNCHANGED drawings
      BY <2>1 DEF vars
    <3> QED BY <1>2, <3>1
  <2>2. CASE Next /\ part # "drawing"
    BY <1>2, <2>2 DEF Next, OthersStandStill
  <2>3. CASE Next /\ part = "drawing"
    BY <2>3 DEF Next
  <2> QED BY <2>1, <2>2, <2>3
<1> QED BY <1>1, <1>3, PTL DEF Spec, Drawing!Spec

\* Setup of teams: a part among the others.
LEMMA SetupAmong == Spec => Setup!Spec
<1>1. Init => Setup!Init
  BY DEF Init
<1>2. UNCHANGED setups => UNCHANGED Setup!vars
  BY DEF setups, Setup!vars
<1>3. [Next]_vars => [Setup!Next]_Setup!vars
  <2>1. CASE UNCHANGED vars
    <3>1. UNCHANGED setups
      BY <2>1 DEF vars
    <3> QED BY <1>2, <3>1
  <2>2. CASE Next /\ part # "setup"
    BY <1>2, <2>2 DEF Next, OthersStandStill
  <2>3. CASE Next /\ part = "setup"
    BY <2>3 DEF Next
  <2> QED BY <2>1, <2>2, <2>3
<1> QED BY <1>1, <1>3, PTL DEF Spec, Setup!Spec

\* Planning: a part among the others.
LEMMA ArenaAmong == Spec => Arena!Spec
<1>1. Init => Arena!Init
  BY DEF Init
<1>2. UNCHANGED plans => UNCHANGED Arena!vars
  BY DEF plans, Arena!vars, Arena!draft
<1>3. [Next]_vars => [Arena!Next]_Arena!vars
  <2>1. CASE UNCHANGED vars
    <3>1. UNCHANGED plans
      BY <2>1 DEF vars
    <3> QED BY <1>2, <3>1
  <2>2. CASE Next /\ part # "arena"
    BY <1>2, <2>2 DEF Next, OthersStandStill
  <2>3. CASE Next /\ part = "arena"
    BY <2>3 DEF Next
  <2> QED BY <2>1, <2>2, <2>3
<1> QED BY <1>1, <1>3, PTL DEF Spec, Arena!Spec

-----------------------------------------------------------------------------
\* A page lets go of what it holds and of no more: one track at most is heard, no wake lock
\* outlives its page, no round is held without the menu that holds it, and a car nobody steers
\* comes to rest, with the exceptions stated at PhoneMaySleep, HoldHasItsMenu and CarComesToRest
\* (backgroundMusic.ts, screenWakeLock.ts, useWakeHint.ts, HostGameMenu.tsx,
\* RacingControlsLayout.tsx).
THEOREM PagesLetGo == Spec => []PageLetsGo
<1>1. /\ Music!NothingPlaysOn /\ WakeLock!NoLockLeaks
      /\ PhoneLock!PhoneMaySleep /\ PhoneLock!PhoneStaysAwake
      /\ Menu!HoldHasItsMenu /\ Steering!CarComesToRest
      => PageLetsGo
  BY DEF PageLetsGo
<1>2. Spec => /\ []Music!NothingPlaysOn /\ []WakeLock!NoLockLeaks
              /\ []PhoneLock!PhoneMaySleep /\ []PhoneLock!PhoneStaysAwake
              /\ []Menu!HoldHasItsMenu /\ []Steering!CarComesToRest
  BY MusicAmong, OneTrackIsHeard, WakeLockAmong, LocksAreGivenBack, PhoneLockAmong, PhoneSleeps,
     PhoneWakes, MenuAmong, MenuHoldsTheRound, SteeringAmong, CarRests
<1> QED BY <1>1, <1>2, PTL

\* The clock of a client is as wrong as its best round trip allows, and no more, for every limit
\* on round trips and every order in which samples arrive (ServerClock.ts 22-32).
THEOREM PagesTellTheTime == Spec => []ClockErrorBounded
<1>1. Clock!ClockErrorBounded => ClockErrorBounded
  BY DEF ClockErrorBounded
<1> QED BY ClockAmong, ClockIsBounded, <1>1, PTL

\* The work of a player's hands is kept, with the exceptions stated at InkIsShown, Settled and
\* PlansDoNotClash: no photo of another task is shown or sent, the ink of a board is what was
\* drawn on it, a figure goes a shortest way, and the plans of a round go together (SocialPartyLayout.tsx, MagicArenaLayout.tsx, the drawing of the controller).
THEOREM PagesKeepWork == Spec => []WorkIsKept
<1>1. /\ Photo!PhotoIsOfThisTask /\ Drawing!StrokesSettle
      /\ Arena!WaysAreShortest /\ Arena!PlansDoNotClash
      => WorkIsKept
  BY DEF WorkIsKept
<1>2. Spec => /\ []Photo!PhotoIsOfThisTask /\ []Drawing!StrokesSettle
              /\ []Arena!WaysAreShortest /\ []Arena!PlansDoNotClash
  BY PhotoAmong, PhotoIsRight, DrawingAmong, DrawingSettles, ArenaAmong, SearchIsShortest,
     PlanningFits
<1> QED BY <1>1, <1>2, PTL

\* Choices are dealt without touching those that are there, and evenly (playerSetup.ts).
THEOREM PagesAssignGently == Spec => AssignmentIsGentle
<1>1. Setup!AssignmentIsGentle => AssignmentIsGentle
  BY DEF AssignmentIsGentle
<1> QED BY SetupAmong, ChoicesAreGentle, <1>1

\* Every variable of every part keeps its type.
THEOREM PagesTypeOK == Spec => []TypeOK
<1>1. Init => part \in Part
  BY DEF Init
<1>2. part \in Part /\ [Next]_vars => (part \in Part)'
  BY DEF Next, OthersStandStill, vars, Part
<1>3. Spec => [](part \in Part)
  BY <1>1, <1>2, PTL DEF Spec
<1>4. /\ part \in Part /\ Music!TypeOK /\ WakeLock!TypeOK /\ Clock!TypeOK /\ Thumb!TypeOK
      /\ Photo!TypeOK /\ Drawing!TypeOK /\ Setup!TypeOK /\ Menu!TypeOK /\ Steering!TypeOK
      /\ Arena!TypeOK /\ PhoneLock!TypeOK
      => TypeOK
  BY DEF TypeOK
<1>5. Spec => /\ []Music!TypeOK /\ []WakeLock!TypeOK /\ []Clock!TypeOK /\ []Thumb!TypeOK
              /\ []Photo!TypeOK /\ []Drawing!TypeOK
  BY MusicAmong, MusicTypeOK, WakeLockAmong, LockTypes, ClockAmong, ClockTypeOK, ThumbAmong,
     ThumbTypeOK, PhotoAmong, PhotoTypeOK, DrawingAmong, DrawingTypeOK
<1>6. Spec => /\ []Setup!TypeOK /\ []Menu!TypeOK /\ []Steering!TypeOK /\ []Arena!TypeOK
              /\ []PhoneLock!TypeOK
  BY SetupAmong, SetupTypeOK, MenuAmong, MenuTypeOK, SteeringAmong, SteeringTypeOK, ArenaAmong,
     ArenaTypeOK, PhoneLockAmong, PhoneLockTypeOK
<1> QED BY <1>3, <1>4, <1>5, <1>6, PTL
=============================================================================
