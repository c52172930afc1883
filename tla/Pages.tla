-------------------------------- MODULE Pages --------------------------------
(***************************************************************************)
(* What runs on the pages of the screen and the phones and in the setup of *)
(* teams, side by side: the parts share no state, so that a behaviour      *)
(* lives in one of them and the others stand still.                        *)
(***************************************************************************)
EXTENDS Integers, FiniteSets

CONSTANTS
  Tracks,                                  \* the screen's music
  MaxRoundTrip, RefreshAfter, WallTime,    \* a client's clock
  StrokeLimit, PointLimit,                 \* the drawing board
  Manifests, Player, Option, MinPlayers, MinPerOption,   \* the setup of teams
  Board, Home, Slots                       \* the planner of the arena

\* Bounds of the parts, in their order below.
CONSTANTS
  MaxChoices, MaxHides, MusicGestures,
  LockRefusals, LockReleases, LockSwitches,
  MaxTime, MaxSlips, MaxRequests,
  ThumbTouches, ThumbDrops, ThumbOutages, ThumbSwitches,
  MaxTasks, PhotoPicks, PhotoOutages,
  MaxStrokes, MaxPoints, MaxCards, DrawingOutages, MaxRotations, MaxClears,
  MaxRounds,
  MaxOpens, MaxStarts, MaxHandovers, MaxBreaks, MaxLine,
  SteeringGestures, SteeringSwitches,
  MaxHoles, MaxConfirms, ArenaPicks,
  SleepRefusals, SleepReleases, SleepSwitches, SleepTouches

\* The limits of the clock are lengths of time; the device may believe in any time of day.
ASSUME ClockConstants == MaxRoundTrip \in Nat /\ RefreshAfter \in Nat /\ WallTime \in Int

VARIABLE part

VARIABLES hidden, context, unlocked, disposed, desired, current, source, playing, buffers, syncing,
          resuming, raced, choices, hides, gestures
music == <<hidden, context, unlocked, disposed, desired, current, source, playing, buffers, syncing,
            resuming, raced, choices, hides, gestures>>

VARIABLES active, visible, wakeLock, requesting, pending, held, told, retries, granted, refusals,
          releases, switches
lock == <<active, visible, wakeLock, requesting, pending, held, told, retries, granted, refusals,
           releases, switches>>

VARIABLES monotonic, offset, slips, greeted, hello, requests, anchor2, anchorAt, bestRoundTrip,
          sampledAt, sampleSlips
clock == <<monotonic, offset, slips, greeted, hello, requests, anchor2, anchorAt, bestRoundTrip,
            sampledAt, sampleSlips>>

VARIABLES layout, onPage, disabled, down, pointer, pressed, last, repeating, online, moves, game,
          missed, touches, drops, losses, flips
thumb == <<layout, onPage, disabled, down, pointer, pressed, last, repeating, online, moves, game,
            missed, touches, drops, losses, flips>>

VARIABLES task, rendered, mounted, connected, hasSubmitted, photo, uploading, sending, sendError, uploadId,
          compressing, pickedFor, travelling, picks, outages
photos == <<task, rendered, mounted, connected, hasSubmitted, photo, uploading, sending, sendError, uploadId,
             compressing, pickedFor, travelling, picks, outages>>

VARIABLES card, strokes, activeStrokeId, linked, wire, resetKey, model, pendingStrokes, ended, pen,
          hiddenStrokes, begun, drawn, refused, lost, turned, cuts, rotations, clears
drawings == <<card, strokes, activeStrokeId, linked, wire, resetKey, model, pendingStrokes, ended, pen,
               hiddenStrokes, begun, drawn, refused, lost, turned, cuts, rotations, clears>>

VARIABLES driver, roundOn, pausedBy, here, linkUp, uplink, downlink, page, menuOpen, strayed, opens,
          starts, handovers, breaks
menus == <<driver, roundOn, pausedBy, here, linkUp, uplink, downlink, page, menuOpen, strayed, opens,
            starts, handovers, breaks>>

VARIABLES fixed, fitted, fingers, tracked, controlsRef, controls, committed, queued, writes, resets,
          sent, lagged, strokesMade, switchesMade
steering == <<fixed, fitted, fingers, tracked, controlsRef, controls, committed, queued, writes, resets,
               sent, lagged, strokesMade, switchesMade>>

VARIABLES holes, slotIndex, figureId, plan, way, target, ownPlans, onTheWay, clashing, confirms,
          slotPicks
plans == <<holes, slotIndex, figureId, plan, way, target, ownPlans, onTheWay, clashing, confirms,
            slotPicks>>

VARIABLES hasApi, hasFallback, phoneActive, phoneVisible, sentinel, listening, frames, waiting,
          honoured, untold, doubled, refusedLate, phoneGrants, phoneRefusals, phoneReleases,
          phoneSwitches, phoneTouches
phoneLock == <<hasApi, hasFallback, phoneActive, phoneVisible, sentinel, listening, frames, waiting,
                honoured, untold, doubled, refusedLate, phoneGrants, phoneRefusals, phoneReleases,
                phoneSwitches, phoneTouches>>

VARIABLES manifest, mode, selected, players, choice, isReady, round, continues, rounds
setups == <<manifest, mode, selected, players, choice, isReady, round, continues, rounds>>

Music == INSTANCE HostMusic WITH MaxGestures <- MusicGestures
WakeLock == INSTANCE ScreenWakeLock WITH
  MaxRefusals <- LockRefusals, MaxReleases <- LockReleases, MaxSwitches <- LockSwitches
Clock == INSTANCE ServerClock
Thumb == INSTANCE PhoneControls WITH
  MaxTouches <- ThumbTouches, MaxDrops <- ThumbDrops, MaxOutages <- ThumbOutages,
  MaxSwitches <- ThumbSwitches
Photo == INSTANCE PhotoTask WITH MaxPicks <- PhotoPicks, MaxOutages <- PhotoOutages
Drawing == INSTANCE DrawingBoard WITH MaxOutages <- DrawingOutages
Setup == INSTANCE PlayerSetup
Menu == INSTANCE HostMenu
Steering == INSTANCE SteeringPad WITH
  MaxGestures <- SteeringGestures, MaxSwitches <- SteeringSwitches
Arena == INSTANCE ArenaPlanner WITH MaxPicks <- ArenaPicks
PhoneLock == INSTANCE PhoneWakeLock WITH
  active <- phoneActive, visible <- phoneVisible, wakeLock <- sentinel, pending <- waiting,
  held <- honoured, told <- untold, raced <- doubled, granted <- phoneGrants,
  refusals <- phoneRefusals, releases <- phoneReleases, switches <- phoneSwitches,
  touches <- phoneTouches,
  MaxRefusals <- SleepRefusals, MaxReleases <- SleepReleases, MaxSwitches <- SleepSwitches,
  MaxTouches <- SleepTouches

\* "No choice" is not one of the options, and games declare what a manifest can say.
ASSUME SetupConstants ==
  /\ Setup!Undefined \notin Option
  /\ Manifests \subseteq Setup!Manifest
  /\ MaxRounds \in Nat

\* A board takes a point of a stroke at least; a model of it draws one on one card at least.
ASSUME DrawingConstants ==
  /\ PointLimit \in Nat \ {0} /\ MaxStrokes \in Nat
  /\ MaxPoints \in Nat \ {0} /\ MaxCards \in Nat \ {0}

\* The board of the arena is finite, figures stand on it, and there is something to plan.
ASSUME ArenaConstants ==
  /\ IsFiniteSet(Board) /\ Board \subseteq Int \X Int
  /\ Arena!Nobody \notin DOMAIN Home /\ \A f \in DOMAIN Home : Home[f] \in Board
  /\ Slots \in Nat \ {0} /\ MaxConfirms \in Nat /\ ArenaPicks \in Nat

\* The other bounds of a model are numbers, and it has one task at least.
ASSUME BoundsAreNumbers ==
  /\ {MusicGestures, MaxOpens, MaxStarts, MaxHandovers, MaxBreaks, SteeringGestures,
      SteeringSwitches, SleepRefusals, SleepReleases, SleepSwitches, SleepTouches} \subseteq Nat
  /\ MaxTasks \in Nat \ {0}

Part ==
  {"music", "wake lock", "clock", "thumb", "photo", "drawing", "setup", "menu", "steering",
   "arena", "phone lock"}

\* A part that stands still does so in one of its initial states.
Init ==
  /\ part \in Part
  /\ Music!Init /\ WakeLock!Init /\ Clock!Init /\ Thumb!Init /\ Photo!Init /\ Drawing!Init
  /\ Setup!Init /\ Menu!Init /\ Steering!Init /\ Arena!Init /\ PhoneLock!Init
  /\ part # "music" => desired = (CHOOSE t \in Tracks : TRUE)
  /\ part # "wake lock" => visible
  /\ part # "thumb" => layout = "joystick"
  /\ part # "setup" => manifest = (CHOOSE m \in Manifests : TRUE)
  /\ part # "arena" => holes = {}
  /\ part # "phone lock" => hasApi /\ hasFallback /\ phoneVisible

OthersStandStill ==
  /\ UNCHANGED part
  /\ part # "music" => UNCHANGED music
  /\ part # "wake lock" => UNCHANGED lock
  /\ part # "clock" => UNCHANGED clock
  /\ part # "thumb" => UNCHANGED thumb
  /\ part # "photo" => UNCHANGED photos
  /\ part # "drawing" => UNCHANGED drawings
  /\ part # "setup" => UNCHANGED setups
  /\ part # "menu" => UNCHANGED menus
  /\ part # "steering" => UNCHANGED steering
  /\ part # "arena" => UNCHANGED plans
  /\ part # "phone lock" => UNCHANGED phoneLock

Next ==
  /\ OthersStandStill
  /\ \/ part = "music" /\ Music!Next
     \/ part = "wake lock" /\ WakeLock!Next
     \/ part = "clock" /\ Clock!Next
     \/ part = "thumb" /\ Thumb!Next
     \/ part = "photo" /\ Photo!Next
     \/ part = "drawing" /\ Drawing!Next
     \/ part = "setup" /\ Setup!Next
     \/ part = "menu" /\ Menu!Next
     \/ part = "steering" /\ Steering!Next
     \/ part = "arena" /\ Arena!Next
     \/ part = "phone lock" /\ PhoneLock!Next

vars == <<part, music, lock, clock, thumb, photos, drawings, setups, menus, steering, plans,
          phoneLock>>

\* Only what browsers do by themselves is fair: promises are settled, timers elapse, effects
\* run and a connection delivers what it was given.
Fairness ==
  /\ \A t \in Tracks : /\ WF_music(part = "music" /\ Music!ContinueSync(t))
                               /\ WF_music(part = "music" /\ Music!Render(t))
  /\ WF_music(part = "music" /\ Music!Resumed)
  /\ WF_lock(part = "wake lock" /\ (WakeLock!Grant \/ WakeLock!Refuse))
  /\ WF_lock(part = "wake lock" /\ \E s \in told : WakeLock!HandleRelease(s))
  /\ WF_lock(part = "wake lock" /\ WakeLock!Retry)
  /\ WF_lock(part = "wake lock" /\ WakeLock!HandleInteraction)
  /\ WF_thumb(part = "thumb" /\ Thumb!Arrive)
  /\ WF_thumb(part = "thumb" /\ Thumb!HoldRepeat)
  /\ WF_photos(part = "photo" /\ Photo!StopSending)
  /\ WF_photos(part = "photo" /\ Photo!ResetEffect)
  /\ WF_photos(part = "photo" /\ \E c \in compressing : Photo!Compressed(c))

Spec == Init /\ [][Next]_vars /\ Fairness

-----------------------------------------------------------------------------
\* Every variable of every part keeps its type.
TypeOK ==
  /\ part \in Part /\ Music!TypeOK /\ WakeLock!TypeOK /\ Clock!TypeOK /\ Thumb!TypeOK
  /\ Photo!TypeOK /\ Drawing!TypeOK /\ Setup!TypeOK /\ Menu!TypeOK /\ Steering!TypeOK /\ Arena!TypeOK
  /\ PhoneLock!TypeOK

\* A page lets go of what it holds and of no more: no music plays on, no wake lock is kept and
\* none is missing, no round is held without the menu that holds it, and a car nobody steers
\* comes to rest.  PhoneMaySleep, HoldHasItsMenu and CarComesToRest name what is exempt.
PageLetsGo ==
  /\ Music!NothingPlaysOn /\ WakeLock!NoLockLeaks
  /\ PhoneLock!PhoneMaySleep /\ PhoneLock!PhoneStaysAwake
  /\ Menu!HoldHasItsMenu /\ Steering!CarComesToRest

\* The work of a player's hands is kept: the photo is of this task, the ink is what was drawn,
\* a figure goes the shortest way it can and the plans of a round go together.  InkIsShown,
\* Settled and PlansDoNotClash name what is exempt.
WorkIsKept ==
  /\ Photo!PhotoIsOfThisTask /\ Drawing!StrokesSettle
  /\ part = "arena" => Arena!WaysAreShortest /\ Arena!PlansDoNotClash

\* The clock of a client is as wrong as its best round trip allows, and no more.
ClockErrorBounded == Clock!ClockErrorBounded

\* Choices of players are dealt without touching those that are there.
AssignmentIsGentle == Setup!AssignmentIsGentle

\* The game comes to rest when the thumb leaves the pad and comes to know what is held;
\* ReleaseArrives names the two cases in which the code loses the stop.
GameFollowsThumb == part = "thumb" => Thumb!ReleaseArrives /\ Thumb!HeldVectorArrives

\* Pages come round: music follows the game, the screen stays awake, buttons come back.
PagesComeRound ==
  /\ part = "music" => Music!MusicFollowsGame
  /\ part = "wake lock" => WakeLock!ScreenStaysAwake
  /\ part = "photo" => Photo!PageGivesBack
=============================================================================
