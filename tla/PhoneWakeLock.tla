----------------------------- MODULE PhoneWakeLock -----------------------------
(***************************************************************************)
(* What keeps a phone awake while it shows a room (useWakeHint.ts): a wake *)
(* lock, asked for and awaited, and a playing video for phones that refuse *)
(* it or have none.  Every run of the effect has a state of its own, so    *)
(* that one run and what arrives after its cleanup are all there is.       *)
(*                                                                         *)
(* Unlike the screen's, several requests can be on their way at once.      *)
(***************************************************************************)
EXTENDS Naturals

CONSTANTS MaxRefusals, MaxReleases, MaxSwitches, MaxTouches   \* bounds of the model

NoLock == 0

VARIABLES
  hasApi, hasFallback,   \* nav.wakeLock?.request, and a canvas that can be recorded
  active, visible,
  wakeLock,      \* the sentinel the effect keeps, numbered as granted
  listening,     \* sentinels handleRelease listens to
  frames,        \* keepAliveIntervalId # null
  pending,       \* requests the browser has still to answer
  held,          \* sentinels the system honours
  told,          \* sentinels whose release event has still to be delivered
  raced,         \* history: two requests were on their way at once
  refusedLate,   \* history: a request was refused after the cleanup
  granted, refusals, releases, switches, touches

fixed  == <<hasApi, hasFallback>>
system == <<granted, refusals, releases, switches, touches>>
vars   == <<fixed, active, visible, wakeLock, listening, frames, pending, held, told, raced,
            refusedLate, system>>

\* requestWakeLock up to its await, by a page that keeps `lock` and is in view or not.
RequestKeeping(lock, isVisible) ==
  IF active /\ isVisible /\ lock = NoLock
    THEN IF hasApi
           THEN pending' = pending + 1 /\ raced' = (raced \/ pending > 0) /\ UNCHANGED frames
           ELSE frames' = hasFallback /\ UNCHANGED <<pending, raced>>
    ELSE UNCHANGED <<pending, raced, frames>>

Init ==
  /\ hasApi \in BOOLEAN /\ hasFallback \in BOOLEAN /\ (hasApi \/ hasFallback)
  /\ active = TRUE /\ visible \in BOOLEAN
  /\ wakeLock = NoLock /\ listening = {} /\ held = {} /\ told = {}
  /\ pending = (IF hasApi /\ visible THEN 1 ELSE 0)
  /\ frames = (visible /\ ~hasApi)
  /\ raced = FALSE /\ refusedLate = FALSE
  /\ granted = 0 /\ refusals = 0 /\ releases = 0 /\ switches = 0 /\ touches = 0

-----------------------------------------------------------------------------
(* The browser.                                                            *)

\* Mutant: nobody looks whether the effect still runs.
KeepAnyway(s) ==
  wakeLock' = s /\ listening' = listening \cup {s} /\ held' = held \cup {s}

\* After the await: a lock that came too late is given back.
Keep(s) ==
  IF active THEN wakeLock' = s /\ listening' = listening \cup {s} /\ held' = held \cup {s}
            ELSE UNCHANGED <<wakeLock, listening, held>>

Grant ==
  /\ pending > 0 /\ visible
  /\ pending' = pending - 1
  /\ granted' = granted + 1
  /\ Keep(granted + 1)
  /\ UNCHANGED <<fixed, active, visible, frames, told, raced, refusedLate, refusals, releases,
                 switches, touches>>

\* The catch: the video plays instead.
Refuse ==
  /\ pending > 0 /\ (visible => refusals < MaxRefusals)
  /\ pending' = pending - 1
  /\ refusals' = IF visible THEN refusals + 1 ELSE refusals
  /\ wakeLock' = NoLock
  /\ frames' = (frames \/ hasFallback)
  /\ refusedLate' = (refusedLate \/ ~active)
  /\ UNCHANGED <<fixed, active, visible, listening, held, told, raced, granted, releases,
                 switches, touches>>

\* The system takes locks back and says so to whoever listens.
TakeBack(gone) == held' = held \ gone /\ told' = told \cup (gone \cap listening)

SystemReleases(s) ==
  /\ s \in held /\ releases < MaxReleases
  /\ releases' = releases + 1
  /\ TakeBack({s})
  /\ UNCHANGED <<fixed, active, visible, wakeLock, listening, frames, pending, raced, refusedLate,
                 granted, refusals, switches, touches>>

-----------------------------------------------------------------------------
(* The effect.                                                             *)

\* Mutant: a lock that was lost is not asked for again.
ForgetLost == UNCHANGED <<pending, raced, frames>>

\* The end of handleRelease.
AskAgain == RequestKeeping(NoLock, visible)

\* handleRelease: whichever sentinel is gone, it is the one kept now that is let go of.
HandleRelease(s) ==
  /\ s \in told
  /\ told' = told \ {s}
  /\ IF s \in listening
       THEN listening' = listening \ {wakeLock} /\ wakeLock' = NoLock /\ AskAgain
       ELSE UNCHANGED <<listening, wakeLock, pending, raced, frames>>
  /\ UNCHANGED <<fixed, active, visible, held, refusedLate, system>>

HandleInteraction ==
  /\ active /\ wakeLock = NoLock /\ touches < MaxTouches
  /\ touches' = touches + 1
  /\ RequestKeeping(NoLock, visible)
  /\ UNCHANGED <<fixed, active, visible, wakeLock, listening, held, told, refusedLate, granted,
                 refusals, releases, switches>>

Hide ==
  /\ visible /\ switches < MaxSwitches
  /\ switches' = switches + 1
  /\ visible' = FALSE
  /\ TakeBack(held)
  /\ UNCHANGED <<fixed, active, wakeLock, listening, frames, pending, raced, refusedLate, granted,
                 refusals, releases, touches>>

\* handleVisibilityChange.
Show ==
  /\ ~visible
  /\ visible' = TRUE
  /\ RequestKeeping(wakeLock, TRUE)
  /\ UNCHANGED <<fixed, active, wakeLock, listening, held, told, refusedLate, system>>

\* The room is left, or the page taken down: releaseWakeLock and the end of the video.
Cleanup ==
  /\ active
  /\ active' = FALSE
  /\ wakeLock' = NoLock /\ listening' = listening \ {wakeLock} /\ held' = held \ {wakeLock}
  /\ frames' = FALSE
  /\ UNCHANGED <<fixed, visible, pending, told, raced, refusedLate, system>>

Next ==
  \/ Grant \/ Refuse
  \/ \E s \in held : SystemReleases(s)
  \/ \E s \in told : HandleRelease(s)
  \/ HandleInteraction \/ Hide \/ Show \/ Cleanup

Spec == Init /\ [][Next]_vars

-----------------------------------------------------------------------------
TypeOK ==
  /\ hasApi \in BOOLEAN /\ hasFallback \in BOOLEAN /\ active \in BOOLEAN /\ visible \in BOOLEAN
  /\ held \cup told \cup listening \subseteq 1..granted /\ wakeLock \in 0..granted
  /\ frames \in BOOLEAN /\ pending \in Nat /\ raced \in BOOLEAN /\ refusedLate \in BOOLEAN
  /\ refusals \in 0..MaxRefusals /\ releases \in 0..MaxReleases /\ switches \in 0..MaxSwitches
  /\ touches \in 0..MaxTouches

\* A phone that has left its room holds no lock, unless two requests were on their way at once,
\* and plays no video, unless a request was refused after it had left.
PhoneMaySleep ==
  ~active => (raced \/ held = {}) /\ (refusedLate \/ ~frames)

\* A phone that shows a room and is in view is kept awake, or is about to be: whatever was
\* lost, refused or hidden in between, a lock is held, the video plays or a request is out.
PhoneStaysAwake ==
  active /\ visible /\ hasFallback =>
    wakeLock \in held \/ frames \/ pending > 0 \/ told \cap listening # {}
=============================================================================
