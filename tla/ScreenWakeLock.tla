---------------------------- MODULE ScreenWakeLock ----------------------------
(***************************************************************************)
(* The wake lock of the screen (mountScreenWakeLock, screenWakeLock.ts): a *)
(* lock is asked for and awaited, the system takes it back when it likes   *)
(* and always when the page is hidden, and says so with an event of its    *)
(* own.                                                                    *)
(*                                                                         *)
(* The request is granted, or refused for a hidden page, and answered in   *)
(* one task of the browser: the code after the await runs in the task that *)
(* grants the lock.                                                        *)
(***************************************************************************)
EXTENDS Integers

CONSTANTS MaxRefusals, MaxReleases, MaxSwitches   \* bounds of the model

NoLock == 0

VARIABLES
  active, visible,
  wakeLock,      \* the sentinel the page keeps, numbered as granted
  requesting,
  pending,       \* the browser has still to answer a request
  held,          \* sentinels the system honours
  told,          \* sentinels whose release event has still to be delivered
  retries,       \* retry timers of handleRelease
  granted, refusals, releases, switches

system == <<granted, refusals, releases, switches>>
vars == <<active, visible, wakeLock, requesting, pending, held, told, retries, system>>

\* requestWakeLock up to its await.
RequestWhen(isVisible) ==
  IF active /\ isVisible /\ wakeLock = NoLock /\ ~requesting
    THEN requesting' = TRUE /\ pending' = TRUE
    ELSE UNCHANGED <<requesting, pending>>
Request == RequestWhen(visible)

Init ==
  /\ active = TRUE /\ visible \in BOOLEAN /\ wakeLock = NoLock /\ requesting = visible /\ pending = visible
  /\ held = {} /\ told = {} /\ retries = 0
  /\ granted = 0 /\ refusals = 0 /\ releases = 0 /\ switches = 0

-----------------------------------------------------------------------------
(* The answer of the browser.                                              *)

\* Mutant: nobody looks whether the page is still there.
KeepAnyway(s) == wakeLock' = s /\ held' = held \cup {s}

\* After the await: a lock that came too late is given back.
Keep(s) ==
  IF active THEN wakeLock' = s /\ held' = held \cup {s} ELSE UNCHANGED <<wakeLock, held>>

Grant ==
  /\ pending /\ visible
  /\ pending' = FALSE
  /\ granted' = granted + 1
  /\ Keep(granted + 1)
  /\ requesting' = FALSE
  /\ UNCHANGED <<active, visible, told, retries, refusals, releases, switches>>

\* Mutant: the flag is not taken back.
GiveUpRequesting == requesting' = requesting /\ wakeLock' = NoLock

GiveUp == requesting' = FALSE /\ wakeLock' = NoLock

\* Low battery, or a page that is not in view.
Refuse ==
  /\ pending
  /\ pending' = FALSE
  /\ ~visible \/ (refusals < MaxRefusals)
  /\ refusals' = IF visible THEN refusals + 1 ELSE refusals
  /\ GiveUp
  /\ UNCHANGED <<active, visible, held, told, retries, granted, releases, switches>>

\* The system takes the lock back.
TakeBack(s) == held' = held \ {s} /\ told' = told \cup {s}

SystemReleases(s) ==
  /\ s \in held /\ releases < MaxReleases
  /\ releases' = releases + 1
  /\ TakeBack(s)
  /\ UNCHANGED <<active, visible, wakeLock, requesting, pending, retries, granted, refusals, switches>>

\* handleRelease; the listener is gone once the page has let go of the lock.
HandleRelease(s) ==
  /\ s \in told
  /\ told' = told \ {s}
  /\ IF s # wakeLock THEN UNCHANGED <<wakeLock, retries>>
     ELSE wakeLock' = NoLock /\ retries' = IF active /\ visible THEN retries + 1 ELSE retries
  /\ UNCHANGED <<active, visible, requesting, pending, held, system>>

-----------------------------------------------------------------------------
(* The page.                                                               *)

\* The retry timer, the interval and handleInteraction.
Retry ==
  /\ retries > 0
  /\ retries' = retries - 1
  /\ Request
  /\ UNCHANGED <<active, visible, wakeLock, held, told, system>>

HandleInteraction ==
  /\ active /\ wakeLock = NoLock
  /\ Request
  /\ UNCHANGED <<active, visible, wakeLock, held, told, retries, system>>

\* A hidden page loses its locks; handleVisibilityChange asks for one when it is back.
Hide ==
  /\ visible /\ switches < MaxSwitches
  /\ switches' = switches + 1
  /\ visible' = FALSE
  /\ held' = {} /\ told' = told \cup held
  /\ UNCHANGED <<active, wakeLock, requesting, pending, retries, granted, refusals, releases>>

Show ==
  /\ ~visible
  /\ visible' = TRUE
  /\ RequestWhen(TRUE)
  /\ UNCHANGED <<active, wakeLock, held, told, retries, system>>

\* The function mountScreenWakeLock returns.
Unmount ==
  /\ active
  /\ active' = FALSE
  /\ wakeLock' = NoLock /\ held' = held \ {wakeLock}
  /\ UNCHANGED <<visible, requesting, pending, told, retries, system>>

Next ==
  \/ Grant \/ Refuse \/ Retry \/ HandleInteraction \/ Hide \/ Show \/ Unmount
  \/ \E s \in held : SystemReleases(s)
  \/ \E s \in told : HandleRelease(s)

Spec == Init /\ [][Next]_vars

-----------------------------------------------------------------------------
TypeOK ==
  /\ {active, visible, requesting, pending} \subseteq BOOLEAN
  /\ wakeLock \in 0..granted /\ held \subseteq 1..granted /\ told \subseteq 1..granted
  /\ retries \in Nat

\* The system honours no lock but the one the page can give back, and none once the page
\* is left, whatever was being awaited then (screenWakeLock.ts 60-69, 97-107).
NoLockLeaks == held \subseteq {wakeLock} /\ (~active => held = {})

\* A mounted page in view comes to hold a lock whatever was refused, taken back or missed
\* while it was hidden (screenWakeLock.ts 32-40, 76-95).
ScreenStaysAwake == (active /\ visible) ~> (~active \/ ~visible \/ held # {})
=============================================================================
