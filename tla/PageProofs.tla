------------------------------ MODULE PageProofs ------------------------------
(***************************************************************************)
(* What is true of the pages of the screen and of the phones, each by      *)
(* itself and for every bound: music, wake locks, clocks, photos, the      *)
(* racing pad and the menu.  Theorems about the instances of Pages, and    *)
(* the invariants they rest on.                                            *)
(***************************************************************************)
EXTENDS Pages, SequenceTheorems, FiniteSetTheorems, TLAPS

-----------------------------------------------------------------------------
(* The music.                                                              *)

\* What sounds, as far as the rest of the page can change it.
Heard ==
  /\ playing = (IF source THEN {current} ELSE {})
  /\ disposed => ~source /\ context \in {"none", "closed"}

\* Nothing sounds in the beginning.
LEMMA MusicInit == Music!Init => Heard
  BY DEF Music!Init, Heard

\* No continuation that was still open brings a second track, or a track after disposal.
LEMMA MusicStep == Heard /\ [Music!Next]_Music!vars => Heard'
<1> SUFFICES ASSUME Heard, [Music!Next]_Music!vars PROVE Heard'
  OBVIOUS
<1> USE DEF Heard, Music!bounds
<1>1. ASSUME NEW t \in Tracks, Music!ContinueSync(t) PROVE Heard'
  <2>1. UNCHANGED <<disposed, context>>
    BY <1>1 DEF Music!ContinueSync
  <2>2. CASE buffers[t] = "ready" /\ Music!StillWanted(t)
    <3>1. ~disposed /\ playing' = {t} /\ current' = t /\ source'
      BY <1>1, <2>2 DEF Music!ContinueSync, Music!StillWanted
    <3> QED BY <2>1, <3>1
  <2>3. CASE ~(buffers[t] = "ready" /\ Music!StillWanted(t))
    BY <1>1, <2>1, <2>3 DEF Music!ContinueSync
  <2> QED BY <2>2, <2>3
<1>2. ASSUME NEW t \in Tracks, Music!Render(t) PROVE Heard'
  BY <1>2 DEF Music!Render
<1>3. ASSUME NEW t \in Tracks, Music!ChooseTrack(t) PROVE Heard'
  BY <1>3 DEF Music!ChooseTrack
<1>4. CASE Music!Gesture
  BY <1>4 DEF Music!Gesture
<1>5. CASE Music!Resumed
  BY <1>5 DEF Music!Resumed
<1>6. CASE Music!Hide
  BY <1>6 DEF Music!Hide
<1>7. CASE Music!Show
  BY <1>7 DEF Music!Show
<1>8. CASE Music!Dispose
  BY <1>8 DEF Music!Dispose, Music!Silenced
<1>9. CASE UNCHANGED Music!vars
  BY <1>9 DEF Music!vars
<1> QED BY <1>1, <1>2, <1>3, <1>4, <1>5, <1>6, <1>7, <1>8, <1>9 DEF Music!Next

\* One track at a time is heard, and none once the page has let go of the music, whichever
\* renderings and resumes are still awaited then (backgroundMusic.ts 679-698, 779-834).
THEOREM OneTrackIsHeard == Music!Spec => []Music!NothingPlaysOn
<1>1. Heard => Music!NothingPlaysOn
  BY DEF Heard, Music!NothingPlaysOn
<1> QED BY MusicInit, MusicStep, <1>1, PTL DEF Music!Spec

-----------------------------------------------------------------------------
(* The wake lock of the screen.                                            *)

\* The flags of the page.
LockFlags == active \in BOOLEAN /\ visible \in BOOLEAN /\ requesting \in BOOLEAN /\ pending \in BOOLEAN

\* Locks are numbered as granted.
LockNumbers ==
  /\ granted \in Nat /\ retries \in Nat /\ wakeLock \in 0..granted
  /\ held \subseteq 1..granted /\ told \subseteq 1..granted

\* A request is under way only while the page has no lock, a page that is left has none, and a
\* lock that was taken back is not honoured any more.
LockApart ==
  /\ pending => wakeLock = WakeLock!NoLock
  /\ ~active => wakeLock = WakeLock!NoLock
  /\ held \cap told = {}
  /\ held \subseteq {wakeLock}

\* The inductive invariant.
LockInv == LockFlags /\ LockNumbers /\ LockApart

\* The page begins without a lock.
LEMMA LockInit == WakeLock!Init => LockInv
  BY DEF WakeLock!Init, LockInv, LockFlags, LockNumbers, LockApart, WakeLock!NoLock

\* What asking for a lock changes.
LEMMA LockRequested ==
  ASSUME NEW b, WakeLock!RequestWhen(b)
  PROVE  /\ LockFlags /\ active' = active => requesting' \in BOOLEAN /\ pending' \in BOOLEAN
         /\ pending' => pending \/ wakeLock = WakeLock!NoLock
  BY DEF WakeLock!RequestWhen, LockFlags

\* Every step of the page and the browser keeps the invariant.
LEMMA LockStep == LockInv /\ [WakeLock!Next]_WakeLock!vars => LockInv'
<1> SUFFICES ASSUME LockInv, [WakeLock!Next]_WakeLock!vars PROVE LockInv'
  OBVIOUS
<1> USE DEF WakeLock!system, LockInv
<1>1. CASE WakeLock!Grant
  <2>1. LockFlags'
    BY <1>1 DEF WakeLock!Grant, LockFlags
  <2>2. /\ held = {} /\ granted' = granted + 1 /\ told' = told /\ retries' = retries
        /\ \/ wakeLock' = granted' /\ held' = {granted'} /\ active'
           \/ wakeLock' = wakeLock /\ held' = {} /\ wakeLock = 0
    <3>1. pending /\ active' = active /\ granted' = granted + 1 /\ told' = told /\ retries' = retries
      BY <1>1 DEF WakeLock!Grant
    <3>2. wakeLock = 0 /\ held = {}
      BY <3>1 DEF LockApart, LockNumbers, WakeLock!NoLock
    <3>3. CASE active
      BY <1>1, <3>1, <3>2, <3>3 DEF WakeLock!Grant, WakeLock!Keep
    <3>4. CASE ~active
      BY <1>1, <3>1, <3>2, <3>4 DEF WakeLock!Grant, WakeLock!Keep
    <3> QED BY <3>3, <3>4
  <2>3. LockNumbers'
    BY <2>2 DEF LockNumbers
  <2>4. ~pending'
    BY <1>1 DEF WakeLock!Grant
  <2>5. granted' \notin told'
    BY <2>2 DEF LockNumbers
  <2> QED BY <2>1, <2>2, <2>3, <2>4, <2>5 DEF LockApart, WakeLock!NoLock
<1>2. CASE WakeLock!Refuse
  <2>1. LockFlags'
    BY <1>2 DEF WakeLock!Refuse, WakeLock!GiveUp, LockFlags
  <2>2. /\ held = {} /\ held' = {} /\ granted' = granted /\ told' = told /\ retries' = retries
        /\ wakeLock' = 0 /\ ~pending'
    BY <1>2 DEF WakeLock!Refuse, WakeLock!GiveUp, LockApart, LockNumbers, WakeLock!NoLock
  <2>3. LockNumbers'
    BY <2>2 DEF LockNumbers
  <2> QED BY <2>1, <2>2, <2>3 DEF LockApart, WakeLock!NoLock
<1>3. CASE WakeLock!Retry
  <2>1. LockFlags'
    BY <1>3, LockRequested DEF WakeLock!Retry, WakeLock!Request, LockFlags
  <2>2. /\ held' = held /\ granted' = granted /\ told' = told /\ retries' = retries - 1
        /\ wakeLock' = wakeLock /\ active' = active /\ retries > 0
    BY <1>3 DEF WakeLock!Retry
  <2>3. LockNumbers'
    BY <2>2 DEF LockNumbers
  <2>4. pending' => wakeLock = WakeLock!NoLock
    BY <1>3, LockRequested DEF WakeLock!Retry, WakeLock!Request, LockApart
  <2> QED BY <2>1, <2>2, <2>3, <2>4 DEF LockApart
<1>4. CASE WakeLock!HandleInteraction
  <2>1. LockFlags'
    BY <1>4, LockRequested DEF WakeLock!HandleInteraction, WakeLock!Request, LockFlags
  <2>2. UNCHANGED <<held, granted, told, retries, wakeLock, active>>
    BY <1>4 DEF WakeLock!HandleInteraction
  <2>3. pending' => wakeLock = WakeLock!NoLock
    BY <1>4, LockRequested DEF WakeLock!HandleInteraction, WakeLock!Request, LockApart
  <2> QED BY <2>1, <2>2, <2>3 DEF LockApart, LockNumbers
<1>5. CASE WakeLock!Hide
  <2>1. LockFlags'
    BY <1>5 DEF WakeLock!Hide, LockFlags
  <2>2. /\ UNCHANGED <<granted, retries, wakeLock, active, pending>>
        /\ held' = {} /\ told' = told \cup held
    BY <1>5 DEF WakeLock!Hide
  <2> QED BY <2>1, <2>2 DEF LockApart, LockNumbers
<1>6. CASE WakeLock!Show
  <2>1. LockFlags'
    BY <1>6, LockRequested DEF WakeLock!Show, LockFlags
  <2>2. UNCHANGED <<held, granted, told, retries, wakeLock, active>>
    BY <1>6 DEF WakeLock!Show
  <2>3. pending' => wakeLock = WakeLock!NoLock
    BY <1>6, LockRequested DEF WakeLock!Show, LockApart
  <2> QED BY <2>1, <2>2, <2>3 DEF LockApart, LockNumbers
<1>7. CASE WakeLock!Unmount
  <2>1. LockFlags'
    BY <1>7 DEF WakeLock!Unmount, LockFlags
  <2>2. /\ UNCHANGED <<granted, told, retries, pending>>
        /\ held' = {} /\ wakeLock' = 0
    BY <1>7 DEF WakeLock!Unmount, LockApart, WakeLock!NoLock
  <2> QED BY <2>1, <2>2 DEF LockApart, LockNumbers, WakeLock!NoLock
<1>8. ASSUME NEW s \in held, WakeLock!SystemReleases(s) PROVE LockInv'
  <2>1. LockFlags'
    BY <1>8 DEF WakeLock!SystemReleases, LockFlags
  <2>2. /\ UNCHANGED <<granted, retries, wakeLock, active, pending>>
        /\ held' = held \ {s} /\ told' = told \cup {s}
    BY <1>8 DEF WakeLock!SystemReleases, WakeLock!TakeBack
  <2> QED BY <2>1, <2>2 DEF LockApart, LockNumbers
<1>9. ASSUME NEW s \in told, WakeLock!HandleRelease(s) PROVE LockInv'
  <2>1. LockFlags'
    BY <1>9 DEF WakeLock!HandleRelease, LockFlags
  <2>2. /\ UNCHANGED <<granted, held, active, pending>> /\ told' = told \ {s}
        /\ retries' \in {retries, retries + 1}
        /\ \/ wakeLock' = wakeLock
           \/ wakeLock' = 0 /\ held = {}
    BY <1>9 DEF WakeLock!HandleRelease, LockApart, WakeLock!NoLock
  <2>3. LockNumbers'
    BY <2>2 DEF LockNumbers
  <2> QED BY <2>1, <2>2, <2>3 DEF LockApart, WakeLock!NoLock
<1>10. CASE UNCHANGED WakeLock!vars
  BY <1>10 DEF WakeLock!vars, LockFlags, LockNumbers, LockApart
<1> QED BY <1>1, <1>2, <1>3, <1>4, <1>5, <1>6, <1>7, <1>8, <1>9, <1>10 DEF WakeLock!Next

\* The system never honours a lock the page cannot give back, and none once the page is left
\* (screenWakeLock.ts 60-69, 97-107).
THEOREM LocksAreGivenBack == WakeLock!Spec => []WakeLock!NoLockLeaks
<1>1. LockInv => WakeLock!NoLockLeaks
  <2> SUFFICES ASSUME LockInv PROVE WakeLock!NoLockLeaks
    OBVIOUS
  <2>1. held \subseteq {wakeLock} /\ 0 \notin held /\ (~active => wakeLock = 0)
    BY DEF LockInv, LockApart, LockNumbers, WakeLock!NoLock
  <2> QED BY <2>1 DEF WakeLock!NoLockLeaks
<1> QED BY LockInit, LockStep, <1>1, PTL DEF WakeLock!Spec

\* Every variable of the page keeps its type.
THEOREM LockTypes == WakeLock!Spec => []WakeLock!TypeOK
<1>1. LockInv => WakeLock!TypeOK
  <2> SUFFICES ASSUME LockInv PROVE WakeLock!TypeOK
    OBVIOUS
  <2>1. {active, visible, requesting, pending} \subseteq BOOLEAN
    BY DEF LockInv, LockFlags
  <2> QED BY <2>1 DEF WakeLock!TypeOK, LockInv, LockNumbers
<1> QED BY LockInit, LockStep, <1>1, PTL DEF WakeLock!Spec

-----------------------------------------------------------------------------
(* The clock of a client.                                                  *)

\* What a request on its way knows: it was asked in the past, and the time it brings lies
\* between its question and now, give or take what the clocks drifted apart since.
InFlight(r) ==
  /\ r.sentAt <= monotonic /\ r.slips <= slips
  /\ r.answered => /\ r.sentAt - (slips - r.slips) <= r.read - offset
                   /\ r.read - offset <= monotonic + (slips - r.slips)

ClockInv == Clock!TypeOK /\ (\A r \in requests : InFlight(r)) /\ Clock!ClockErrorBounded

\* The clock begins unmeasured.
LEMMA ClockInit ==
  ASSUME Clock!Init
  PROVE  ClockInv
<1>1. Clock!TypeOK
  <2>1. sampledAt \in Int
    BY ClockConstants DEF Clock!Init
  <2>2. anchor2 \in Int /\ bestRoundTrip \in Nat
    BY ClockConstants DEF Clock!Init, Clock!Infinity
  <2>3. /\ sampleSlips \in Nat /\ monotonic \in Nat /\ offset \in Int /\ slips \in Nat
        /\ anchorAt \in Int
    BY DEF Clock!Init
  <2>4. greeted \in BOOLEAN
    BY DEF Clock!Init
  <2>5. hello = {} /\ requests = {}
    BY DEF Clock!Init
  <2>6. requests \subseteq Clock!Request
    BY <2>5
  <2>7. hello \subseteq Int
    BY <2>5
  <2> QED BY <2>1, <2>2, <2>3, <2>6, <2>7, <2>4 DEF Clock!TypeOK
<1>2. Clock!ClockErrorBounded
  BY DEF Clock!Init, Clock!ClockErrorBounded
<1>3. \A r \in requests : InFlight(r)
  BY DEF Clock!Init
<1> QED BY <1>1, <1>2, <1>3 DEF ClockInv

\* A sample that is accepted is off by no more than half of its round trip and the drift.
LEMMA AcceptBounded ==
  ASSUME ClockInv, NEW r \in requests, r.answered, ~Clock!Useless(r), Clock!Accept(r),
         UNCHANGED <<monotonic, offset, slips, greeted, hello>>
  PROVE  Clock!ClockErrorBounded' /\ bestRoundTrip' \in Nat
<1>1. /\ r.sentAt \in Int /\ r.read \in Int /\ r.slips \in Nat
      /\ monotonic \in Int /\ offset \in Int /\ slips \in Int /\ bestRoundTrip \in Nat
  BY DEF ClockInv, Clock!TypeOK, Clock!Request
<1>2. InFlight(r)
  BY DEF ClockInv
<1>3. 0 <= monotonic - r.sentAt /\ monotonic - r.sentAt <= MaxRoundTrip
  BY <1>1, <1>2, ClockConstants DEF Clock!Useless, Clock!RoundTrip, InFlight
<1> DEFINE k == slips - r.slips
           d == r.read - offset
<1>4. Clock!Error2' = 2 * d - monotonic - r.sentAt
  BY <1>1 DEF Clock!Accept, Clock!RoundTrip, Clock!Error2
<1>5. r.sentAt - k <= d /\ d <= monotonic + k
  BY <1>2 DEF InFlight
<1>6. bestRoundTrip' = monotonic - r.sentAt /\ slips' - sampleSlips' = k
  BY DEF Clock!Accept, Clock!RoundTrip
<1>7. k \in Int /\ d \in Int
  BY <1>1
<1>8. LET bound == (monotonic - r.sentAt) + 2 * k
      IN -bound <= Clock!Error2' /\ Clock!Error2' <= bound
  <2> HIDE DEF k, d
  <2> QED BY <1>1, <1>4, <1>5, <1>7
<1>9. bestRoundTrip' \in Nat
  BY <1>1, <1>3, <1>6
<1>10. Clock!Allowed2' = (monotonic - r.sentAt) + 2 * k
  BY <1>1, <1>6, <1>7, <1>9 DEF Clock!Allowed2
<1> QED BY <1>8, <1>9, <1>10 DEF Clock!ClockErrorBounded

\* Every step keeps what requests know and the bound of the clock.
LEMMA ClockStep ==
  ASSUME ClockInv, [Clock!Next]_Clock!vars
  PROVE  ClockInv'
<1>0. /\ Clock!TypeOK /\ Clock!ClockErrorBounded /\ \A r \in requests : InFlight(r)
  BY DEF ClockInv
<1>1. CASE Clock!Tick
  <2>1. Clock!TypeOK'
    BY <1>0, <1>1 DEF Clock!Tick, Clock!TypeOK, Clock!clock
  <2>2. ASSUME NEW r \in requests' PROVE InFlight(r)'
    <3>1. r \in requests /\ r \in Clock!Request
      BY <1>0, <1>1, <2>2 DEF Clock!Tick, Clock!TypeOK
    <3> QED BY <1>0, <1>1, <3>1 DEF Clock!Tick, Clock!TypeOK, InFlight, Clock!Request
  <2>3. Clock!ClockErrorBounded'
    BY <1>0, <1>1 DEF Clock!Tick, Clock!ClockErrorBounded, Clock!Error2, Clock!Allowed2, Clock!clock
  <2> QED BY <2>1, <2>2, <2>3 DEF ClockInv
<1>2. CASE Clock!Drift
  <2>1. Clock!TypeOK'
    BY <1>0, <1>2 DEF Clock!Drift, Clock!TypeOK, Clock!clock
  <2>2. ASSUME NEW r \in requests' PROVE InFlight(r)'
    <3>1. r \in requests /\ r \in Clock!Request
      BY <1>0, <1>2, <2>2 DEF Clock!Drift, Clock!TypeOK
    <3> QED BY <1>0, <1>2, <3>1 DEF Clock!Drift, Clock!TypeOK, InFlight, Clock!Request
  <2>3. Clock!ClockErrorBounded'
    <3>1. /\ offset \in Int /\ slips \in Int /\ sampleSlips \in Int
          /\ anchor2 \in Int /\ anchorAt \in Int /\ bestRoundTrip \in Int
      BY <1>0 DEF Clock!TypeOK
    <3>2. /\ slips' = slips + 1
          /\ offset' = offset - 1 \/ offset' = offset + 1
          /\ anchor2' = anchor2 /\ anchorAt' = anchorAt
          /\ bestRoundTrip' = bestRoundTrip /\ sampleSlips' = sampleSlips
      BY <1>2 DEF Clock!Drift, Clock!clock
    <3>3. Clock!Error2 - 2 <= Clock!Error2' /\ Clock!Error2' <= Clock!Error2 + 2 /\ Clock!Allowed2' = Clock!Allowed2 + 2
      BY <3>1, <3>2 DEF Clock!Error2, Clock!Allowed2
    <3>4. Clock!Error2 \in Int /\ Clock!Allowed2 \in Int /\ Clock!Error2' \in Int
      BY <3>1, <3>2 DEF Clock!Error2, Clock!Allowed2
    <3>5. -Clock!Allowed2 <= Clock!Error2 /\ Clock!Error2 <= Clock!Allowed2
          => -Clock!Allowed2' <= Clock!Error2' /\ Clock!Error2' <= Clock!Allowed2'
      BY <3>3, <3>4
    <3>6. bestRoundTrip # Clock!Infinity => -Clock!Allowed2' <= Clock!Error2' /\ Clock!Error2' <= Clock!Allowed2'
      BY <1>0, <3>5, Zenon DEF Clock!ClockErrorBounded
    <3> QED BY <3>2, <3>6, Zenon DEF Clock!ClockErrorBounded
  <2> QED BY <2>1, <2>2, <2>3 DEF ClockInv
<1>3. CASE Clock!Connect
  BY <1>0, <1>3 DEF Clock!Connect, Clock!TypeOK, ClockInv, InFlight, Clock!ClockErrorBounded, Clock!Error2, Clock!Allowed2, Clock!clock
<1>4. CASE Clock!Disconnect
  BY <1>0, <1>4 DEF Clock!Disconnect, Clock!TypeOK, ClockInv, InFlight, Clock!ClockErrorBounded, Clock!Error2, Clock!Allowed2, Clock!clock
<1>5. CASE Clock!Sample
  <2>1. Clock!TypeOK'
    <3>1. /\ monotonic \in Int /\ slips \in Nat /\ requests \subseteq Clock!Request
      BY <1>0 DEF Clock!TypeOK
    <3>2. Clock!Asked \in Clock!Request
      BY <3>1 DEF Clock!Asked, Clock!Request
    <3>3. requests' \subseteq Clock!Request
      BY <1>5, <3>1, <3>2 DEF Clock!Sample
    <3> QED BY <1>0, <1>5, <3>3 DEF Clock!Sample, Clock!TypeOK, Clock!clock
  <2>2. InFlight(Clock!Asked)
    BY <1>0 DEF Clock!TypeOK, Clock!Asked, InFlight
  <2>3. Clock!ClockErrorBounded'
    BY <1>0, <1>5 DEF Clock!Sample, Clock!ClockErrorBounded, Clock!Error2, Clock!Allowed2, Clock!clock
  <2> QED BY <1>0, <1>5, <2>1, <2>2, <2>3 DEF ClockInv, Clock!Sample, InFlight
<1>6. ASSUME NEW r \in requests, Clock!Answer(r) PROVE ClockInv'
  <2> DEFINE a == [r EXCEPT !.answered = TRUE, !.read = monotonic + offset]
  <2>1. r \in Clock!Request /\ InFlight(r)
    BY <1>0 DEF Clock!TypeOK
  <2>2. monotonic + offset \in Int
    BY <1>0 DEF Clock!TypeOK
  <2>3. a \in Clock!Request
    BY <2>1, <2>2 DEF Clock!Request
  <2>4. /\ a \in Clock!Request /\ a.sentAt = r.sentAt /\ a.slips = r.slips
        /\ a.read = monotonic + offset
    BY <2>1, <2>3 DEF Clock!Request
  <2>5. InFlight(a)
    BY <1>0, <2>1, <2>4 DEF Clock!TypeOK, InFlight, Clock!Request
  <2>6. requests' = (requests \ {r}) \cup {a}
    BY <1>6 DEF Clock!Answer
  <2>7. Clock!TypeOK'
    BY <1>0, <1>6, <2>4, <2>6 DEF Clock!Answer, Clock!TypeOK, Clock!clock
  <2>8. Clock!ClockErrorBounded'
    BY <1>0, <1>6 DEF Clock!Answer, Clock!ClockErrorBounded, Clock!Error2, Clock!Allowed2, Clock!clock
  <2>9. ASSUME NEW q \in requests' PROVE InFlight(q)'
    <3> HIDE DEF a
    <3>1. q \in requests \/ q = a
      BY <2>6
    <3>2. InFlight(q)
      BY <1>0, <2>5, <3>1
    <3> QED BY <1>6, <3>2 DEF Clock!Answer, InFlight
  <2> QED BY <2>7, <2>8, <2>9 DEF ClockInv
<1>7. ASSUME NEW r \in requests, Clock!Synchronize(r) PROVE ClockInv'
  <2>1. \A q \in requests' : InFlight(q)'
    BY <1>0, <1>7 DEF Clock!Synchronize, InFlight
  <2>2. CASE Clock!Useless(r)
    BY <1>0, <1>7, <2>1, <2>2 DEF Clock!Synchronize, ClockInv, Clock!TypeOK, Clock!ClockErrorBounded, Clock!Error2, Clock!Allowed2, Clock!clock
  <2>3. CASE ~Clock!Useless(r)
    <3>1. Clock!ClockErrorBounded' /\ bestRoundTrip' \in Nat
      BY <1>7, <2>3, AcceptBounded DEF Clock!Synchronize
    <3>2. r \in Clock!Request
      BY <1>0 DEF Clock!TypeOK
    <3>3. Clock!TypeOK'
      BY <1>0, <1>7, <2>3, <3>1, <3>2 DEF Clock!Synchronize, Clock!Accept, Clock!RoundTrip, Clock!TypeOK, Clock!Request
    <3> QED BY <2>1, <3>1, <3>3 DEF ClockInv
  <2> QED BY <2>2, <2>3
<1>8. ASSUME NEW t \in hello, Clock!Initialize(t) PROVE ClockInv'
  <2>1. Clock!TypeOK'
    BY <1>0, <1>8, ClockConstants DEF Clock!Initialize, Clock!TypeOK, Clock!Infinity
  <2> QED BY <1>0, <1>8, <2>1 DEF Clock!Initialize, ClockInv, InFlight, Clock!ClockErrorBounded
<1>9. CASE UNCHANGED Clock!vars
  BY <1>0, <1>9 DEF Clock!vars, Clock!clock, ClockInv, Clock!TypeOK, InFlight, Clock!ClockErrorBounded, Clock!Error2, Clock!Allowed2
<1> QED BY <1>1, <1>2, <1>3, <1>4, <1>5, <1>6, <1>7, <1>8, <1>9 DEF Clock!Next

\* Every variable of the clock keeps its type, whatever the network does with samples.
THEOREM ClockTypeOK ==
  Clock!Spec => []Clock!TypeOK
<1>1. ClockInv => Clock!TypeOK
  BY DEF ClockInv
<1> QED BY ClockInit, ClockStep, <1>1, PTL DEF Clock!Spec

\* The error of the clock stays within half of the best round trip and the drift since it was
\* measured, for every limit and every order in which samples arrive (ServerClock.ts 22-32).
THEOREM ClockIsBounded ==
  Clock!Spec => []Clock!ClockErrorBounded
<1>1. ClockInv => Clock!ClockErrorBounded
  BY DEF ClockInv
<1> QED BY ClockInit, ClockStep, <1>1, PTL DEF Clock!Spec

-----------------------------------------------------------------------------
(* The phone's wake lock.                                                  *)

\* Locks are numbered as granted.
PhoneNumbers ==
  /\ phoneGrants \in Nat /\ waiting \in Nat /\ sentinel \in 0..phoneGrants
  /\ honoured \subseteq 1..phoneGrants /\ untold \subseteq 1..phoneGrants /\ listening \subseteq 1..phoneGrants

PhoneFlags ==
  /\ phoneActive \in BOOLEAN /\ phoneVisible \in BOOLEAN /\ frames \in BOOLEAN /\ hasFallback \in BOOLEAN
  /\ doubled \in BOOLEAN /\ refusedLate \in BOOLEAN

\* One request at a time, and one lock.
PhoneApart ==
  /\ waiting <= 1
  /\ waiting > 0 => sentinel = PhoneLock!NoLock
  /\ ~phoneActive => sentinel = PhoneLock!NoLock
  /\ honoured \cap untold = {}
  /\ honoured \subseteq {sentinel} /\ listening \subseteq {sentinel}

\* The video of a phone that has left was started by a late refusal.
VideoEnds == phoneActive \/ refusedLate \/ ~frames

\* The inductive invariant.
PhoneLockInv == PhoneFlags /\ PhoneNumbers /\ (doubled \/ PhoneApart) /\ VideoEnds

\* A phone begins with at most one request.
LEMMA PhoneInit == PhoneLock!Init => PhoneLockInv
<1> SUFFICES ASSUME PhoneLock!Init PROVE PhoneLockInv
  OBVIOUS
<1>1. waiting \in {0, 1} /\ frames \in BOOLEAN
  BY DEF PhoneLock!Init
<1>2. PhoneFlags /\ VideoEnds
  BY <1>1 DEF PhoneLock!Init, PhoneFlags, VideoEnds
<1>3. PhoneNumbers /\ PhoneApart
  BY <1>1 DEF PhoneLock!Init, PhoneNumbers, PhoneApart, PhoneLock!NoLock
<1> QED
  BY <1>2, <1>3 DEF PhoneLockInv

\* What asking for a lock changes: a request goes out while nothing is kept, and one that goes
\* out beside another is recorded.
LEMMA PhoneRequested ==
  ASSUME NEW kept, NEW b, PhoneLock!RequestKeeping(kept, b), waiting \in Nat, PhoneFlags
  PROVE  /\ waiting' \in Nat /\ doubled' \in BOOLEAN
         /\ doubled => doubled'
         /\ \/ waiting' = waiting
            \/ waiting' = waiting + 1 /\ kept = PhoneLock!NoLock /\ (waiting = 0 \/ doubled')
         /\ frames' \in BOOLEAN /\ (~phoneActive => frames' = frames)
  BY DEF PhoneLock!RequestKeeping, PhoneFlags

\* Every step of the phone and the browser keeps the invariant.
LEMMA PhoneStep == PhoneLockInv /\ [PhoneLock!Next]_PhoneLock!vars => PhoneLockInv'
<1> SUFFICES ASSUME PhoneLockInv, [PhoneLock!Next]_PhoneLock!vars PROVE PhoneLockInv'
  OBVIOUS
<1> USE DEF PhoneLockInv, PhoneLock!fixed, PhoneLock!system
<1>1. CASE PhoneLock!Grant
  <2>1. /\ waiting > 0 /\ waiting' = waiting - 1 /\ phoneGrants' = phoneGrants + 1
        /\ UNCHANGED <<hasFallback, phoneActive, phoneVisible, frames, untold, doubled, refusedLate>>
    BY <1>1 DEF PhoneLock!Grant
  <2>2. \/ phoneActive /\ sentinel' = phoneGrants' /\ honoured' = honoured \cup {phoneGrants'}
                  /\ listening' = listening \cup {phoneGrants'}
        \/ ~phoneActive /\ UNCHANGED <<sentinel, listening, honoured>>
    BY <1>1, <2>1 DEF PhoneLock!Grant, PhoneLock!Keep
  <2>3. PhoneFlags' /\ VideoEnds'
    BY <2>1 DEF PhoneFlags, VideoEnds
  <2>5. PhoneNumbers'
    <3>1. /\ phoneGrants' \in Nat /\ waiting' \in Nat /\ phoneGrants' \in 1..phoneGrants'
          /\ 0..phoneGrants \subseteq 0..phoneGrants' /\ 1..phoneGrants \subseteq 1..phoneGrants'
      BY <2>1 DEF PhoneNumbers
    <3>2. CASE phoneActive
      <4>1. /\ sentinel' = phoneGrants' /\ honoured' = honoured \cup {phoneGrants'}
            /\ listening' = listening \cup {phoneGrants'} /\ untold' = untold
        BY <2>1, <2>2, <3>2
      <4>2. sentinel' \in 0..phoneGrants'
        BY <3>1, <4>1
      <4>3. /\ honoured' \subseteq 1..phoneGrants' /\ untold' \subseteq 1..phoneGrants'
            /\ listening' \subseteq 1..phoneGrants'
        BY <3>1, <4>1 DEF PhoneNumbers
      <4> QED BY <3>1, <4>2, <4>3 DEF PhoneNumbers
    <3>3. CASE ~phoneActive
      BY <2>1, <2>2, <3>1, <3>3 DEF PhoneNumbers
    <3> QED BY <3>2, <3>3
  <2>4. ASSUME ~doubled' PROVE PhoneApart'
    <3>1. PhoneApart /\ sentinel = 0 /\ honoured = {} /\ listening = {} /\ waiting' = 0
      BY <2>1, <2>4 DEF PhoneApart, PhoneNumbers, PhoneLock!NoLock
    <3>2. phoneGrants' \notin untold'
      BY <2>1 DEF PhoneNumbers
    <3> QED
      BY <2>1, <2>2, <3>1, <3>2 DEF PhoneApart, PhoneLock!NoLock
  <2> QED BY <2>3, <2>4, <2>5
<1>2. CASE PhoneLock!Refuse
  <2>1. /\ waiting > 0 /\ waiting' = waiting - 1 /\ sentinel' = PhoneLock!NoLock
        /\ refusedLate' = (refusedLate \/ ~phoneActive) /\ frames' = (frames \/ hasFallback)
        /\ UNCHANGED <<hasFallback, phoneActive, phoneVisible, listening, honoured, untold, doubled, phoneGrants>>
    BY <1>2 DEF PhoneLock!Refuse
  <2>2. PhoneFlags' /\ PhoneNumbers' /\ VideoEnds'
    BY <2>1 DEF PhoneFlags, PhoneNumbers, VideoEnds, PhoneLock!NoLock
  <2>3. ASSUME ~doubled' PROVE PhoneApart'
    BY <2>1, <2>3 DEF PhoneApart, PhoneNumbers
  <2> QED BY <2>2, <2>3
<1>3. ASSUME NEW s \in honoured, PhoneLock!SystemReleases(s) PROVE PhoneLockInv'
  <2>1. /\ honoured' = honoured \ {s} /\ untold' = untold \cup ({s} \cap listening)
        /\ UNCHANGED <<hasFallback, phoneActive, phoneVisible, sentinel, listening, frames, waiting, doubled,
                        refusedLate, phoneGrants>>
    BY <1>3 DEF PhoneLock!SystemReleases, PhoneLock!TakeBack
  <2> QED
    BY <2>1 DEF PhoneFlags, PhoneNumbers, PhoneApart, VideoEnds
<1>4. ASSUME NEW s \in untold, PhoneLock!HandleRelease(s) PROVE PhoneLockInv'
  <2>1. untold' = untold \ {s} /\ UNCHANGED <<hasFallback, phoneActive, phoneVisible, honoured, refusedLate, phoneGrants>>
    BY <1>4 DEF PhoneLock!HandleRelease
  <2>2. CASE s \notin listening
    <3>1. UNCHANGED <<listening, sentinel, waiting, doubled, frames>>
      BY <1>4, <2>2 DEF PhoneLock!HandleRelease
    <3> QED
      BY <2>1, <3>1 DEF PhoneFlags, PhoneNumbers, PhoneApart, VideoEnds
  <2>3. CASE s \in listening
    <3>1. /\ listening' = listening \ {sentinel} /\ sentinel' = PhoneLock!NoLock
          /\ PhoneLock!RequestKeeping(PhoneLock!NoLock, phoneVisible)
      BY <1>4, <2>3 DEF PhoneLock!HandleRelease, PhoneLock!AskAgain
    <3>2. waiting \in Nat
      BY DEF PhoneNumbers
    <3>3. /\ waiting' \in Nat /\ doubled' \in BOOLEAN /\ (doubled => doubled')
          /\ waiting' = waiting \/ (waiting' = waiting + 1 /\ (waiting = 0 \/ doubled'))
          /\ frames' \in BOOLEAN /\ (~phoneActive => frames' = frames)
      BY <3>1, <3>2, PhoneRequested
    <3>4. PhoneFlags' /\ PhoneNumbers' /\ VideoEnds'
      BY <2>1, <3>1, <3>3 DEF PhoneFlags, PhoneNumbers, VideoEnds, PhoneLock!NoLock
    <3>5. ASSUME ~doubled' PROVE PhoneApart'
      <4>1. PhoneApart /\ sentinel = s /\ honoured = {}
        BY <2>3, <3>3, <3>5 DEF PhoneApart
      <4>2. waiting' <= 1
        BY <3>3, <3>5, <4>1, <3>2 DEF PhoneApart
      <4> QED
        BY <2>1, <3>1, <4>1, <4>2 DEF PhoneApart
    <3> QED BY <3>4, <3>5
  <2> QED BY <2>2, <2>3
<1>5. CASE PhoneLock!HandleInteraction \/ PhoneLock!Show
  <2>1. /\ \E b : PhoneLock!RequestKeeping(sentinel, b)
        /\ UNCHANGED <<hasFallback, phoneActive, sentinel, listening, honoured, untold, refusedLate, phoneGrants>>
        /\ phoneVisible' \in BOOLEAN
    <3>1. CASE PhoneLock!HandleInteraction
      BY <3>1 DEF PhoneLock!HandleInteraction, PhoneFlags
    <3>2. CASE PhoneLock!Show
      BY <3>2 DEF PhoneLock!Show
    <3> QED BY <1>5, <3>1, <3>2
  <2>2. waiting \in Nat
    BY DEF PhoneNumbers
  <2>3. /\ waiting' \in Nat /\ doubled' \in BOOLEAN /\ (doubled => doubled')
        /\ \/ waiting' = waiting
           \/ waiting' = waiting + 1 /\ sentinel = PhoneLock!NoLock /\ (waiting = 0 \/ doubled')
        /\ frames' \in BOOLEAN /\ (~phoneActive => frames' = frames)
    BY <2>1, <2>2, PhoneRequested
  <2>4. PhoneFlags' /\ PhoneNumbers' /\ VideoEnds'
    BY <2>1, <2>3 DEF PhoneFlags, PhoneNumbers, VideoEnds
  <2>5. ASSUME ~doubled' PROVE PhoneApart'
    BY <2>1, <2>2, <2>3, <2>5 DEF PhoneApart
  <2> QED BY <2>4, <2>5
<1>6. CASE PhoneLock!Hide
  <2>1. /\ honoured' = {} /\ untold' = untold \cup (honoured \cap listening) /\ phoneVisible' = FALSE
        /\ UNCHANGED <<hasFallback, phoneActive, sentinel, listening, frames, waiting, doubled, refusedLate,
                        phoneGrants>>
    BY <1>6 DEF PhoneLock!Hide, PhoneLock!TakeBack
  <2> QED
    BY <2>1 DEF PhoneFlags, PhoneNumbers, PhoneApart, VideoEnds
<1>7. CASE PhoneLock!Cleanup
  <2>1. /\ phoneActive' = FALSE /\ sentinel' = PhoneLock!NoLock /\ frames' = FALSE
        /\ listening' = listening \ {sentinel} /\ honoured' = honoured \ {sentinel}
        /\ UNCHANGED <<hasFallback, phoneVisible, waiting, untold, doubled, refusedLate, phoneGrants>>
    BY <1>7 DEF PhoneLock!Cleanup
  <2>2. PhoneFlags' /\ VideoEnds'
    BY <2>1 DEF PhoneFlags, VideoEnds
  <2>3. PhoneNumbers'
    BY <2>1 DEF PhoneNumbers, PhoneLock!NoLock
  <2>4. ASSUME ~doubled' PROVE PhoneApart'
    BY <2>1, <2>4 DEF PhoneApart, PhoneNumbers, PhoneLock!NoLock
  <2> QED BY <2>2, <2>3, <2>4
<1>8. CASE UNCHANGED PhoneLock!vars
  BY <1>8 DEF PhoneLock!vars, PhoneFlags, PhoneNumbers, PhoneApart, VideoEnds
<1> QED
  BY <1>1, <1>2, <1>3, <1>4, <1>5, <1>6, <1>7, <1>8 DEF PhoneLock!Next

\* A phone that has left its room holds no wake lock, unless it ever had two requests out at
\* once, and plays no video, unless it was refused a lock after it had left (the cleanup of
\* useWakeHint).
THEOREM PhoneSleeps == PhoneLock!Spec => []PhoneLock!PhoneMaySleep
<1>1. PhoneLockInv => PhoneLock!PhoneMaySleep
  BY DEF PhoneLockInv, PhoneFlags, PhoneNumbers, PhoneApart, VideoEnds, PhoneLock!PhoneMaySleep, PhoneLock!NoLock
<1> QED
  BY PhoneInit, PhoneStep, <1>1, PTL DEF PhoneLock!Spec

-----------------------------------------------------------------------------
\* The lock that is kept is listened to, and held until its event arrives.
KeptIsHeld == sentinel # PhoneLock!NoLock => sentinel \in listening /\ sentinel \in honoured \cup untold

\* Without a lock something else is under way.
AskedOrPlays == phoneActive /\ phoneVisible /\ hasFallback /\ sentinel = PhoneLock!NoLock => frames \/ waiting > 0

\* The inductive invariant of staying awake.
Awake == PhoneLockInv /\ KeptIsHeld /\ AskedOrPlays

\* A phone begins with a request or its video.
LEMMA AwakeInit == PhoneLock!Init => Awake
<1>1. PhoneLock!Init => KeptIsHeld /\ AskedOrPlays
  BY DEF PhoneLock!Init, KeptIsHeld, AskedOrPlays
<1> QED BY <1>1, PhoneInit DEF Awake

\* A request that is due goes out, or the video plays instead.
LEMMA RequestHelps ==
  ASSUME NEW b, PhoneLock!RequestKeeping(PhoneLock!NoLock, b), phoneActive, b, hasFallback, waiting \in Nat
  PROVE  frames' \/ waiting' > 0
<1>1. CASE hasApi
  <2>1. waiting' = waiting + 1
    BY <1>1 DEF PhoneLock!RequestKeeping
  <2> QED BY <2>1
<1>2. CASE ~hasApi
  BY <1>2, Zenon DEF PhoneLock!RequestKeeping
<1> QED BY <1>1, <1>2

\* Every step keeps the phone awake or sees to it.
LEMMA AwakeStep == Awake /\ [PhoneLock!Next]_PhoneLock!vars => Awake'
<1> SUFFICES ASSUME Awake, [PhoneLock!Next]_PhoneLock!vars PROVE KeptIsHeld' /\ AskedOrPlays'
  BY PhoneStep DEF Awake
<1> USE DEF Awake, PhoneLock!fixed, PhoneLock!system
<1>a. waiting \in Nat /\ phoneGrants \in Nat
  BY DEF PhoneLockInv, PhoneNumbers
<1>1. CASE PhoneLock!Grant
  <2>1. CASE phoneActive
    BY <1>1, <2>1, <1>a DEF PhoneLock!Grant, PhoneLock!Keep, KeptIsHeld, AskedOrPlays, PhoneLock!NoLock
  <2>2. CASE ~phoneActive
    BY <1>1, <2>2 DEF PhoneLock!Grant, PhoneLock!Keep, KeptIsHeld, AskedOrPlays
  <2> QED BY <2>1, <2>2
<1>2. CASE PhoneLock!Refuse
  BY <1>2 DEF PhoneLock!Refuse, KeptIsHeld, AskedOrPlays
<1>3. ASSUME NEW s \in honoured, PhoneLock!SystemReleases(s) PROVE KeptIsHeld' /\ AskedOrPlays'
  BY <1>3 DEF PhoneLock!SystemReleases, PhoneLock!TakeBack, KeptIsHeld, AskedOrPlays
<1>4. ASSUME NEW s \in untold, PhoneLock!HandleRelease(s) PROVE KeptIsHeld' /\ AskedOrPlays'
  <2>1. CASE s \notin listening
    BY <1>4, <2>1 DEF PhoneLock!HandleRelease, KeptIsHeld, AskedOrPlays
  <2>2. CASE s \in listening
    <3>1. /\ sentinel' = PhoneLock!NoLock /\ PhoneLock!RequestKeeping(PhoneLock!NoLock, phoneVisible)
          /\ UNCHANGED <<hasFallback, phoneActive, phoneVisible>>
      BY <1>4, <2>2 DEF PhoneLock!HandleRelease, PhoneLock!AskAgain
    <3>2. phoneActive /\ phoneVisible /\ hasFallback => frames' \/ waiting' > 0
      BY <3>1, <1>a, RequestHelps
    <3> QED BY <3>1, <3>2 DEF KeptIsHeld, AskedOrPlays
  <2> QED BY <2>1, <2>2
<1>5. CASE PhoneLock!HandleInteraction
  <2>1. /\ sentinel = PhoneLock!NoLock /\ PhoneLock!RequestKeeping(PhoneLock!NoLock, phoneVisible)
        /\ UNCHANGED <<hasFallback, phoneActive, phoneVisible, sentinel>>
    BY <1>5 DEF PhoneLock!HandleInteraction
  <2>2. phoneActive /\ phoneVisible /\ hasFallback => frames' \/ waiting' > 0
    BY <2>1, <1>a, RequestHelps
  <2> QED BY <2>1, <2>2 DEF KeptIsHeld, AskedOrPlays
<1>6. CASE PhoneLock!Show
  <2>1. /\ PhoneLock!RequestKeeping(sentinel, TRUE)
        /\ UNCHANGED <<hasFallback, phoneActive, sentinel, listening, honoured, untold>>
    BY <1>6 DEF PhoneLock!Show
  <2>2. phoneActive /\ hasFallback /\ sentinel = PhoneLock!NoLock => frames' \/ waiting' > 0
    BY <2>1, <1>a, RequestHelps
  <2> QED BY <2>1, <2>2 DEF KeptIsHeld, AskedOrPlays
<1>7. CASE PhoneLock!Hide
  BY <1>7 DEF PhoneLock!Hide, PhoneLock!TakeBack, KeptIsHeld, AskedOrPlays
<1>8. CASE PhoneLock!Cleanup
  BY <1>8 DEF PhoneLock!Cleanup, KeptIsHeld, AskedOrPlays, PhoneLock!NoLock
<1>9. CASE UNCHANGED PhoneLock!vars
  BY <1>9 DEF PhoneLock!vars, KeptIsHeld, AskedOrPlays
<1> QED
  BY <1>1, <1>2, <1>3, <1>4, <1>5, <1>6, <1>7, <1>8, <1>9 DEF PhoneLock!Next

\* A phone that shows a room and is in view is kept awake, or is about to be, whatever was lost
\* or refused (useWakeHint asks again in handleRelease and plays the video after a refusal).
THEOREM PhoneWakes == PhoneLock!Spec => []PhoneLock!PhoneStaysAwake
<1>1. Awake => PhoneLock!PhoneStaysAwake
  BY DEF Awake, KeptIsHeld, AskedOrPlays, PhoneLock!PhoneStaysAwake, PhoneLock!NoLock
<1> QED
  BY AwakeInit, AwakeStep, <1>1, PTL DEF PhoneLock!Spec

-----------------------------------------------------------------------------
(* The photo of a task.                                                    *)

\* Every pick has its task on record, and no awaited pick has a later id than the page.
Recorded ==
  /\ task \in Nat /\ picks \in Nat /\ uploadId \in Nat
  /\ pickedFor \in Seq(Nat) /\ Len(pickedFor) = picks
  /\ photo \in 0..picks
  /\ compressing \subseteq [pick : 1..picks, id : 0..uploadId]

\* Awaited picks that still count are of this task.
AwaitedAreOfThisTask ==
  \A c \in compressing : rendered /\ c.id = uploadId => pickedFor[c.pick] = task

\* The inductive invariant.
PhotoInv == Recorded /\ AwaitedAreOfThisTask /\ Photo!PhotoIsOfThisTask

\* There is no photo in the beginning.
LEMMA PhotoInit == Photo!Init => PhotoInv
  BY DEF Photo!Init, PhotoInv, Recorded, AwaitedAreOfThisTask, Photo!PhotoIsOfThisTask, Photo!NoPhoto

\* No order of picks, tasks and leaving breaks it.
LEMMA PhotoStep == PhotoInv /\ [Photo!Next]_Photo!vars => PhotoInv'
<1> SUFFICES ASSUME PhotoInv, [Photo!Next]_Photo!vars PROVE PhotoInv'
  OBVIOUS
<1> USE DEF PhotoInv, Recorded, AwaitedAreOfThisTask, Photo!PhotoIsOfThisTask, Photo!NoPhoto
<1>1. CASE Photo!Pick
  <2>1. /\ UNCHANGED <<task, rendered, photo>> /\ picks' = picks + 1 /\ uploadId' = uploadId + 1
        /\ pickedFor' = Append(pickedFor, task)
        /\ compressing' = compressing \cup {[pick |-> picks + 1, id |-> uploadId + 1]}
    BY <1>1 DEF Photo!Pick
  <2>2. /\ pickedFor' \in Seq(Nat) /\ Len(pickedFor') = picks + 1 /\ pickedFor'[picks + 1] = task
        /\ \A i \in 1..picks : pickedFor'[i] = pickedFor[i]
    BY <2>1
  <2>3. Recorded'
    BY <2>1, <2>2
  <2>4. AwaitedAreOfThisTask'
    <3>1. SUFFICES ASSUME NEW c \in compressing', c.id = uploadId' PROVE pickedFor'[c.pick] = task'
      OBVIOUS
    <3>2. c \notin compressing
      BY <2>1, <3>1
    <3> QED BY <2>1, <2>2, <3>1, <3>2
  <2> QED BY <2>1, <2>2, <2>3, <2>4
<1>2. ASSUME NEW c \in compressing, Photo!Compressed(c) PROVE PhotoInv'
  <2>1. /\ UNCHANGED <<task, rendered, picks, uploadId, pickedFor>>
        /\ compressing' = compressing \ {c}
        /\ \/ photo' = photo
           \/ photo' = c.pick /\ c.id = uploadId
    <3>1. CASE Photo!StillWanted(c)
      BY <1>2, <3>1 DEF Photo!Compressed, Photo!StillWanted
    <3>2. CASE ~Photo!StillWanted(c)
      BY <1>2, <3>2 DEF Photo!Compressed
    <3> QED BY <3>1, <3>2
  <2>2. Recorded'
    BY <2>1
  <2> QED BY <2>1, <2>2
<1>3. CASE Photo!NextTask
  BY <1>3 DEF Photo!NextTask, Photo!page
<1>4. CASE Photo!ResetEffect
  <2>1. /\ UNCHANGED <<task, picks, pickedFor, compressing>> /\ photo' = 0 /\ uploadId' = uploadId + 1
    BY <1>4 DEF Photo!ResetEffect
  <2>2. Recorded' /\ \A c \in compressing' : c.id # uploadId'
    BY <2>1
  <2> QED BY <2>1, <2>2
<1>5. CASE Photo!Unmount
  <2>1. /\ UNCHANGED <<task, rendered, picks, pickedFor, compressing, photo>>
        /\ uploadId' = uploadId + 1
    BY <1>5 DEF Photo!Unmount
  <2>2. Recorded' /\ \A c \in compressing' : c.id # uploadId'
    BY <2>1
  <2> QED BY <2>1, <2>2
<1>6. CASE Photo!SendMedia \/ Photo!Accept \/ Photo!LoseConnection \/ Photo!Reconnect \/ Photo!StopSending
  <2>1. UNCHANGED <<task, rendered, photo, uploadId, compressing, pickedFor, picks>>
    BY <1>6 DEF Photo!SendMedia, Photo!Accept, Photo!LoseConnection, Photo!Reconnect, Photo!StopSending, Photo!page
  <2> QED BY <2>1
<1>7. CASE UNCHANGED Photo!vars
  BY <1>7 DEF Photo!vars, Photo!page
<1> QED BY <1>1, <1>2, <1>3, <1>4, <1>5, <1>6, <1>7 DEF Photo!Next

\* A photo that took long to compress never replaces what the page shows for a later task
\* (SocialPartyLayout.tsx 87-93, 142-151).
THEOREM PhotoIsRight == Photo!Spec => []Photo!PhotoIsOfThisTask
<1>1. PhotoInv => Photo!PhotoIsOfThisTask
  BY DEF PhotoInv
<1> QED BY PhotoInit, PhotoStep, <1>1, PTL DEF Photo!Spec

-----------------------------------------------------------------------------
(* The controls of a racing game.                                          *)

SteeringTypes ==
  /\ fixed \in BOOLEAN /\ fitted \in BOOLEAN /\ queued \in BOOLEAN /\ writes \in BOOLEAN
  /\ resets \in BOOLEAN /\ lagged \in BOOLEAN
  /\ fingers \subseteq Steering!Control /\ tracked \subseteq Steering!Control
  /\ controlsRef \subseteq Steering!Control /\ controls \subseteq Steering!Control
  /\ committed \subseteq Steering!Control /\ sent \subseteq Steering!Control

\* A layout that is gone has told the game so and has nothing outstanding.
Gone == ~fitted => sent = {} /\ ~queued /\ ~writes /\ ~resets

\* What the game has is the state of the page; a commit and then an effect are all that keeps
\* the committed state and the ref apart from it.
Synced ==
  /\ controls = sent
  /\ ~queued => committed = sent
  /\ ~queued /\ ~writes => controlsRef = sent
  /\ resets => ~writes

\* Nothing is deflected, and no effect that is outstanding brings anything back.
Still == sent = {} /\ controlsRef = {} /\ (writes => committed = {})

\* The inductive invariant.  Disabled controls are told so by the effect of the reset; what the
\* game has is held by fingers that are listened to, unless a handler read an older ref.
SteeringInv ==
  /\ SteeringTypes /\ Gone
  /\ fitted => Synced /\ (fixed /\ ~resets => Still)
  /\ fitted /\ ~lagged => sent \subseteq tracked \cap fingers

\* A pad begins untouched.
LEMMA SteeringInit == Steering!Init => SteeringInv
  BY DEF Steering!Init, Steering!Idle, SteeringInv, SteeringTypes, Gone, Synced, Still

\* What a handler leaves: page and game go together again once React has run, controls that were
\* still stay so, and with an up-to-date ref the game has the new controls.
Emitted(next) ==
  /\ controlsRef' \subseteq Steering!Control /\ controls' \subseteq Steering!Control
  /\ committed' \subseteq Steering!Control /\ sent' \subseteq Steering!Control
  /\ queued' \in BOOLEAN /\ writes' \in BOOLEAN /\ lagged' \in BOOLEAN
  /\ controls' = sent'
  /\ ~queued' => committed' = sent'
  /\ ~queued' /\ ~writes' => controlsRef' = sent'
  /\ Still /\ next = {} => Still'
  /\ ~lagged' => ~lagged /\ controlsRef = sent /\ sent' = next

\* A press or a release.
LEMMA EmitNowEffect ==
  ASSUME SteeringTypes, Synced, NEW next \in SUBSET Steering!Control, NEW renders \in BOOLEAN,
         Steering!EmitNow(next, renders)
  PROVE  Emitted(next)
<1>1. CASE next # controlsRef
  BY <1>1 DEF Steering!EmitNow, Steering!Emit, SteeringTypes, Synced, Still, Emitted
<1>2. CASE next = controlsRef
  <2>1. /\ lagged' = (lagged \/ controlsRef # sent)
        /\ controlsRef' = (IF renders THEN Steering!Flushed ELSE controlsRef)
        /\ writes' = (writes /\ ~renders)
        /\ UNCHANGED <<controls, sent, committed, queued>>
    BY <1>2 DEF Steering!EmitNow
  <2> QED BY <1>2, <2>1 DEF Steering!Flushed, SteeringTypes, Synced, Still, Emitted
<1> QED BY <1>1, <1>2

\* A move.
LEMMA EmitLaterEffect ==
  ASSUME SteeringTypes, Synced, NEW next \in SUBSET Steering!Control, Steering!EmitLater(next)
  PROVE  Emitted(next)
  BY DEF Steering!EmitLater, Steering!Emit, SteeringTypes, Synced, Still, Emitted

\* A handler keeps the invariant when it deflects no more than it holds.
LEMMA HandlerStep ==
  ASSUME SteeringInv, NEW next, Emitted(next), fitted, ~resets, UNCHANGED <<fixed, fitted, resets>>,
         fixed => next = {},
         fingers' \subseteq Steering!Control, tracked' \subseteq Steering!Control,
         sent \subseteq tracked \cap fingers /\ controlsRef = sent => next \subseteq tracked' \cap fingers'
  PROVE  SteeringInv'
  BY DEF SteeringInv, SteeringTypes, Gone, Synced, Emitted

\* Every event of the pad and of React keeps the invariant.
LEMMA SteeringStep == SteeringInv /\ [Steering!Next]_Steering!vars => SteeringInv'
<1> SUFFICES ASSUME SteeringInv, [Steering!Next]_Steering!vars PROVE SteeringInv'
  OBVIOUS
<1>0. /\ SteeringTypes /\ Gone /\ (fitted => Synced /\ (fixed /\ ~resets => Still))
      /\ fitted /\ ~lagged => sent \subseteq tracked \cap fingers
      /\ "drive" \in Steering!Control /\ "fire" \in Steering!Control
  BY DEF SteeringInv, Steering!Control
<1>a. ASSUME NEW on \in BOOLEAN, NEW control \in Steering!Control
      PROVE  /\ Steering!With(on, control) \in SUBSET Steering!Control
             /\ Steering!With(on, control) \subseteq controlsRef \cup {control}
             /\ ~on => Steering!With(on, control) = controlsRef \ {control}
  BY <1>0 DEF Steering!With, SteeringTypes
\* What leaves the controls alone and takes no finger off what the game has.
<1>b. ASSUME UNCHANGED <<fixed, fitted, resets>>,
             UNCHANGED <<tracked, controlsRef, controls, committed, queued, writes, sent, lagged>>,
             fingers' \subseteq Steering!Control,
             fitted /\ ~lagged => sent \subseteq fingers'
      PROVE  SteeringInv'
  BY <1>0, <1>b DEF SteeringInv, SteeringTypes, Gone, Synced, Still
<1>1. ASSUME NEW deflected \in BOOLEAN, Steering!TouchStick(deflected) PROVE SteeringInv'
  <2>1. /\ fitted /\ ~resets /\ UNCHANGED <<fixed, fitted, resets>>
        /\ fingers' = fingers \cup {"drive"} /\ fingers' \subseteq Steering!Control
    BY <1>0, <1>1 DEF Steering!TouchStick, Steering!Stroke, SteeringTypes
  <2>2. CASE fixed
    <3>1. UNCHANGED <<tracked, controlsRef, controls, committed, queued, writes, sent, lagged>>
      BY <1>1, <2>2 DEF Steering!TouchStick, Steering!react
    <3> QED BY <1>0, <1>b, <2>1, <3>1
  <2>3. CASE ~fixed
    <3> DEFINE next == Steering!With(deflected, "drive")
    <3>1. tracked' = tracked \cup {"drive"} /\ Steering!EmitNow(next, TRUE)
      BY <1>1, <2>3 DEF Steering!TouchStick
    <3>2. next \in SUBSET Steering!Control /\ next \subseteq controlsRef \cup {"drive"}
      BY <1>0, <1>a
    <3> HIDE DEF next
    <3>3. Emitted(next)
      BY <1>0, <2>1, <3>1, <3>2, EmitNowEffect
    <3>4. tracked' \subseteq Steering!Control
      BY <1>0, <3>1 DEF SteeringTypes
    <3> QED BY <2>1, <2>3, <3>1, <3>2, <3>3, <3>4, HandlerStep
  <2> QED BY <2>2, <2>3
<1>2. ASSUME NEW deflected \in BOOLEAN, Steering!MoveStick(deflected) PROVE SteeringInv'
  <2> DEFINE next == Steering!With(deflected, "drive")
  <2>1. /\ fitted /\ ~resets /\ ~fixed /\ UNCHANGED <<fixed, fitted, resets, fingers, tracked>>
        /\ "drive" \in tracked /\ "drive" \in fingers /\ Steering!EmitLater(next)
    BY <1>2 DEF Steering!MoveStick, Steering!Stroke
  <2>2. next \in SUBSET Steering!Control /\ next \subseteq controlsRef \cup {"drive"}
    BY <1>0, <1>a
  <2> HIDE DEF next
  <2>3. Emitted(next)
    BY <1>0, <2>1, <2>2, EmitLaterEffect
  <2>4. fingers' \subseteq Steering!Control /\ tracked' \subseteq Steering!Control
    BY <1>0, <2>1 DEF SteeringTypes
  <2> QED BY <2>1, <2>2, <2>3, <2>4, HandlerStep
<1>3. CASE Steering!PressButton
  <2>1. /\ fitted /\ ~resets /\ UNCHANGED <<fixed, fitted, resets>>
        /\ fingers' = fingers \cup {"fire"} /\ fingers' \subseteq Steering!Control
    BY <1>0, <1>3 DEF Steering!PressButton, Steering!Stroke, SteeringTypes
  <2>2. CASE fixed
    <3>1. UNCHANGED <<tracked, controlsRef, controls, committed, queued, writes, sent, lagged>>
      BY <1>3, <2>2 DEF Steering!PressButton, Steering!react
    <3> QED BY <1>0, <1>b, <2>1, <3>1
  <2>3. CASE ~fixed
    <3> DEFINE next == Steering!With(TRUE, "fire")
    <3>1. tracked' = tracked \cup {"fire"} /\ Steering!EmitNow(next, FALSE)
      BY <1>3, <2>3 DEF Steering!PressButton
    <3>2. next \in SUBSET Steering!Control /\ next \subseteq controlsRef \cup {"fire"}
      BY <1>0, <1>a
    <3> HIDE DEF next
    <3>3. Emitted(next)
      BY <1>0, <2>1, <3>1, <3>2, EmitNowEffect
    <3>4. tracked' \subseteq Steering!Control
      BY <1>0, <3>1 DEF SteeringTypes
    <3> QED BY <2>1, <2>3, <3>1, <3>2, <3>3, <3>4, HandlerStep
  <2> QED BY <2>2, <2>3
<1>4. ASSUME NEW control \in Steering!Control, Steering!Lift(control) PROVE SteeringInv'
  <2>1. /\ ~resets /\ UNCHANGED <<fixed, fitted, resets>>
        /\ fingers' = fingers \ {control} /\ fingers' \subseteq Steering!Control
    BY <1>0, <1>4 DEF Steering!Lift, SteeringTypes
  <2>2. CASE /\ UNCHANGED <<tracked, controlsRef, controls, committed, queued, writes, sent, lagged>>
             /\ ~fitted \/ control \notin tracked \/ fixed
    <3>1. fitted /\ ~lagged => sent \subseteq fingers'
      BY <1>0, <2>1, <2>2 DEF Still
    <3> QED BY <1>b, <2>1, <2>2, <3>1
  <2>3. CASE fitted /\ Steering!LetGo(control)
    <3> DEFINE next == Steering!With(FALSE, control)
               renders == control = "drive"
    <3>1. tracked' = tracked \ {control} /\ Steering!EmitNow(next, renders)
      BY <2>3 DEF Steering!LetGo
    <3>2. next \in SUBSET Steering!Control /\ next = controlsRef \ {control} /\ renders \in BOOLEAN
      BY <1>a
    <3> HIDE DEF next, renders
    <3>3. Emitted(next)
      BY <1>0, <2>3, <3>1, <3>2, EmitNowEffect
    <3>4. tracked' \subseteq Steering!Control /\ (fixed => next = {})
      BY <1>0, <2>1, <2>3, <3>1, <3>2 DEF SteeringTypes, Still
    <3> QED BY <2>1, <2>3, <3>1, <3>2, <3>3, <3>4, HandlerStep
  <2> QED BY <1>4, <2>2, <2>3 DEF Steering!Lift, Steering!react
<1>5. CASE Steering!Commit
  BY <1>0, <1>5 DEF Steering!Commit, Steering!Flushed, SteeringInv, SteeringTypes, Gone, Synced, Still
<1>6. CASE Steering!WriteEffect
  BY <1>0, <1>6 DEF Steering!WriteEffect, SteeringInv, SteeringTypes, Gone, Synced, Still
<1>7. CASE Steering!ResetEffect
  BY <1>0, <1>7 DEF Steering!ResetEffect, Steering!Emit, Steering!Idle, SteeringInv, SteeringTypes,
                    Gone, Synced, Still
<1>8. CASE Steering!Unfit
  BY <1>0, <1>8 DEF Steering!Unfit, Steering!Idle, SteeringInv, SteeringTypes, Gone
<1>9. ASSUME NEW off \in BOOLEAN, Steering!Switch(off) PROVE SteeringInv'
  BY <1>0, <1>9 DEF Steering!Switch, Steering!Flushed, SteeringInv, SteeringTypes, Gone, Synced
<1>10. CASE UNCHANGED Steering!vars
  BY <1>0, <1>10 DEF Steering!vars, Steering!react, SteeringInv, SteeringTypes, Gone, Synced, Still
<1> QED BY <1>1, <1>2, <1>3, <1>4, <1>5, <1>6, <1>7, <1>8, <1>9, <1>10 DEF Steering!Next

\* Disabled or removed controls drive and fire nothing, and ref, state and game agree again once
\* React has run, whatever came between; the car then does only what a finger still holds, but
\* where since the last reset a handler read a ref that an effect had set back
\* (RacingControlsLayout.tsx 455-498).
THEOREM CarRests == Steering!Spec => []Steering!CarComesToRest
<1>1. SteeringInv => Steering!CarComesToRest
  BY DEF SteeringInv, SteeringTypes, Gone, Synced, Still, Steering!CarComesToRest, Steering!Idle
<1> QED BY SteeringInit, SteeringStep, <1>1, PTL DEF Steering!Spec

-----------------------------------------------------------------------------
(* The host's menu.                                                        *)

Rounds == {"none", "running", "finished"}
Packet == {"hold", "resume", "release", "abort", "select"}
RoomSeen == [driver : Menu!Driver, round : Rounds]
Snapshots == [room : RoomSeen, aborted : BOOLEAN]

MenuTypes ==
  /\ driver \in Menu!Driver /\ roundOn \in Rounds /\ pausedBy \in Menu!Driver
  /\ here \in BOOLEAN /\ linkUp \in BOOLEAN /\ menuOpen \in BOOLEAN /\ strayed \in BOOLEAN
  /\ uplink \in Seq(Packet) /\ downlink \in Seq(Snapshots) /\ page \in RoomSeen

\* A line of packets that resumes, and one that resumes after every hold in it.
Resumes(line) == \E j \in 1..Len(line) : line[j] = "resume"
ResumesAfterHolds(line) ==
  \A i \in 1..Len(line) : line[i] = "hold" => \E j \in (i + 1)..Len(line) : line[j] = "resume"

\* Behind a closed menu every hold is followed by its end, and one that is on is ended yet; what
\* a room without a round is held for is forgotten by the next start.
HoldEnds ==
  ~menuOpen /\ ~strayed =>
    /\ ResumesAfterHolds(uplink)
    /\ pausedBy = "ann" /\ roundOn # "none" => Resumes(uplink)

\* Her packets are listened to as long as the pause is hers.
HoldIsHeard == ~strayed /\ pausedBy = "ann" => driver = "ann"

\* An open menu is on the page, and a connected phone has been sent the room as it is.
MenuIsOffered == menuOpen => Menu!Offered(page)
PhoneIsTold == linkUp => Menu!LastSent = Menu!Seen

\* The inductive invariant.
MenuInv == MenuTypes /\ HoldEnds /\ HoldIsHeard /\ MenuIsOffered /\ PhoneIsTold

\* A menu begins closed over a room nobody holds.
LEMMA MenuInit == Menu!Init => MenuInv
<1> SUFFICES ASSUME Menu!Init PROVE MenuInv
  OBVIOUS
<1> USE DEF Menu!Init, Menu!Nobody, Menu!Seen
<1>1. MenuTypes
  <2>1. driver \in Menu!Driver /\ roundOn \in Rounds /\ pausedBy \in Menu!Driver
    BY DEF Menu!Driver, Rounds
  <2>2. page \in RoomSeen
    BY <2>1 DEF RoomSeen
  <2>3. uplink \in Seq(Packet) /\ downlink \in Seq(Snapshots)
    OBVIOUS
  <2> QED BY <2>1, <2>2, <2>3 DEF MenuTypes
<1>2. ResumesAfterHolds(uplink) /\ pausedBy # "ann"
  BY DEF ResumesAfterHolds
<1>3. Menu!LastSent = Menu!Seen
  BY DEF Menu!LastSent
<1> QED BY <1>1, <1>2, <1>3 DEF MenuInv, HoldEnds, HoldIsHeard, MenuIsOffered, PhoneIsTold

-----------------------------------------------------------------------------
(* Lines of packets.                                                       *)

\* What is left of a line when its first packet is handled.
LEMMA LineHandled ==
  ASSUME NEW line \in Seq(Packet), line # <<>>
  PROVE  /\ Head(line) \in Packet /\ Tail(line) \in Seq(Packet)
         /\ ResumesAfterHolds(line) => ResumesAfterHolds(Tail(line))
         /\ Resumes(line) /\ Head(line) # "resume" => Resumes(Tail(line))
         /\ ResumesAfterHolds(line) /\ Head(line) = "hold" => Resumes(Tail(line))
<1> DEFINE rest == Tail(line)
<1>1. /\ Head(line) \in Packet /\ rest \in Seq(Packet) /\ Len(line) \in Nat /\ Len(line) >= 1
      /\ Len(rest) = Len(line) - 1 /\ Head(line) = line[1]
      /\ \A i \in 1..Len(rest) : rest[i] = line[i + 1]
  OBVIOUS
<1> HIDE DEF rest
<1>2. ASSUME NEW j \in 2..Len(line), line[j] = "resume"
      PROVE  j - 1 \in 1..Len(rest) /\ rest[j - 1] = "resume"
  BY <1>1, <1>2
<1>3. ASSUME ResumesAfterHolds(line) PROVE ResumesAfterHolds(rest)
  <2> SUFFICES ASSUME NEW i \in 1..Len(rest), rest[i] = "hold"
               PROVE  \E j \in (i + 1)..Len(rest) : rest[j] = "resume"
    BY DEF ResumesAfterHolds
  <2>1. i + 1 \in 1..Len(line) /\ line[i + 1] = "hold"
    BY <1>1
  <2>2. PICK j \in ((i + 1) + 1)..Len(line) : line[j] = "resume"
    BY <1>3, <2>1 DEF ResumesAfterHolds
  <2>3. j \in 2..Len(line) /\ j - 1 \in (i + 1)..Len(rest)
    BY <1>1, <2>2
  <2> QED BY <1>2, <2>2, <2>3
<1>4. ASSUME Resumes(line), Head(line) # "resume" PROVE Resumes(rest)
  <2>1. PICK j \in 1..Len(line) : line[j] = "resume"
    BY <1>4 DEF Resumes
  <2>2. j \in 2..Len(line)
    BY <1>1, <1>4, <2>1
  <2> QED BY <1>2, <2>1, <2>2 DEF Resumes
<1>5. ASSUME ResumesAfterHolds(line), Head(line) = "hold" PROVE Resumes(rest)
  <2>1. PICK j \in (1 + 1)..Len(line) : line[j] = "resume"
    BY <1>1, <1>5 DEF ResumesAfterHolds
  <2> QED BY <1>1, <1>2, <2>1 DEF Resumes
<1> QED BY <1>1, <1>3, <1>4, <1>5 DEF rest

\* What is sent behind a line: the end of a hold, or nothing that begins one.
LEMMA LineSent ==
  ASSUME NEW line \in Seq(Packet), NEW more \in Seq(Packet)
  PROVE  /\ line \o more \in Seq(Packet)
         /\ more # <<>> /\ more[Len(more)] = "resume"
              => ResumesAfterHolds(line \o more) /\ Resumes(line \o more)
         /\ (\A i \in 1..Len(more) : more[i] = "select")
              => /\ ResumesAfterHolds(line) => ResumesAfterHolds(line \o more)
                 /\ Resumes(line) => Resumes(line \o more)
<1> DEFINE all == line \o more
<1>1. /\ all \in Seq(Packet) /\ Len(all) = Len(line) + Len(more) /\ Len(line) \in Nat
      /\ Len(more) \in Nat /\ (more # <<>> => Len(more) >= 1)
      /\ \A i \in 1..Len(line) : all[i] = line[i]
      /\ \A i \in 1..Len(more) : all[Len(line) + i] = more[i]
  OBVIOUS
<1> HIDE DEF all
<1>2. ASSUME more # <<>>, more[Len(more)] = "resume"
      PROVE  ResumesAfterHolds(all) /\ Resumes(all)
  <2>1. Len(all) \in 1..Len(all) /\ all[Len(all)] = "resume"
    BY SMTT(60), <1>1, <1>2
  <2>2. ASSUME NEW i \in 1..Len(all), all[i] = "hold" PROVE Len(all) \in (i + 1)..Len(all)
    BY <1>1, <2>1, <2>2
  <2> QED BY <2>1, <2>2 DEF ResumesAfterHolds, Resumes
<1>3. ASSUME \A i \in 1..Len(more) : more[i] = "select", ResumesAfterHolds(line)
      PROVE  ResumesAfterHolds(all)
  <2> SUFFICES ASSUME NEW i \in 1..Len(all), all[i] = "hold"
               PROVE  \E j \in (i + 1)..Len(all) : all[j] = "resume"
    BY DEF ResumesAfterHolds
  <2>1. i \in 1..Len(line)
    <3>1. ASSUME i > Len(line) PROVE FALSE
      <4>1. i - Len(line) \in 1..Len(more) /\ Len(line) + (i - Len(line)) = i
        BY <1>1, <3>1
      <4>2. all[i] = "select"
        BY <1>1, <1>3, <4>1
      <4> QED BY <4>2
    <3> QED BY <1>1, <3>1
  <2>2. PICK j \in (i + 1)..Len(line) : line[j] = "resume"
    BY <1>1, <1>3, <2>1 DEF ResumesAfterHolds
  <2> QED BY <1>1, <2>2
<1>4. ASSUME Resumes(line) PROVE Resumes(all)
  BY <1>1, <1>4 DEF Resumes
<1>5. all = line \o more
  BY DEF all
<1> QED BY <1>1, <1>2, <1>3, <1>4, <1>5, Zenon

\* What is left of a line when its first elements are gone ends as the line did.
LEMMA LineRendered ==
  ASSUME NEW T, NEW line \in Seq(T), NEW k \in 1..Len(line), k < Len(line)
  PROVE  /\ SubSeq(line, k + 1, Len(line)) \in Seq(T)
         /\ SubSeq(line, k + 1, Len(line)) # <<>>
         /\ SubSeq(line, k + 1, Len(line))[Len(SubSeq(line, k + 1, Len(line)))] = line[Len(line)]
<1> DEFINE m == k + 1
           n == Len(line)
           rest == SubSeq(line, m, n)
<1>1. m \in Int /\ n \in Int /\ m <= n /\ n - m + 1 \in 1..(n - m + 1) /\ m + (n - m + 1) - 1 = n
  OBVIOUS
<1>2. \A i \in m..n : line[i] \in T
  OBVIOUS
<1> HIDE DEF m, n
<1>3. /\ rest \in Seq(T) /\ Len(rest) = n - m + 1
      /\ rest[n - m + 1] = line[m + (n - m + 1) - 1]
  BY <1>1, <1>2, SubSeqProperties
<1> HIDE DEF rest
<1>4. rest # <<>> /\ rest[Len(rest)] = line[n]
  BY <1>1, <1>3
<1> QED BY <1>3, <1>4 DEF rest, m, n

-----------------------------------------------------------------------------
(* The steps of the menu and its room.                                     *)

\* A broadcast tells a connected phone the room as it is.
LEMMA BroadcastEffect ==
  ASSUME MenuTypes, PhoneIsTold, NEW aborted \in BOOLEAN, Menu!Broadcast(aborted),
         UNCHANGED <<linkUp, page>>, driver' \in Menu!Driver, roundOn' \in Rounds
  PROVE  downlink' \in Seq(Snapshots) /\ PhoneIsTold'
<1> DEFINE now == [driver |-> driver', round |-> roundOn']
           message == [room |-> now, aborted |-> aborted]
<1>1. now \in RoomSeen /\ message \in Snapshots
  BY DEF RoomSeen, Snapshots
<1>2. downlink \in Seq(Snapshots)
  BY DEF MenuTypes
<1>3. Menu!Seen' = now
  BY DEF Menu!Seen
<1>4. CASE linkUp /\ (Menu!Seen' # Menu!LastSent \/ aborted)
  <2>1. downlink' = Append(downlink, message)
    BY <1>3, <1>4 DEF Menu!Broadcast
  <2>2. downlink' \in Seq(Snapshots) /\ downlink' # <<>> /\ downlink'[Len(downlink')] = message
    BY <1>1, <1>2, <2>1
  <2>3. Menu!LastSent' = message.room
    BY <2>2 DEF Menu!LastSent
  <2> QED BY <1>3, <2>2, <2>3 DEF PhoneIsTold
<1>5. CASE ~(linkUp /\ (Menu!Seen' # Menu!LastSent \/ aborted))
  <2>1. downlink' = downlink
    BY <1>5 DEF Menu!Broadcast
  <2>2. Menu!LastSent' = Menu!LastSent
    BY <2>1 DEF Menu!LastSent
  <2> QED BY <1>2, <1>5, <2>1, <2>2 DEF PhoneIsTold
<1> QED BY <1>4, <1>5

\* What the buttons of the menu send ends with a resume.
LEMMA MenuCloses ==
  ASSUME MenuInv, NEW more \in Seq(Packet), more # <<>>, more[Len(more)] = "resume",
         Menu!Emit(more), Menu!Click, menuOpen' \in BOOLEAN, ~menuOpen'
  PROVE  MenuInv'
<1>1. /\ UNCHANGED <<driver, roundOn, pausedBy, here, linkUp, downlink, page>>
      /\ \/ uplink' = uplink \o more /\ strayed' = strayed
         \/ uplink' = uplink /\ strayed' = TRUE
  BY DEF Menu!Emit, Menu!Click, Menu!room
<1>2. uplink \in Seq(Packet)
  BY DEF MenuInv, MenuTypes
<1>3. MenuTypes'
  BY <1>1, <1>2, LineSent DEF MenuInv, MenuTypes
<1>4. HoldEnds'
  BY <1>1, <1>2, LineSent DEF HoldEnds
<1>5. HoldIsHeard'
  BY <1>1 DEF MenuInv, HoldIsHeard
<1>6. PhoneIsTold'
  BY <1>1 DEF MenuInv, PhoneIsTold, Menu!LastSent, Menu!Seen
<1> QED BY <1>3, <1>4, <1>5, <1>6 DEF MenuInv, MenuIsOffered

\* What happens elsewhere leaves her packets alone: the pause is not hers after it, or the room
\* is held as it was by someone who still drives it, or she is cut off.
LEMMA ElsewhereKeeps ==
  ASSUME MenuInv, NEW cut \in BOOLEAN, Menu!Elsewhere(cut), here' \in BOOLEAN,
         driver' \in Menu!Driver, roundOn' \in Rounds, pausedBy' \in Menu!Driver,
         \/ pausedBy' # "ann"
         \/ pausedBy' = pausedBy /\ driver' = driver /\ (roundOn' = "none" \/ roundOn # "none")
         \/ pausedBy' = pausedBy /\ cut
  PROVE  MenuInv'
<1>1. /\ UNCHANGED <<linkUp, uplink, page, menuOpen>> /\ Menu!Broadcast(FALSE)
      /\ strayed' = ((strayed \/ cut) /\ (pausedBy' = "ann" \/ uplink' # <<>>))
  BY DEF Menu!Elsewhere, Menu!phone, Menu!Strays
<1>2. downlink' \in Seq(Snapshots) /\ PhoneIsTold'
  BY <1>1, BroadcastEffect DEF MenuInv
<1>3. MenuTypes'
  BY <1>1, <1>2 DEF MenuInv, MenuTypes
<1>4. HoldEnds'
  <2> SUFFICES ASSUME ~menuOpen', ~strayed'
               PROVE  /\ ResumesAfterHolds(uplink')
                      /\ pausedBy' = "ann" /\ roundOn' # "none" => Resumes(uplink')
    BY DEF HoldEnds
  <2>1. CASE uplink' = <<>> /\ pausedBy' # "ann"
    BY <2>1 DEF ResumesAfterHolds
  <2>2. CASE ~strayed /\ ~cut
    BY <1>1, <2>2 DEF MenuInv, HoldEnds
  <2> QED BY <1>1, <2>1, <2>2 DEF MenuInv, MenuTypes
<1>5. HoldIsHeard'
  BY <1>1, <1>3 DEF MenuInv, MenuTypes, HoldIsHeard
<1> QED BY <1>1, <1>2, <1>3, <1>4, <1>5 DEF MenuInv, MenuIsOffered

\* A packet of hers does to the room what the menu sent it for.
LEMMA HandleKeeps ==
  ASSUME MenuInv, Menu!Handle
  PROVE  MenuInv'
<1> DEFINE packet == Head(uplink)
<1>1. /\ linkUp /\ uplink # <<>> /\ uplink' = Tail(uplink) /\ UNCHANGED <<here, linkUp, page, menuOpen>>
      /\ Menu!Broadcast(driver = "ann" /\ Head(uplink) = "abort")
      /\ strayed' = (strayed /\ (pausedBy' = "ann" \/ uplink' # <<>>))
  BY DEF Menu!Handle, Menu!phone, Menu!Strays
<1>2. MenuTypes /\ HoldEnds /\ HoldIsHeard /\ MenuIsOffered /\ PhoneIsTold
  BY DEF MenuInv
<1>3. /\ driver' \in Menu!Driver /\ roundOn' \in Rounds /\ pausedBy' \in Menu!Driver
      /\ \/ UNCHANGED <<driver, roundOn, pausedBy>> /\ driver # "ann"
         \/ /\ driver = "ann" /\ driver' = "ann" /\ packet = "hold" /\ roundOn' = roundOn
            /\ pausedBy' = pausedBy \/ pausedBy' = "ann"
         \/ /\ driver = "ann" /\ driver' = "ann" /\ packet = "resume" /\ roundOn' = roundOn
            /\ pausedBy' # "ann" \/ (roundOn = "none" /\ pausedBy' = pausedBy)
         \/ pausedBy' # "ann"
         \/ UNCHANGED <<driver, pausedBy>> /\ roundOn' = "none"
  <2>1. CASE driver # "ann"
    BY <1>2, <2>1 DEF Menu!Handle, Menu!room, MenuTypes
  <2>2. CASE driver = "ann" /\ packet \in {"hold", "resume"} /\ Menu!SetPaused("ann", packet = "hold")
    BY <1>2, <2>2 DEF Menu!SetPaused, Menu!Nobody, MenuTypes, Menu!Driver
  <2>3. CASE driver = "ann" /\ Menu!HandBack
    BY <1>2, <2>3 DEF Menu!HandBack, Menu!ReleasePauseHeldBy, Menu!Nobody, MenuTypes, Menu!Driver
  <2>4. CASE Menu!AbortRound
    BY <1>2, <2>4 DEF Menu!AbortRound, Menu!ClearPause, Menu!Nobody, MenuTypes, Menu!Driver, Rounds
  <2>5. CASE Menu!SelectGame
    BY <1>2, <2>5 DEF Menu!SelectGame, MenuTypes, Rounds
  <2> QED BY <2>1, <2>2, <2>3, <2>4, <2>5 DEF Menu!Handle
<1>4. /\ packet \in Packet /\ uplink' \in Seq(Packet)
      /\ ResumesAfterHolds(uplink) => ResumesAfterHolds(uplink')
      /\ Resumes(uplink) /\ packet # "resume" => Resumes(uplink')
      /\ ResumesAfterHolds(uplink) /\ packet = "hold" => Resumes(uplink')
  BY <1>1, <1>2, LineHandled DEF MenuTypes
<1> HIDE DEF packet
<1>5. downlink' \in Seq(Snapshots) /\ PhoneIsTold'
  BY <1>1, <1>2, <1>3, BroadcastEffect
<1>6. MenuTypes'
  BY <1>1, <1>2, <1>3, <1>4, <1>5 DEF MenuTypes
<1>7. HoldEnds'
  <2> SUFFICES ASSUME ~menuOpen', ~strayed'
               PROVE  /\ ResumesAfterHolds(uplink')
                      /\ pausedBy' = "ann" /\ roundOn' # "none" => Resumes(uplink')
    BY DEF HoldEnds
  <2>1. CASE uplink' = <<>> /\ pausedBy' # "ann"
    BY <2>1 DEF ResumesAfterHolds
  <2>2. CASE ~strayed
    BY <1>1, <1>2, <1>3, <1>4, <2>2 DEF HoldEnds, HoldIsHeard
  <2> QED BY <1>1, <1>2, <2>1, <2>2 DEF MenuTypes
<1>8. HoldIsHeard'
  <2> SUFFICES ASSUME ~strayed', pausedBy' = "ann" PROVE driver' = "ann"
    BY DEF HoldIsHeard
  <2>1. ~strayed
    BY <1>1, <1>2 DEF MenuTypes
  <2> QED BY <1>2, <1>3, <2>1 DEF HoldIsHeard
<1> QED BY <1>1, <1>2, <1>5, <1>6, <1>7, <1>8 DEF MenuInv, MenuIsOffered

\* A snapshot that is rendered closes a menu it does not offer, and says so.
LEMMA RenderKeeps ==
  ASSUME MenuInv, NEW k \in Nat, Menu!Render(k)
  PROVE  MenuInv'
<1> DEFINE quiet == Menu!Selects(k)
           more == quiet \o IF menuOpen /\ ~menuOpen' THEN <<"resume">> ELSE <<>>
           seen == {j \in 1..k : downlink[j].aborted}
<1>1. /\ k \in 1..Len(downlink) /\ page' = downlink[k].room
      /\ menuOpen' = (menuOpen /\ Menu!Offered(page')) /\ Menu!Emit(more)
      /\ downlink' = SubSeq(downlink, k + 1, Len(downlink))
      /\ UNCHANGED <<driver, roundOn, pausedBy, here, linkUp>>
  BY DEF Menu!Render, Menu!Commit, Menu!room, MenuInv, MenuTypes
<1>2. MenuTypes /\ HoldEnds /\ HoldIsHeard /\ MenuIsOffered /\ PhoneIsTold
  BY DEF MenuInv
<1>3. quiet \in Seq(Packet) /\ \A i \in 1..Len(quiet) : quiet[i] = "select"
  <2>1. Cardinality(seen) \in Nat
    <3>1. seen \in SUBSET (1..k) /\ k \in Int /\ 1 \in Int
      OBVIOUS
    <3>2. IsFiniteSet(1..k)
      BY <3>1, FS_Interval
    <3>3. IsFiniteSet(seen)
      BY <3>1, <3>2, FS_Subset
    <3> QED BY <3>3, FS_CardinalityType
  <2>2. quiet = [i \in 1..Cardinality(seen) |-> "select"]
    <3>1. \A S : Menu!Cardinality(S) = Cardinality(S)
      BY DEF Menu!Cardinality, Cardinality
    <3> QED BY <3>1 DEF Menu!Selects
  <2> HIDE DEF seen, quiet
  <2> QED BY <2>1, <2>2 DEF Packet
<1> HIDE DEF quiet
<1>4. /\ more \in Seq(Packet)
      /\ menuOpen /\ ~menuOpen' => more # <<>> /\ more[Len(more)] = "resume"
      /\ ~(menuOpen /\ ~menuOpen') => \A i \in 1..Len(more) : more[i] = "select"
  <2>1. CASE menuOpen /\ ~menuOpen'
    <3>1. more = quiet \o <<"resume">>
      BY <2>1
    <3>2. <<"resume">> \in Seq(Packet)
      BY DEF Packet
    <3> HIDE DEF more
    <3> QED BY <1>3, <2>1, <3>1, <3>2
  <2>2. CASE ~(menuOpen /\ ~menuOpen')
    <3>1. more = quiet \o <<>>
      BY <2>2
    <3>2. more = quiet
      BY <1>3, <3>1
    <3> QED BY <1>3, <2>2, <3>2
  <2> QED BY <2>1, <2>2
<1> HIDE DEF more
<1>5. \/ uplink' = uplink \o more /\ strayed' = strayed
      \/ uplink' = uplink /\ strayed' = TRUE
  BY <1>1 DEF Menu!Emit
<1>6. /\ downlink \in Seq(Snapshots) /\ Len(downlink) \in Nat
      /\ downlink[k] \in Snapshots /\ downlink' \in Seq(Snapshots)
      /\ k < Len(downlink) => downlink' # <<>> /\ downlink'[Len(downlink')] = downlink[Len(downlink)]
      /\ k = Len(downlink) => downlink' = <<>>
  <2>1. downlink \in Seq(Snapshots) /\ Len(downlink) \in Nat /\ k \in 1..Len(downlink)
    BY <1>1, <1>2 DEF MenuTypes
  <2>2. downlink[k] \in Snapshots
    BY <2>1
  <2>3. CASE k < Len(downlink)
    <3>1. k + 1 \in 1..Len(downlink) /\ Len(downlink) \in 1..Len(downlink)
      BY <2>1, <2>3
    <3>2. /\ downlink' \in Seq(Snapshots) /\ downlink' # <<>>
          /\ downlink'[Len(downlink')] = downlink[Len(downlink)]
      BY <1>1, <2>1, <2>3, LineRendered
    <3> QED BY <2>1, <2>2, <2>3, <3>2
  <2>4. CASE k = Len(downlink)
    BY <1>1, <2>1, <2>2, <2>4
  <2> QED BY <2>1, <2>3, <2>4
<1>7. page' \in RoomSeen /\ menuOpen' \in BOOLEAN
  BY <1>1, <1>2, <1>6 DEF Snapshots, MenuTypes, Menu!Offered
<1>8. MenuTypes'
  BY <1>1, <1>2, <1>4, <1>5, <1>6, <1>7, LineSent DEF MenuTypes
<1>9. HoldEnds'
  <2> SUFFICES ASSUME ~menuOpen', ~strayed'
               PROVE  /\ ResumesAfterHolds(uplink')
                      /\ pausedBy' = "ann" /\ roundOn' # "none" => Resumes(uplink')
    BY DEF HoldEnds
  <2>1. uplink' = uplink \o more /\ ~strayed /\ uplink \in Seq(Packet)
    BY <1>2, <1>5 DEF MenuTypes
  <2>2. CASE menuOpen
    BY <1>4, <2>1, <2>2, LineSent
  <2>3. CASE ~menuOpen
    <3>1. \A i \in 1..Len(more) : more[i] = "select"
      BY <1>4, <2>3
    <3>2. /\ ResumesAfterHolds(uplink) => ResumesAfterHolds(uplink \o more)
          /\ Resumes(uplink) => Resumes(uplink \o more)
      BY <1>4, <2>1, <3>1, LineSent
    <3> QED BY <1>1, <1>2, <2>1, <2>3, <3>2 DEF HoldEnds
  <2> QED BY <2>2, <2>3
<1>10. HoldIsHeard'
  BY <1>1, <1>2, <1>5 DEF HoldIsHeard, MenuTypes
<1>11. MenuIsOffered'
  BY <1>1 DEF MenuIsOffered, Menu!Offered
<1>12. PhoneIsTold'
  <2> SUFFICES ASSUME linkUp PROVE Menu!LastSent' = Menu!Seen
    BY <1>1 DEF PhoneIsTold, Menu!Seen
  <2>1. Menu!LastSent' = downlink[Len(downlink)].room
    <3>1. CASE k < Len(downlink)
      BY <1>6, <3>1 DEF Menu!LastSent
    <3>2. CASE k = Len(downlink)
      BY <1>1, <1>6, <3>2 DEF Menu!LastSent
    <3> QED BY <1>1, <1>6, <3>1, <3>2
  <2>2. Menu!LastSent = downlink[Len(downlink)].room
    BY <1>1, <1>6 DEF Menu!LastSent
  <2> QED BY <1>2, <2>1, <2>2 DEF PhoneIsTold
<1> QED BY <1>8, <1>9, <1>10, <1>11, <1>12 DEF MenuInv

\* Every step of the phone, the room and the network keeps the invariant.
LEMMA MenuStep == MenuInv /\ [Menu!Next]_Menu!vars => MenuInv'
<1> SUFFICES ASSUME MenuInv, [Menu!Next]_Menu!vars PROVE MenuInv'
  OBVIOUS
<1>0. MenuTypes /\ HoldEnds /\ HoldIsHeard /\ MenuIsOffered /\ PhoneIsTold
  BY DEF MenuInv
<1>1. CASE Menu!Open
  <2>1. /\ UNCHANGED <<driver, roundOn, pausedBy, here, linkUp, downlink, page>>
        /\ menuOpen' = TRUE /\ Menu!Offered(page)
        /\ \/ uplink' = uplink \o <<"hold">> /\ strayed' = strayed
           \/ uplink' = uplink /\ strayed' = TRUE
    BY <1>1 DEF Menu!Open, Menu!Emit, Menu!Click, Menu!room, Menu!Reachable
  <2>2. uplink \o <<"hold">> \in Seq(Packet)
    <3>1. <<"hold">> \in Seq(Packet)
      BY DEF Packet
    <3> QED BY <1>0, <3>1, LineSent DEF MenuTypes
  <2>3. MenuTypes'
    BY <1>0, <2>1, <2>2 DEF MenuTypes
  <2>4. HoldEnds'
    BY <2>1 DEF HoldEnds
  <2>5. HoldIsHeard'
    BY <1>0, <2>1 DEF HoldIsHeard
  <2>6. MenuIsOffered'
    BY <2>1 DEF MenuIsOffered, Menu!Offered
  <2>7. PhoneIsTold'
    BY <1>0, <2>1 DEF PhoneIsTold, Menu!LastSent, Menu!Seen
  <2> QED BY <2>3, <2>4, <2>5, <2>6, <2>7 DEF MenuInv
<1>2. CASE Menu!Resume
  <2> DEFINE more == <<"resume">>
  <2>1. more \in Seq(Packet) /\ more # <<>> /\ more[Len(more)] = "resume"
    BY DEF Packet
  <2>2. Menu!Emit(more) /\ Menu!Click /\ menuOpen' = FALSE
    BY <1>2 DEF Menu!Resume
  <2> HIDE DEF more
  <2> QED BY <2>1, <2>2, MenuCloses
<1>3. CASE Menu!BackToMenu
  <2>1. PICK last2 : Menu!Emit(<<IF last2.round = "running" THEN "abort" ELSE "select", "resume">>)
    BY <1>3 DEF Menu!BackToMenu
  <2> DEFINE more == <<IF last2.round = "running" THEN "abort" ELSE "select", "resume">>
  <2>2. more \in Seq(Packet) /\ more # <<>> /\ more[Len(more)] = "resume"
    BY DEF Packet
  <2>3. Menu!Emit(more) /\ Menu!Click /\ menuOpen' = FALSE
    BY <1>3, <2>1 DEF Menu!BackToMenu
  <2> HIDE DEF more
  <2> QED BY <2>2, <2>3, MenuCloses
<1>4. CASE Menu!Release
  <2> DEFINE more == <<"resume", "release", "resume">>
  <2>1. more \in Seq(Packet) /\ more # <<>> /\ more[Len(more)] = "resume"
    BY DEF Packet
  <2>2. Menu!Emit(more) /\ Menu!Click /\ menuOpen' = FALSE
    BY <1>4 DEF Menu!Release
  <2> HIDE DEF more
  <2> QED BY <2>1, <2>2, MenuCloses
<1>5. CASE Menu!Handle
  BY <1>5, HandleKeeps
<1>6. CASE Menu!StartRound
  <2>1. /\ Menu!Elsewhere(FALSE) /\ here' = here /\ driver' = driver /\ roundOn' = "running"
        /\ pausedBy' = Menu!Nobody
    BY <1>6 DEF Menu!StartRound, Menu!ClearPause
  <2>2. /\ here' \in BOOLEAN /\ driver' \in Menu!Driver /\ roundOn' \in Rounds
        /\ pausedBy' \in Menu!Driver /\ pausedBy' # "ann"
    BY <1>0, <2>1 DEF MenuTypes, Menu!Driver, Menu!Nobody, Rounds
  <2> QED BY <2>1, <2>2, ElsewhereKeeps
<1>7. CASE Menu!FinishRound
  <2>1. /\ Menu!Elsewhere(FALSE) /\ UNCHANGED <<here, driver, pausedBy>> /\ roundOn' = "finished"
        /\ roundOn # "none"
    BY <1>7 DEF Menu!FinishRound
  <2>2. /\ here' \in BOOLEAN /\ driver' \in Menu!Driver /\ roundOn' \in Rounds
        /\ pausedBy' \in Menu!Driver
    BY <1>0, <2>1 DEF MenuTypes, Rounds
  <2> QED BY <2>1, <2>2, ElsewhereKeeps
<1>8. CASE Menu!ScreenEndsRound
  <2>1. /\ Menu!Elsewhere(FALSE) /\ UNCHANGED <<here, driver>> /\ roundOn' = "none"
        /\ pausedBy' = pausedBy \/ pausedBy' = "nobody"
    BY <1>8 DEF Menu!ScreenEndsRound, Menu!AbortRound, Menu!SelectGame, Menu!ClearPause, Menu!Nobody
  <2>2. /\ here' \in BOOLEAN /\ driver' \in Menu!Driver /\ roundOn' \in Rounds
        /\ pausedBy' \in Menu!Driver
    BY <1>0, <2>1 DEF MenuTypes, Menu!Driver, Menu!Nobody, Rounds
  <2> QED BY <2>1, <2>2, ElsewhereKeeps
<1>9. CASE Menu!Reclaim
  <2>1. /\ Menu!Elsewhere(FALSE) /\ UNCHANGED <<here, roundOn>> /\ driver' = "nobody"
        /\ pausedBy' = IF pausedBy = driver THEN "nobody" ELSE pausedBy
    BY <1>9 DEF Menu!Reclaim, Menu!HandBack, Menu!ReleasePauseHeldBy, Menu!Nobody
  <2>2. /\ here' \in BOOLEAN /\ driver' \in Menu!Driver /\ roundOn' \in Rounds
        /\ pausedBy' \in Menu!Driver
    BY <1>0, <2>1 DEF MenuTypes, Menu!Driver, Menu!Nobody, Rounds
  <2>3. CASE pausedBy' # "ann"
    BY <2>1, <2>2, <2>3, ElsewhereKeeps
  <2>4. CASE pausedBy' = "ann"
    <3>1. strayed /\ pausedBy = "ann"
      BY <1>0, <2>1, <2>4 DEF HoldIsHeard, MenuTypes
    <3>2. Menu!Elsewhere(TRUE)
      BY <2>1, <3>1 DEF Menu!Elsewhere, Menu!Strays
    <3>3. pausedBy' = pausedBy
      BY <2>4, <3>1
    <3> QED BY <2>2, <3>2, <3>3, ElsewhereKeeps
  <2> QED BY <2>3, <2>4
<1>10. CASE Menu!Forget
  <2>1. /\ Menu!Elsewhere(FALSE) /\ UNCHANGED roundOn /\ here' = FALSE
        /\ driver' = (IF driver = "ann" THEN "nobody" ELSE driver)
        /\ pausedBy' = IF pausedBy = "ann" THEN "nobody" ELSE pausedBy
    BY <1>10 DEF Menu!Forget, Menu!ReleasePauseHeldBy, Menu!Nobody
  <2>2. /\ here' \in BOOLEAN /\ driver' \in Menu!Driver /\ roundOn' \in Rounds
        /\ pausedBy' \in Menu!Driver /\ pausedBy' # "ann"
    BY <1>0, <2>1 DEF MenuTypes, Menu!Driver, Menu!Nobody, Rounds
  <2> QED BY <2>1, <2>2, ElsewhereKeeps
<1>11. ASSUME NEW k \in 1..(MaxLine + 1), Menu!Render(k) PROVE MenuInv'
  <2>1. k \in Nat
    BY <1>0, <1>11 DEF Menu!Render, MenuTypes
  <2> QED BY <1>11, <2>1, RenderKeeps
<1>12. ASSUME NEW to \in {"ann", "bob"}, Menu!Handover(to) PROVE MenuInv'
  <2>1. /\ Menu!Elsewhere(pausedBy = "ann") /\ UNCHANGED <<here, roundOn, pausedBy>> /\ driver' = to
    BY <1>12 DEF Menu!Handover
  <2>2. /\ here' \in BOOLEAN /\ driver' \in Menu!Driver /\ roundOn' \in Rounds
        /\ pausedBy' \in Menu!Driver
    BY <1>0, <2>1 DEF MenuTypes, Menu!Driver, Rounds
  <2>3. (pausedBy = "ann") \in BOOLEAN
    OBVIOUS
  <2>4. pausedBy' # "ann" \/ (pausedBy' = pausedBy /\ (pausedBy = "ann"))
    BY <2>1
  <2> QED BY <2>1, <2>2, <2>3, <2>4, ElsewhereKeeps
<1>13. ASSUME NEW on \in BOOLEAN, Menu!BobPauses(on) PROVE MenuInv'
  <2>1. /\ Menu!Elsewhere(FALSE) /\ UNCHANGED <<here, roundOn, driver>>
        /\ pausedBy' = "bob" \/ pausedBy' = "nobody"
    BY <1>13 DEF Menu!BobPauses, Menu!SetPaused, Menu!Nobody
  <2>2. /\ here' \in BOOLEAN /\ driver' \in Menu!Driver /\ roundOn' \in Rounds
        /\ pausedBy' \in Menu!Driver /\ pausedBy' # "ann"
    BY <1>0, <2>1 DEF MenuTypes, Menu!Driver, Menu!Nobody
  <2> QED BY <2>1, <2>2, ElsewhereKeeps
<1>14. CASE Menu!Break
  <2>1. /\ UNCHANGED <<driver, roundOn, pausedBy, here, page, menuOpen>>
        /\ linkUp' = FALSE /\ uplink' = <<>> /\ strayed' = (strayed \/ uplink # <<>>)
        /\ \E k \in 0..Len(downlink) : downlink' = SubSeq(downlink, 1, k)
    BY <1>14 DEF Menu!Break, Menu!room, Menu!phone
  <2>2. downlink' \in Seq(Snapshots)
    BY <1>0, <2>1 DEF MenuTypes
  <2>3. MenuTypes'
    <3>1. uplink' \in Seq(Packet) /\ strayed' \in BOOLEAN
      BY <2>1
    <3> QED BY <1>0, <2>1, <2>2, <3>1 DEF MenuTypes
  <2>4. ~strayed' => ~strayed /\ uplink' = uplink
    BY <2>1
  <2>5. HoldEnds' /\ HoldIsHeard'
    BY <1>0, <2>1, <2>4 DEF HoldEnds, HoldIsHeard
  <2> QED BY <1>0, <2>1, <2>3, <2>5 DEF MenuInv, MenuIsOffered, PhoneIsTold, Menu!Offered
<1>15. CASE Menu!Reconnect
  <2> DEFINE message == [room |-> Menu!Seen, aborted |-> FALSE]
  <2>1. /\ UNCHANGED <<driver, roundOn, pausedBy, here, uplink, page, menuOpen, strayed>>
        /\ linkUp' = TRUE /\ downlink' = Append(downlink, message)
    BY <1>15 DEF Menu!Reconnect, Menu!room
  <2>2. message \in Snapshots /\ downlink \in Seq(Snapshots)
    BY <1>0 DEF MenuTypes, Menu!Seen, Snapshots, RoomSeen
  <2>3. message.room = Menu!Seen
    OBVIOUS
  <2> HIDE DEF message
  <2>4. downlink' \in Seq(Snapshots) /\ downlink' # <<>> /\ downlink'[Len(downlink')] = message
    BY <2>1, <2>2
  <2>5. Menu!LastSent' = Menu!Seen
    BY <2>3, <2>4 DEF Menu!LastSent
  <2>6. PhoneIsTold'
    BY <2>1, <2>5 DEF PhoneIsTold, Menu!Seen
  <2> QED BY <1>0, <2>1, <2>4, <2>6 DEF MenuInv, MenuTypes, HoldEnds, HoldIsHeard, MenuIsOffered,
                                        Menu!Offered
<1>16. CASE Menu!Reload
  <2>1. /\ UNCHANGED <<driver, roundOn, pausedBy, here, linkUp, uplink>>
        /\ menuOpen' = FALSE /\ downlink' = <<>> /\ page' = Menu!Seen
        /\ strayed' = (strayed \/ pausedBy = "ann" \/ uplink # <<>>)
    BY <1>16 DEF Menu!Reload, Menu!room
  <2>2. MenuTypes'
    <3>1. page' \in RoomSeen
      BY <1>0, <2>1 DEF MenuTypes, Menu!Seen, RoomSeen
    <3>2. downlink' \in Seq(Snapshots) /\ strayed' \in BOOLEAN
      BY <2>1
    <3> QED BY <1>0, <2>1, <3>1, <3>2 DEF MenuTypes
  <2>3. HoldEnds' /\ HoldIsHeard'
    <3>1. ~strayed' => uplink' = <<>> /\ pausedBy' # "ann"
      BY <2>1
    <3> QED BY <3>1 DEF HoldEnds, HoldIsHeard, ResumesAfterHolds
  <2>4. PhoneIsTold'
    BY <2>1 DEF PhoneIsTold, Menu!LastSent, Menu!Seen
  <2> QED BY <2>1, <2>2, <2>3, <2>4 DEF MenuInv, MenuIsOffered
<1>17. CASE UNCHANGED Menu!vars
  BY <1>0, <1>17 DEF Menu!vars, Menu!room, Menu!phone, MenuInv, MenuTypes, HoldEnds, HoldIsHeard,
                     MenuIsOffered, Menu!Offered, PhoneIsTold, Menu!LastSent, Menu!Seen
<1> QED BY <1>1, <1>2, <1>3, <1>4, <1>5, <1>6, <1>7, <1>8, <1>9, <1>10, <1>11, <1>12, <1>13, <1>14,
           <1>15, <1>16, <1>17 DEF Menu!Next

\* "The pause belongs to the menu being open" (HostGameMenu.tsx): for any number of openings and
\* rounds, once everything has arrived a round that ann holds has her menu open over it, unless
\* the hold was handed over, reloaded or lost with a connection.
THEOREM MenuHoldsTheRound == Menu!Spec => []Menu!HoldHasItsMenu
<1>1. MenuInv => Menu!HoldHasItsMenu
  <2> SUFFICES ASSUME MenuInv, Menu!AtRest, roundOn # "none", pausedBy = "ann", ~strayed
               PROVE  menuOpen /\ Menu!Offered(page)
    BY DEF Menu!HoldHasItsMenu
  <2>1. ~Resumes(uplink)
    BY DEF Menu!AtRest, Resumes
  <2>2. menuOpen
    BY <2>1 DEF MenuInv, MenuTypes, HoldEnds
  <2> QED BY <2>2 DEF MenuInv, MenuIsOffered
<1> QED BY MenuInit, MenuStep, <1>1, PTL DEF Menu!Spec

-----------------------------------------------------------------------------
(* The values of the variables.  Bounds are counted up to and not beyond.  *)

\* No more promises of the music are awaited than there were touches.
MusicTypes ==
  /\ hidden \in BOOLEAN /\ unlocked \in BOOLEAN /\ disposed \in BOOLEAN /\ source \in BOOLEAN
  /\ raced \in BOOLEAN /\ context \in {"none", "suspended", "running", "closed"}
  /\ desired \in Tracks /\ current \in Tracks \cup {Music!Silence} /\ playing \subseteq Tracks
  /\ gestures \in 0..MusicGestures /\ resuming \in 0..gestures

Fetched ==
  /\ buffers \in [Tracks -> {"none", "rendering", "ready", "failed"}]
  /\ syncing \in [Tracks -> Nat]

\* What a track that is wanted changes.
LEMMA SyncFetches ==
  ASSUME Fetched, NEW t \in Tracks, NEW a, NEW b, Music!BeginSync(a, b, t)
  PROVE  Fetched'
<1>1. CASE UNCHANGED <<syncing, buffers>>
  BY <1>1 DEF Fetched
<1>2. CASE /\ syncing' = [syncing EXCEPT ![t] = @ + 1]
           /\ buffers' = [buffers EXCEPT ![t] = IF @ = "none" THEN "rendering" ELSE @]
  BY <1>2 DEF Fetched
<1> QED BY <1>1, <1>2 DEF Music!BeginSync

\* No music in the beginning.
LEMMA MusicTypesStart == Music!Init => MusicTypes /\ Fetched
<1> SUFFICES ASSUME Music!Init PROVE MusicTypes /\ Fetched
  OBVIOUS
<1>1. MusicGestures \in Nat
  BY BoundsAreNumbers
<1>2. MusicTypes
  <2>1. /\ hidden \in BOOLEAN /\ unlocked \in BOOLEAN /\ disposed \in BOOLEAN /\ source \in BOOLEAN
        /\ raced \in BOOLEAN
    BY DEF Music!Init
  <2>2. gestures = 0 /\ resuming = 0
    BY DEF Music!Init
  <2>3. gestures \in 0..MusicGestures /\ resuming \in 0..gestures
    BY <1>1, <2>2
  <2>4. /\ context \in {"none", "suspended", "running", "closed"}
        /\ desired \in Tracks /\ current \in Tracks \cup {Music!Silence} /\ playing \subseteq Tracks
    BY DEF Music!Init
  <2> QED BY <2>1, <2>3, <2>4 DEF MusicTypes
<1>3. Fetched
  BY DEF Music!Init, Fetched
<1> QED BY <1>2, <1>3

\* Every step of the music keeps its values.
LEMMA MusicTypesStep ==
  ASSUME MusicTypes, Fetched, [Music!Next]_(Music!vars) PROVE MusicTypes' /\ Fetched'
<1> USE DEF Music!bounds
<1>0. MusicGestures \in Nat
  BY BoundsAreNumbers
<1>1. ASSUME NEW t \in Tracks, Music!ContinueSync(t) PROVE MusicTypes' /\ Fetched'
  <2>1. Fetched'
    BY <1>1 DEF Music!ContinueSync, Fetched
  <2>2. MusicTypes'
    <3>1. /\ UNCHANGED <<hidden, context, unlocked, disposed, desired, resuming, raced, gestures>>
          /\ \/ /\ playing' = (IF source THEN playing \ {current} ELSE playing) \cup {t}
                /\ current' = t /\ source' = TRUE
             \/ UNCHANGED <<playing, current, source>>
      BY <1>1 DEF Music!ContinueSync
    <3> QED BY <3>1 DEF MusicTypes
  <2> QED BY <2>1, <2>2
<1>2. ASSUME NEW t \in Tracks, Music!Render(t) PROVE MusicTypes' /\ Fetched'
  <2>1. PICK outcome \in {"ready", "failed"} : buffers' = [buffers EXCEPT ![t] = outcome]
    BY <1>2 DEF Music!Render
  <2>2. Fetched'
    BY <1>2, <2>1 DEF Music!Render, Fetched
  <2>3. MusicTypes'
    BY <1>2 DEF Music!Render, MusicTypes
  <2> QED BY <2>2, <2>3
<1>3. ASSUME NEW t \in Tracks, Music!ChooseTrack(t) PROVE MusicTypes' /\ Fetched'
  <2>1. Fetched'
    BY <1>3, SyncFetches DEF Music!ChooseTrack
  <2>2. MusicTypes'
    BY <1>3 DEF Music!ChooseTrack, MusicTypes
  <2> QED BY <2>1, <2>2
<1>4. CASE Music!Gesture
  <2>1. MusicTypes'
    BY <1>0, <1>4 DEF Music!Gesture, MusicTypes
  <2>2. Fetched'
    BY <1>4 DEF Music!Gesture, Fetched
  <2> QED BY <2>1, <2>2
<1>5. CASE Music!Resumed
  <2>1. Fetched'
    <3>1. desired \in Tracks
      BY DEF MusicTypes
    <3>2. CASE disposed
      BY <1>5, <3>2 DEF Music!Resumed, Fetched
    <3>3. CASE ~disposed
      BY <1>5, <3>1, <3>3, SyncFetches DEF Music!Resumed
    <3> QED BY <3>2, <3>3
  <2>2. MusicTypes'
    <3>1. /\ UNCHANGED <<hidden, disposed, desired, current, source, playing, raced, gestures>>
          /\ resuming > 0 /\ resuming' = resuming - 1
          /\ context' \in {context, "running"} /\ unlocked' \in {unlocked, TRUE}
      BY <1>5 DEF Music!Resumed
    <3>2. unlocked' \in BOOLEAN /\ context' \in {"none", "suspended", "running", "closed"}
      BY <3>1 DEF MusicTypes
    <3>3. gestures' \in 0..MusicGestures /\ resuming' \in 0..gestures'
      BY <1>0, <3>1 DEF MusicTypes
    <3> QED BY <3>1, <3>2, <3>3 DEF MusicTypes
  <2> QED BY <2>1, <2>2
<1>6. CASE Music!Hide
  <2>1. MusicTypes'
    BY <1>6 DEF Music!Hide, MusicTypes
  <2>2. Fetched'
    BY <1>6 DEF Music!Hide, Fetched
  <2> QED BY <2>1, <2>2
<1>7. CASE Music!Show
  <2>1. Fetched'
    <3>1. desired \in Tracks
      BY DEF MusicTypes
    <3>2. CASE disposed \/ ~unlocked
      BY <1>7, <3>2 DEF Music!Show, Fetched
    <3>3. CASE ~(disposed \/ ~unlocked)
      BY <1>7, <3>1, <3>3, SyncFetches DEF Music!Show
    <3> QED BY <3>2, <3>3
  <2>2. MusicTypes'
    BY <1>7 DEF Music!Show, MusicTypes
  <2> QED BY <2>1, <2>2
<1>8. CASE Music!Dispose
  <2>1. MusicTypes'
    BY <1>8 DEF Music!Dispose, Music!Silenced, MusicTypes
  <2>2. Fetched'
    BY <1>8 DEF Music!Dispose, Fetched
  <2> QED BY <2>1, <2>2
<1>9. CASE UNCHANGED Music!vars
  BY <1>9 DEF Music!vars, MusicTypes, Fetched
<1> QED BY <1>1, <1>2, <1>3, <1>4, <1>5, <1>6, <1>7, <1>8, <1>9 DEF Music!Next

\* Whatever is awaited, the music keeps to its values.
THEOREM MusicTypeOK == Music!Spec => []Music!TypeOK
<1>1. MusicTypes /\ Fetched => Music!TypeOK
  <2> SUFFICES ASSUME MusicTypes, Fetched PROVE Music!TypeOK
    OBVIOUS
  <2>1. resuming \in 0..MusicGestures
    BY BoundsAreNumbers DEF MusicTypes
  <2> QED BY <2>1 DEF MusicTypes, Fetched, Music!TypeOK
<1>2. Music!Init => MusicTypes /\ Fetched
  BY MusicTypesStart
<1>3. (MusicTypes /\ Fetched) /\ [Music!Next]_(Music!vars) => (MusicTypes /\ Fetched)'
  BY MusicTypesStep
<1> QED BY <1>1, <1>2, <1>3, PTL DEF Music!Spec

-----------------------------------------------------------------------------
(* The stick of a phone.                                                   *)

\* Touches and moves of a thumb are vectors.
Held ==
  /\ layout \in {"joystick", "dpad", "twin"}
  /\ onPage \in BOOLEAN /\ disabled \in BOOLEAN /\ repeating \in BOOLEAN /\ online \in BOOLEAN
  /\ down \subseteq Thumb!Finger /\ pointer \in Thumb!Finger \cup {Thumb!Nobody}
  /\ pressed \subseteq Thumb!Finger /\ last \in Thumb!Vector

Delivered == missed \in BOOLEAN /\ moves \in Seq(Thumb!Vector)

\* What sending a vector leaves.
LEMMA ThumbSends ==
  ASSUME Delivered, NEW v \in Thumb!Vector, Thumb!SendInput(v) \/ Thumb!Silence
  PROVE  Delivered'
<1>1. missed' \in BOOLEAN
  <2>1. missed' = missed \/ missed' = (missed \/ v = Thumb!Neutral)
    BY DEF Thumb!SendInput, Thumb!Silence
  <2> QED BY <2>1 DEF Delivered
<1>2. moves' = moves \/ moves' = Append(moves, v)
  BY DEF Thumb!SendInput, Thumb!Silence
<1> QED BY <1>1, <1>2 DEF Delivered

\* A vector is sent, or is the one the game was last told.
LEMMA ThumbEmits ==
  ASSUME Delivered, last \in Thumb!Vector, NEW v \in Thumb!Vector, Thumb!EmitMove(v)
  PROVE  Delivered' /\ last' \in Thumb!Vector
BY ThumbSends DEF Thumb!EmitMove

\* The stick at rest is a vector.
LEMMA ThumbNeutral == Thumb!Neutral \in Thumb!Vector
BY DEF Thumb!Neutral, Thumb!Vector

\* Every step of the stick keeps its values.
LEMMA ThumbTypesStep ==
  ASSUME Held, game \in Thumb!Vector, Delivered, [Thumb!Next]_(Thumb!vars)
  PROVE  Held' /\ game' \in Thumb!Vector /\ Delivered'
<1>0. last \in Thumb!Vector
  BY DEF Held
<1>1. ASSUME NEW f \in Thumb!Finger, NEW v \in Thumb!Vector, Thumb!TouchStick(f, v)
      PROVE  Held' /\ game' \in Thumb!Vector /\ Delivered'
  <2>1. CASE disabled
    BY <1>0, <1>1, <2>1, ThumbNeutral, ThumbSends DEF Thumb!TouchStick, Held
  <2>2. CASE ~disabled
    <3>1. Delivered' /\ last' \in Thumb!Vector
      BY <1>0, <1>1, <2>2, ThumbEmits DEF Thumb!TouchStick, Thumb!Grab
    <3>2. repeating' \in BOOLEAN
      BY <1>1, <2>2 DEF Thumb!TouchStick, Thumb!Grab
    <3> QED BY <1>1, <2>2, <3>1, <3>2 DEF Thumb!TouchStick, Thumb!Grab, Held
  <2> QED BY <2>1, <2>2
<1>2. ASSUME NEW f \in Thumb!Finger, NEW v \in Thumb!Vector, Thumb!MoveStick(f, v)
      PROVE  Held' /\ game' \in Thumb!Vector /\ Delivered'
  <2>1. Delivered' /\ last' \in Thumb!Vector
    BY <1>0, <1>2, ThumbEmits DEF Thumb!MoveStick
  <2> QED BY <1>2, <2>1 DEF Thumb!MoveStick, Held
<1>3. ASSUME NEW f \in Thumb!Finger, Thumb!LiftStick(f)
      PROVE  Held' /\ game' \in Thumb!Vector /\ Delivered'
  <2>1. /\ UNCHANGED <<layout, onPage, disabled, pressed, online, game>> /\ down' = down \ {f}
        /\ Thumb!LetGo \/ (Thumb!Silence /\ UNCHANGED <<pointer, repeating, last>>)
    BY <1>3 DEF Thumb!LiftStick
  <2>2. CASE Thumb!LetGo
    <3>1. /\ pointer' = Thumb!Nobody /\ repeating' = FALSE /\ last' \in {last, Thumb!Neutral}
          /\ Thumb!SendInput(Thumb!Neutral) \/ Thumb!Silence
      BY <2>2 DEF Thumb!LetGo
    <3> QED BY <1>0, <2>1, <3>1, ThumbNeutral, ThumbSends DEF Held
  <2>3. CASE Thumb!Silence /\ UNCHANGED <<pointer, repeating, last>>
    BY <1>0, <2>1, <2>3, ThumbSends DEF Held
  <2> QED BY <2>1, <2>2, <2>3
<1>4. ASSUME NEW f \in Thumb!Finger, NEW on \in BOOLEAN, Thumb!SetDirection(f, on)
      PROVE  pressed' \subseteq Thumb!Finger /\ last' \in Thumb!Vector /\ Delivered'
  <2>1. CASE disabled \/ ~onPage
    BY <1>0, <1>4, <2>1, ThumbSends DEF Thumb!SetDirection, Held
  <2>2. CASE ~(disabled \/ ~onPage)
    <3>1. pressed' = (IF on THEN pressed \cup {f} ELSE pressed \ {f}) /\ Thumb!EmitMove(pressed')
      BY <1>4, <2>2 DEF Thumb!SetDirection
    <3>2. pressed' \subseteq Thumb!Finger /\ pressed' \in Thumb!Vector
      BY <3>1 DEF Held, Thumb!Vector
    <3>3. PICK v \in Thumb!Vector : v = pressed'
      BY <3>2
    <3>4. Thumb!EmitMove(v)
      BY <3>1, <3>3
    <3> QED BY <1>0, <3>2, <3>4, ThumbEmits
  <2> QED BY <2>1, <2>2
<1>5. ASSUME NEW f \in Thumb!Finger, Thumb!PressKey(f) \/ Thumb!ReleaseKey(f)
      PROVE  Held' /\ game' \in Thumb!Vector /\ Delivered'
  <2>1. /\ UNCHANGED <<layout, onPage, disabled, pointer, repeating, online, game>>
        /\ down' \in {down \cup {f}, down \ {f}}
        /\ Thumb!SetDirection(f, TRUE) \/ Thumb!SetDirection(f, FALSE)
    BY <1>5 DEF Thumb!PressKey, Thumb!ReleaseKey
  <2>2. pressed' \subseteq Thumb!Finger /\ last' \in Thumb!Vector /\ Delivered'
    BY <1>4, <2>1
  <2> QED BY <2>1, <2>2 DEF Held
<1>6. CASE Thumb!HoldRepeat
  BY <1>0, <1>6, ThumbSends DEF Thumb!HoldRepeat, Thumb!hand, Held
<1>7. CASE Thumb!Reset /\ UNCHANGED <<layout, down, online, game>> /\ onPage' \in BOOLEAN
           /\ disabled' \in BOOLEAN
  <2>1. /\ pointer' = Thumb!Nobody /\ repeating' = FALSE /\ pressed' = {} /\ last' = Thumb!Neutral
        /\ Thumb!SendInput(Thumb!Neutral) \/ Thumb!Silence
    BY <1>7 DEF Thumb!Reset
  <2> QED BY <1>7, <2>1, ThumbNeutral, ThumbSends DEF Held
<1>8. CASE Thumb!Switch
  BY <1>7, <1>8 DEF Thumb!Switch, Held
<1>9. CASE Thumb!Unmount
  <2>1. CASE layout = "twin"
    <3>1. /\ pointer' = Thumb!Nobody /\ onPage' = FALSE /\ Thumb!Silence
          /\ UNCHANGED <<layout, disabled, down, pressed, last, repeating, online, game>>
      BY <1>9, <2>1 DEF Thumb!Unmount, Thumb!GoneUnheard
    <3> QED BY <1>0, <3>1, ThumbSends DEF Held
  <2>2. CASE layout # "twin"
    BY <1>7, <1>9, <2>2 DEF Thumb!Unmount, Held
  <2> QED BY <2>1, <2>2
<1>10. CASE Thumb!Disconnect
  <2>1. missed' \in BOOLEAN
    <3>1. missed' = (missed \/ \E i \in 1..Len(moves) : moves[i] = Thumb!Neutral)
      BY <1>10 DEF Thumb!Disconnect
    <3> QED BY <3>1 DEF Delivered
  <2>2. moves' \in Seq(Thumb!Vector) /\ online' = FALSE /\ UNCHANGED <<Thumb!hand, game>>
    BY <1>10 DEF Thumb!Disconnect
  <2> QED BY <2>1, <2>2 DEF Delivered, Held, Thumb!hand
<1>11. CASE Thumb!Reconnect
  BY <1>11 DEF Thumb!Reconnect, Thumb!hand, Held, Delivered
<1>12. CASE Thumb!Arrive
  <2>1. moves \in Seq(Thumb!Vector) /\ moves # <<>>
    BY <1>12 DEF Thumb!Arrive, Delivered
  <2>2. Head(moves) \in Thumb!Vector /\ Tail(moves) \in Seq(Thumb!Vector)
    BY <2>1
  <2>3. missed' \in BOOLEAN
    <3>1. missed' = (missed /\ Head(moves) # Thumb!Neutral)
      BY <1>12 DEF Thumb!Arrive
    <3> QED BY <3>1
  <2> QED BY <1>12, <2>2, <2>3 DEF Thumb!Arrive, Thumb!hand, Held, Delivered
<1>13. CASE UNCHANGED Thumb!vars
  BY <1>13 DEF Thumb!vars, Thumb!hand, Held, Delivered
<1> QED BY <1>1, <1>2, <1>3, <1>5, <1>6, <1>8, <1>9, <1>10, <1>11, <1>12, <1>13
        DEF Thumb!Next, Thumb!Thumb

\* Whatever is dropped or lost, the stick, the packets and the game have vectors.
THEOREM ThumbTypeOK == Thumb!Spec => []Thumb!TypeOK
<1> DEFINE Types == Held /\ game \in Thumb!Vector /\ Delivered
<1>1. Types => Thumb!TypeOK
  BY DEF Held, Delivered, Thumb!TypeOK
<1>2. Thumb!Init => Types
  <2> SUFFICES ASSUME Thumb!Init PROVE Types
    OBVIOUS
  <2>1. /\ onPage \in BOOLEAN /\ disabled \in BOOLEAN /\ repeating \in BOOLEAN /\ online \in BOOLEAN
        /\ missed \in BOOLEAN
    BY DEF Thumb!Init
  <2>2. moves \in Seq(Thumb!Vector)
    BY DEF Thumb!Init
  <2>3. /\ layout \in {"joystick", "dpad", "twin"} /\ down \subseteq Thumb!Finger
        /\ pointer \in Thumb!Finger \cup {Thumb!Nobody} /\ pressed \subseteq Thumb!Finger
        /\ last \in Thumb!Vector /\ game \in Thumb!Vector
    BY ThumbNeutral DEF Thumb!Init
  <2> QED BY <2>1, <2>2, <2>3 DEF Held, Delivered
<1>3. Types /\ [Thumb!Next]_(Thumb!vars) => Types'
  BY ThumbTypesStep
<1> QED BY <1>1, <1>2, <1>3, PTL DEF Thumb!Spec

-----------------------------------------------------------------------------
(* The photo of a task, the pad, the menu and the phone's wake lock.       *)

PhotoTypes ==
  /\ task \in 1..MaxTasks /\ rendered \in BOOLEAN /\ mounted \in BOOLEAN /\ connected \in BOOLEAN
  /\ hasSubmitted \in BOOLEAN /\ uploading \in BOOLEAN /\ sending \in BOOLEAN
  /\ sendError \in BOOLEAN /\ travelling \in BOOLEAN /\ pickedFor \in Seq(1..MaxTasks)

\* No photo in the beginning.
LEMMA PhotoTypesStart == Photo!Init => PhotoTypes
<1> SUFFICES ASSUME Photo!Init PROVE PhotoTypes
  OBVIOUS
<1>1. task = 1 /\ MaxTasks \in Nat \ {0}
  BY BoundsAreNumbers DEF Photo!Init
<1>2. task \in 1..MaxTasks
  BY <1>1
<1>3. /\ rendered \in BOOLEAN /\ mounted \in BOOLEAN /\ connected \in BOOLEAN
      /\ hasSubmitted \in BOOLEAN /\ uploading \in BOOLEAN /\ sending \in BOOLEAN
      /\ sendError \in BOOLEAN /\ travelling \in BOOLEAN
  BY DEF Photo!Init
<1>4. pickedFor \in Seq(1..MaxTasks)
  BY DEF Photo!Init
<1> QED BY <1>2, <1>3, <1>4 DEF PhotoTypes

\* Every step of the photo keeps its values.
LEMMA PhotoTypesStep == PhotoTypes /\ [Photo!Next]_(Photo!vars) => PhotoTypes'
<1> SUFFICES ASSUME PhotoTypes, [Photo!Next]_(Photo!vars) PROVE PhotoTypes'
  OBVIOUS
<1> USE DEF PhotoTypes, Photo!page
<1>0. MaxTasks \in Nat \ {0}
  BY BoundsAreNumbers
<1>1. CASE Photo!Pick
  BY <1>1 DEF Photo!Pick
<1>2. ASSUME NEW c \in compressing, Photo!Compressed(c) PROVE PhotoTypes'
  BY <1>2 DEF Photo!Compressed
<1>3. CASE Photo!NextTask
  <2>1. task' = task + 1 /\ task < MaxTasks /\ task \in 1..MaxTasks
    BY <1>3 DEF Photo!NextTask
  <2>2. task' \in 1..MaxTasks
    BY <1>0, <2>1
  <2>3. hasSubmitted' = FALSE /\ rendered' = FALSE
    BY <1>3 DEF Photo!NextTask
  <2>4. hasSubmitted' \in BOOLEAN /\ rendered' \in BOOLEAN
    BY <2>3
  <2> QED BY <1>3, <2>2, <2>4 DEF Photo!NextTask
<1>4. CASE Photo!ResetEffect
  BY <1>4 DEF Photo!ResetEffect
<1>5. CASE Photo!Unmount
  BY <1>5 DEF Photo!Unmount
<1>6. CASE Photo!SendMedia
  BY <1>6 DEF Photo!SendMedia
<1>7. CASE Photo!Accept
  BY <1>7 DEF Photo!Accept
<1>8. CASE Photo!LoseConnection
  BY <1>8 DEF Photo!LoseConnection
<1>9. CASE Photo!Reconnect
  BY <1>9 DEF Photo!Reconnect
<1>10. CASE Photo!StopSending
  <2>1. sendError' = ~hasSubmitted /\ sending' = FALSE
    BY <1>10 DEF Photo!StopSending, Photo!GiveUp
  <2>2. sendError' \in BOOLEAN
    BY <2>1
  <2> QED BY <1>10, <2>1, <2>2 DEF Photo!StopSending
<1>11. CASE UNCHANGED Photo!vars
  BY <1>11 DEF Photo!vars
<1> QED BY <1>1, <1>2, <1>3, <1>4, <1>5, <1>6, <1>7, <1>8, <1>9, <1>10, <1>11 DEF Photo!Next

\* Whatever is awaited, a photo is one that was picked.
THEOREM PhotoTypeOK == Photo!Spec => []Photo!TypeOK
<1>1. PhotoTypes /\ PhotoInv => Photo!TypeOK
  <2> SUFFICES ASSUME PhotoTypes, PhotoInv PROVE Photo!TypeOK
    OBVIOUS
  <2>1. compressing \subseteq [pick : 1..picks, id : Nat]
    BY DEF PhotoInv, Recorded
  <2> QED BY <2>1 DEF PhotoTypes, PhotoInv, Recorded, Photo!TypeOK
<1> QED BY PhotoTypesStart, PhotoTypesStep, PhotoInit, PhotoStep, <1>1, PTL DEF Photo!Spec

SteeringCounts == strokesMade \in 0..SteeringGestures /\ switchesMade \in 0..SteeringSwitches

\* Touches and switches of the pad stay within their bounds.
LEMMA SteeringCountsStep == SteeringCounts /\ [Steering!Next]_(Steering!vars) => SteeringCounts'
<1> SUFFICES ASSUME SteeringCounts, [Steering!Next]_(Steering!vars) PROVE SteeringCounts'
  OBVIOUS
<1>1. /\ \/ strokesMade' = strokesMade
         \/ strokesMade < SteeringGestures /\ strokesMade' = strokesMade + 1
      /\ \/ switchesMade' = switchesMade
         \/ switchesMade < SteeringSwitches /\ switchesMade' = switchesMade + 1
  <2>1. CASE UNCHANGED Steering!vars
    BY <2>1 DEF Steering!vars
  <2>2. CASE Steering!Next
    BY <2>2 DEF Steering!Next, Steering!TouchStick, Steering!MoveStick, Steering!PressButton,
                Steering!Stroke, Steering!Lift, Steering!Commit, Steering!WriteEffect,
                Steering!ResetEffect, Steering!Unfit, Steering!Switch
  <2> QED BY <2>1, <2>2
<1>2. SteeringGestures \in Nat /\ SteeringSwitches \in Nat
  BY BoundsAreNumbers
<1> QED BY <1>1, <1>2 DEF SteeringCounts

\* The pad has the two controls, whatever React has still to run.
THEOREM SteeringTypeOK == Steering!Spec => []Steering!TypeOK
<1>1. SteeringInv /\ SteeringCounts => Steering!TypeOK
  BY DEF SteeringInv, SteeringTypes, SteeringCounts, Steering!TypeOK
<1>2. Steering!Init => SteeringCounts
  BY BoundsAreNumbers DEF Steering!Init, SteeringCounts
<1> QED BY SteeringInit, SteeringStep, SteeringCountsStep, <1>1, <1>2, PTL DEF Steering!Spec

MenuCounts ==
  /\ opens \in 0..MaxOpens /\ starts \in 0..MaxStarts
  /\ handovers \in 0..MaxHandovers /\ breaks \in 0..MaxBreaks

\* What happens around the menu stays within its bounds.
LEMMA MenuCountsStep == MenuCounts /\ [Menu!Next]_(Menu!vars) => MenuCounts'
<1> SUFFICES ASSUME MenuCounts, [Menu!Next]_(Menu!vars) PROVE MenuCounts'
  OBVIOUS
<1>1. /\ opens' = opens \/ (opens < MaxOpens /\ opens' = opens + 1)
      /\ starts' = starts \/ (starts < MaxStarts /\ starts' = starts + 1)
      /\ handovers' = handovers \/ (handovers < MaxHandovers /\ handovers' = handovers + 1)
      /\ breaks' = breaks \/ (breaks < MaxBreaks /\ breaks' = breaks + 1)
  <2>1. CASE UNCHANGED Menu!vars
    BY <2>1 DEF Menu!vars
  <2>2. CASE Menu!Open \/ Menu!Resume \/ Menu!BackToMenu \/ Menu!Release
    BY <2>2 DEF Menu!Open, Menu!Resume, Menu!BackToMenu, Menu!Release, Menu!Click
  <2>3. CASE Menu!Handle \/ Menu!StartRound \/ Menu!FinishRound \/ Menu!ScreenEndsRound
             \/ Menu!Reclaim \/ Menu!Forget
    BY <2>3 DEF Menu!Handle, Menu!StartRound, Menu!FinishRound, Menu!ScreenEndsRound,
                Menu!Reclaim, Menu!Forget, Menu!Elsewhere
  <2>4. CASE \E k \in 1..(MaxLine + 1) : Menu!Render(k)
    BY <2>4 DEF Menu!Render
  <2>5. CASE \/ \E to \in {"ann", "bob"} : Menu!Handover(to)
             \/ \E on \in BOOLEAN : Menu!BobPauses(on)
    BY <2>5 DEF Menu!Handover, Menu!BobPauses, Menu!Elsewhere
  <2>6. CASE Menu!Break \/ Menu!Reconnect \/ Menu!Reload
    BY <2>6 DEF Menu!Break, Menu!Reconnect, Menu!Reload
  <2> QED BY <2>1, <2>2, <2>3, <2>4, <2>5, <2>6 DEF Menu!Next
<1>2. MaxOpens \in Nat /\ MaxStarts \in Nat /\ MaxHandovers \in Nat /\ MaxBreaks \in Nat
  BY BoundsAreNumbers
<1> QED BY <1>1, <1>2 DEF MenuCounts

\* What travels between a menu and its room is one of five packets, whatever is lost.
THEOREM MenuTypeOK == Menu!Spec => []Menu!TypeOK
<1>1. MenuInv /\ MenuCounts => Menu!TypeOK
  BY DEF MenuInv, MenuTypes, Packet, Rounds, MenuCounts, Menu!TypeOK
<1>2. Menu!Init => MenuCounts
  BY BoundsAreNumbers DEF Menu!Init, MenuCounts
<1> QED BY MenuInit, MenuStep, MenuCountsStep, <1>1, <1>2, PTL DEF Menu!Spec

PhoneCounts ==
  /\ hasApi \in BOOLEAN
  /\ phoneRefusals \in 0..SleepRefusals /\ phoneReleases \in 0..SleepReleases
  /\ phoneSwitches \in 0..SleepSwitches /\ phoneTouches \in 0..SleepTouches

\* What happens to the lock of a phone stays within its bounds.
LEMMA PhoneCountsStep == PhoneCounts /\ [PhoneLock!Next]_(PhoneLock!vars) => PhoneCounts'
<1> SUFFICES ASSUME PhoneCounts, [PhoneLock!Next]_(PhoneLock!vars) PROVE PhoneCounts'
  OBVIOUS
<1>1. /\ hasApi' = hasApi
      /\ \/ phoneRefusals' = phoneRefusals
         \/ phoneRefusals < SleepRefusals /\ phoneRefusals' = phoneRefusals + 1
      /\ \/ phoneReleases' = phoneReleases
         \/ phoneReleases < SleepReleases /\ phoneReleases' = phoneReleases + 1
      /\ \/ phoneSwitches' = phoneSwitches
         \/ phoneSwitches < SleepSwitches /\ phoneSwitches' = phoneSwitches + 1
      /\ \/ phoneTouches' = phoneTouches
         \/ phoneTouches < SleepTouches /\ phoneTouches' = phoneTouches + 1
  <2> USE DEF PhoneLock!fixed, PhoneLock!system
  <2>1. CASE UNCHANGED PhoneLock!vars
    BY <2>1 DEF PhoneLock!vars
  <2>2. CASE PhoneLock!Grant
    BY <2>2 DEF PhoneLock!Grant
  <2>3. CASE PhoneLock!Refuse
    BY <2>3 DEF PhoneLock!Refuse
  <2>4. CASE \E s \in honoured : PhoneLock!SystemReleases(s)
    BY <2>4 DEF PhoneLock!SystemReleases
  <2>5. CASE \E s \in untold : PhoneLock!HandleRelease(s)
    BY <2>5 DEF PhoneLock!HandleRelease
  <2>6. CASE PhoneLock!HandleInteraction
    BY <2>6 DEF PhoneLock!HandleInteraction
  <2>7. CASE PhoneLock!Hide
    BY <2>7 DEF PhoneLock!Hide
  <2>8. CASE PhoneLock!Show \/ PhoneLock!Cleanup
    BY <2>8 DEF PhoneLock!Show, PhoneLock!Cleanup
  <2> QED BY <2>1, <2>2, <2>3, <2>4, <2>5, <2>6, <2>7, <2>8 DEF PhoneLock!Next
<1>2. SleepRefusals \in Nat /\ SleepReleases \in Nat /\ SleepSwitches \in Nat /\ SleepTouches \in Nat
  BY BoundsAreNumbers
<1> QED BY <1>1, <1>2 DEF PhoneCounts

\* A phone knows the locks it was granted.
THEOREM PhoneLockTypeOK == PhoneLock!Spec => []PhoneLock!TypeOK
<1>1. PhoneLockInv /\ PhoneCounts => PhoneLock!TypeOK
  BY DEF PhoneLockInv, PhoneFlags, PhoneNumbers, PhoneCounts, PhoneLock!TypeOK
<1>2. PhoneLock!Init => PhoneCounts
  BY BoundsAreNumbers DEF PhoneLock!Init, PhoneCounts
<1> QED BY PhoneInit, PhoneStep, PhoneCountsStep, <1>1, <1>2, PTL DEF PhoneLock!Spec
=============================================================================
