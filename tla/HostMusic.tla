------------------------------- MODULE HostMusic -------------------------------
(***************************************************************************)
(* The music of the screen (HostBackgroundMusicController,                 *)
(* backgroundMusic.ts): the browser lets nothing sound before somebody     *)
(* touches the page, a track is rendered before it can be played, and both *)
(* are awaited while the room goes on choosing games and the page is       *)
(* hidden, shown again or left.                                            *)
(***************************************************************************)
EXTENDS Integers, FiniteSets

CONSTANTS
  Tracks,                                \* what resolveDesiredTrackId can answer
  MaxChoices, MaxHides, MaxGestures      \* bounds of the model

Silence == "silence"

VARIABLES
  hidden,      \* document.hidden
  context,     \* the audio context: "none", "suspended", "running", "closed"
  unlocked,
  disposed,
  desired,     \* desiredTrackId
  current,     \* currentTrackId
  source,      \* currentSource # null
  playing,     \* tracks with a source that was started and not stopped
  buffers,     \* bufferCache: "none", "rendering", "ready", "failed"
  syncing,     \* continuations of syncTrack that await the buffer of a track
  resuming,    \* continuations of unlockAudio that await resume()
  raced,       \* history: the page was hidden while the first resume() was awaited
  choices, hides, gestures

vars == <<hidden, context, unlocked, disposed, desired, current, source, playing, buffers, syncing,
          resuming, raced, choices, hides, gestures>>
bounds == <<choices, hides, gestures>>

Init ==
  /\ hidden = FALSE /\ context = "none" /\ unlocked = FALSE /\ disposed = FALSE
  /\ desired \in Tracks /\ current = Silence /\ source = FALSE /\ playing = {}
  /\ buffers = [t \in Tracks |-> "none"] /\ syncing = [t \in Tracks |-> 0] /\ resuming = 0
  /\ raced = FALSE /\ choices = 0 /\ hides = 0 /\ gestures = 0

-----------------------------------------------------------------------------
(* syncTrack, cut at its await.                                            *)

IsPlayed(t) == current = t /\ source

\* Up to the await: getTrackBuffer starts rendering a track once.
BeginSync(isUnlocked, isHidden, track) ==
  IF ~isUnlocked \/ disposed \/ isHidden \/ IsPlayed(track)
    THEN UNCHANGED <<syncing, buffers>>
    ELSE /\ syncing' = [syncing EXCEPT ![track] = @ + 1]
         /\ buffers' = [buffers EXCEPT ![track] = IF @ = "none" THEN "rendering" ELSE @]

\* Mutant: the answer is played whatever was chosen meanwhile.
StillWantedAnyway(t) == ~disposed /\ unlocked /\ ~hidden /\ ~IsPlayed(t)

\* What is looked at again after the await.
StillWanted(t) == ~disposed /\ unlocked /\ ~hidden /\ t = desired /\ ~IsPlayed(t)

\* The rest of syncTrack: a new source fades in, the previous one is stopped.
ContinueSync(t) ==
  /\ syncing[t] > 0 /\ buffers[t] \in {"ready", "failed"}
  /\ syncing' = [syncing EXCEPT ![t] = @ - 1]
  /\ IF buffers[t] = "ready" /\ StillWanted(t)
       THEN /\ playing' = (IF source THEN playing \ {current} ELSE playing) \cup {t}
            /\ current' = t /\ source' = TRUE
       ELSE UNCHANGED <<playing, current, source>>
  /\ UNCHANGED <<hidden, context, unlocked, disposed, desired, buffers, resuming, raced, bounds>>

\* renderTrackLoop; a failed rendering stays in the cache.
Render(t) ==
  /\ buffers[t] = "rendering"
  /\ \E outcome \in {"ready", "failed"} : buffers' = [buffers EXCEPT ![t] = outcome]
  /\ UNCHANGED <<hidden, context, unlocked, disposed, desired, current, source, playing, syncing,
                 resuming, raced, bounds>>

-----------------------------------------------------------------------------
(* The page and the room.                                                  *)

\* The subscription to the client's state.
ChooseTrack(t) ==
  /\ ~disposed /\ choices < MaxChoices
  /\ choices' = choices + 1
  /\ desired' = t
  /\ BeginSync(unlocked, hidden, t)
  /\ UNCHANGED <<hidden, context, unlocked, disposed, current, source, playing, resuming, raced, hides,
                 gestures>>

\* unlockAudio up to its await.
Gesture ==
  /\ ~disposed /\ ~unlocked /\ gestures < MaxGestures
  /\ gestures' = gestures + 1
  /\ context' = IF context = "none" THEN "suspended" ELSE context
  /\ resuming' = resuming + 1
  /\ UNCHANGED <<hidden, unlocked, disposed, desired, current, source, playing, buffers, syncing, raced,
                 choices, hides>>

\* resume() resolves and unlockAudio goes on.  Nothing comes of it on a closed context.
Resumed ==
  /\ resuming > 0
  /\ resuming' = resuming - 1
  /\ IF disposed THEN UNCHANGED <<context, unlocked, buffers, syncing>>
     ELSE /\ context' = IF hidden \/ raced THEN context ELSE "running"
          /\ unlocked' = TRUE
          /\ BeginSync(TRUE, hidden, desired)
  /\ UNCHANGED <<hidden, disposed, desired, current, source, playing, raced, bounds>>

\* visibilityHandler, the page is hidden.
Hide ==
  /\ ~hidden /\ hides < MaxHides
  /\ hides' = hides + 1
  /\ hidden' = TRUE
  /\ context' = IF ~disposed /\ context = "running" THEN "suspended" ELSE context
  /\ raced' = (raced \/ (resuming > 0 /\ ~unlocked))
  /\ UNCHANGED <<unlocked, disposed, desired, current, source, playing, buffers, syncing, resuming,
                 choices, gestures>>

\* visibilityHandler, the page is back.
Show ==
  /\ hidden
  /\ hidden' = FALSE
  /\ IF disposed \/ ~unlocked THEN UNCHANGED <<context, buffers, syncing, raced>>
     ELSE /\ context' = "running" /\ raced' = FALSE
          /\ BeginSync(TRUE, FALSE, desired)
  /\ UNCHANGED <<unlocked, disposed, desired, current, source, playing, resuming, bounds>>

\* Mutant: the source is forgotten but not stopped.
DisposeForgetting ==
  /\ disposed' = TRUE /\ source' = FALSE /\ playing' = playing
  /\ context' = context

\* dispose, its effect on what sounds.
Silenced ==
  /\ disposed' = TRUE /\ source' = FALSE
  /\ playing' = IF source THEN playing \ {current} ELSE playing
  /\ context' = IF context = "none" THEN "none" ELSE "closed"

Dispose ==
  /\ ~disposed
  /\ Silenced
  /\ UNCHANGED <<hidden, unlocked, desired, current, buffers, syncing, resuming, raced, bounds>>

Next ==
  \/ \E t \in Tracks : ContinueSync(t) \/ Render(t) \/ ChooseTrack(t)
  \/ Gesture \/ Resumed \/ Hide \/ Show \/ Dispose

Spec == Init /\ [][Next]_vars

-----------------------------------------------------------------------------
TypeOK ==
  /\ {hidden, unlocked, disposed, source, raced} \subseteq BOOLEAN
  /\ context \in {"none", "suspended", "running", "closed"}
  /\ desired \in Tracks /\ current \in Tracks \cup {Silence} /\ playing \subseteq Tracks
  /\ buffers \in [Tracks -> {"none", "rendering", "ready", "failed"}]
  /\ syncing \in [Tracks -> Nat] /\ resuming \in 0..MaxGestures

\* One track at a time is heard, and none once the page has let go of the music,
\* whichever of its promises are still open then (backgroundMusic.ts 679-698, 779-834).
NothingPlaysOn ==
  /\ playing = (IF source THEN {current} ELSE {})
  /\ disposed => playing = {} /\ context \in {"none", "closed"}

\* Whatever was chosen while tracks were rendered, an unlocked page in view comes to play
\* the track of the game that is selected (backgroundMusic.ts 670-674, 779-834), unless
\* that track cannot be rendered.
Audible(t) ==
  unlocked /\ ~disposed /\ ~hidden /\ ~raced /\ desired = t /\ buffers[t] # "failed"

MusicFollowsGame ==
  \A t \in Tracks : Audible(t) ~> (~Audible(t) \/ (playing = {t} /\ context = "running"))
=============================================================================
