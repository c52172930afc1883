------------------------------ MODULE PhotoTask ------------------------------
(***************************************************************************)
(* The photo a phone adds to a task (SocialPartyLayout.tsx): a picked file *)
(* is compressed and awaited while the room may go on to the next task,    *)
(* the page may be left, and a photo that is sent is waited for no longer  *)
(* than a timeout.                                                         *)
(*                                                                         *)
(* A photo is the number of its pick; NoPhoto stands for model.basePhoto   *)
(* too.  Effects run some time after the render that calls for them.       *)
(***************************************************************************)
EXTENDS Integers, Sequences

CONSTANTS MaxTasks, MaxPicks, MaxOutages   \* bounds of the model

NoPhoto == 0

VARIABLES
  task,          \* model.resetKey
  rendered,      \* the effects of this task's render have run
  mounted,
  connected,     \* model.connected
  hasSubmitted,  \* model.hasSubmitted
  photo, uploading, sending, sendError,
  uploadId,      \* uploadIdRef
  compressing,   \* picks that are awaited, with the upload id each remembers
  pickedFor,     \* history: the task each pick was made for
  travelling,    \* a photo is on its way to the server
  picks, outages

page == <<photo, uploading, sending, sendError, uploadId, compressing>>
vars == <<task, rendered, mounted, connected, hasSubmitted, page, pickedFor, travelling, picks, outages>>

Init ==
  /\ task = 1 /\ rendered = TRUE /\ mounted = TRUE /\ connected = TRUE /\ hasSubmitted = FALSE
  /\ photo = NoPhoto /\ uploading = FALSE /\ sending = FALSE /\ sendError = FALSE
  /\ uploadId = 0 /\ compressing = {} /\ pickedFor = <<>> /\ travelling = FALSE
  /\ picks = 0 /\ outages = 0

-----------------------------------------------------------------------------
(* Picking a photo.                                                        *)

\* disabled; photoDisabled.
Disabled == hasSubmitted \/ sending
PhotoDisabled == Disabled \/ uploading

\* onImage up to its await.
Pick ==
  /\ mounted /\ ~PhotoDisabled /\ picks < MaxPicks
  /\ picks' = picks + 1
  /\ uploadId' = uploadId + 1
  /\ uploading' = TRUE
  /\ compressing' = compressing \cup {[pick |-> picks', id |-> uploadId']}
  /\ pickedFor' = Append(pickedFor, task)
  /\ UNCHANGED <<task, rendered, mounted, connected, hasSubmitted, photo, sending, sendError,
                 travelling, outages>>

\* Mutant: nobody looks whether the upload is still the page's.
StillWantedAnyway(c) == mounted

StillWanted(c) == c.id = uploadId

\* The rest of onImage, for a file that could be read or could not.
Compressed(c) ==
  /\ c \in compressing
  /\ compressing' = compressing \ {c}
  /\ IF StillWanted(c)
       THEN /\ uploading' = FALSE
            /\ \/ photo' = c.pick /\ sendError' = FALSE
               \/ UNCHANGED <<photo, sendError>>
       ELSE UNCHANGED <<photo, uploading, sendError>>
  /\ UNCHANGED <<task, rendered, mounted, connected, hasSubmitted, sending, uploadId, pickedFor,
                 travelling, picks, outages>>

-----------------------------------------------------------------------------
(* Sending it.                                                             *)

\* sendMedia.
SendMedia ==
  /\ mounted /\ photo # NoPhoto /\ ~PhotoDisabled /\ connected
  /\ sending' = TRUE /\ sendError' = FALSE
  /\ travelling' = TRUE
  /\ UNCHANGED <<task, rendered, mounted, connected, hasSubmitted, photo, uploading, uploadId,
                 compressing, pickedFor, picks, outages>>

\* The game takes the photo and says so in its next state, or refuses it.
Accept ==
  /\ travelling
  /\ travelling' = FALSE
  /\ hasSubmitted' \in {hasSubmitted, TRUE}
  /\ UNCHANGED <<task, rendered, mounted, connected, page, pickedFor, picks, outages>>

LoseConnection ==
  /\ connected /\ outages < MaxOutages
  /\ outages' = outages + 1
  /\ connected' = FALSE /\ travelling' = FALSE
  /\ UNCHANGED <<task, rendered, mounted, hasSubmitted, page, pickedFor, picks>>

Reconnect ==
  /\ ~connected
  /\ connected' = TRUE
  /\ UNCHANGED <<task, rendered, mounted, hasSubmitted, page, pickedFor, travelling, picks, outages>>

\* Mutant: the timeout is reported and goes on waiting.
GiveUpLater == sending' = sending /\ sendError' = TRUE

\* The effect on sending: the timeout of 8 s, or a submission the model shows.
GiveUp == sending' = FALSE /\ sendError' = ~hasSubmitted

StopSending ==
  /\ mounted /\ sending
  /\ GiveUp
  /\ UNCHANGED <<task, rendered, mounted, connected, hasSubmitted, photo, uploading, uploadId,
                 compressing, pickedFor, travelling, picks, outages>>

-----------------------------------------------------------------------------
(* The task and the page.                                                  *)

\* The room shows the next task while the page still holds what belongs to the last one.
NextTask ==
  /\ mounted /\ task < MaxTasks
  /\ task' = task + 1 /\ rendered' = FALSE /\ hasSubmitted' = FALSE
  /\ UNCHANGED <<mounted, connected, page, pickedFor, travelling, picks, outages>>

\* The effect on model.resetKey.
ResetEffect ==
  /\ mounted /\ ~rendered
  /\ rendered' = TRUE
  /\ photo' = NoPhoto /\ uploading' = FALSE /\ sending' = FALSE /\ sendError' = FALSE
  /\ uploadId' = uploadId + 1
  /\ UNCHANGED <<task, mounted, connected, hasSubmitted, compressing, pickedFor, travelling, picks,
                 outages>>

Unmount ==
  /\ mounted
  /\ mounted' = FALSE
  /\ uploadId' = uploadId + 1
  /\ UNCHANGED <<task, rendered, connected, hasSubmitted, photo, uploading, sending, sendError,
                 compressing, pickedFor, travelling, picks, outages>>

Next ==
  \/ Pick \/ SendMedia \/ Accept \/ LoseConnection \/ Reconnect \/ StopSending
  \/ NextTask \/ ResetEffect \/ Unmount
  \/ \E c \in compressing : Compressed(c)

Spec == Init /\ [][Next]_vars

-----------------------------------------------------------------------------
TypeOK ==
  /\ task \in 1..MaxTasks /\ {rendered, mounted, connected, hasSubmitted} \subseteq BOOLEAN
  /\ {uploading, sending, sendError, travelling} \subseteq BOOLEAN
  /\ photo \in 0..picks /\ uploadId \in Nat /\ compressing \subseteq [pick : 1..picks, id : Nat]
  /\ pickedFor \in Seq(1..MaxTasks)

\* A photo that took long to compress never replaces what the page shows for a later task, and
\* a page that is left is written to no more (SocialPartyLayout.tsx 87-93, 142-151).
PhotoIsOfThisTask == rendered /\ photo # NoPhoto => pickedFor[photo] = task

\* A page that is sending or compressing gives its buttons back, whether the server answers,
\* refuses, or is out of reach (SocialPartyLayout.tsx 94-99, 142-151, 169-173).
PageGivesBack == (mounted /\ (sending \/ uploading)) ~> (~mounted \/ (~sending /\ ~uploading))
=============================================================================
