------------------------------- MODULE HostMenu -------------------------------
(***************************************************************************)
(* The host's menu on the phone that drives the room (HostGameMenu.tsx on  *)
(* the page of controllerBootstrap.tsx) and the pause the menu owns: what  *)
(* its buttons and its effect send, what the server makes of it, and the   *)
(* snapshots the phone renders, late and not every one of them.            *)
(*                                                                         *)
(* Ann has this phone, bob another one.  The room is what the menu and the *)
(* pause depend on: who drives, which round is on, who holds it.           *)
(***************************************************************************)
EXTENDS Integers, Sequences, FiniteSets, Functions

CONSTANTS MaxOpens, MaxStarts, MaxHandovers, MaxBreaks, MaxLine   \* bounds of the model

Nobody == "nobody"
Driver == {"ann", "bob", Nobody}

VARIABLES
  driver,      \* server: hostControl.holderPlayerId
  roundOn,     \* server: currentRound: "none", "running" or "finished"
  pausedBy,    \* server: clock.pausedByPlayerId of a room that is held
  here,        \* server: ann is a player of the room
  linkUp,      \* ann's phone is connected
  uplink,      \* what her phone has sent
  downlink,    \* snapshots on their way, each perhaps with the answer to an abort
  page,        \* phone: the room of the last commit; state.room may be ahead of it
  menuOpen,    \* phone: open
  strayed,     \* history: ann's pause was cut off from her menu
  opens, starts, handovers, breaks

room  == <<driver, roundOn, pausedBy>>
phone == <<page, menuOpen>>
vars  == <<room, here, linkUp, uplink, downlink, phone, strayed, opens, starts, handovers, breaks>>

Seen == [driver |-> driver, round |-> roundOn]

Init ==
  /\ driver = "ann" /\ roundOn = "running" /\ pausedBy = Nobody
  /\ here = TRUE /\ linkUp = TRUE /\ uplink = <<>> /\ downlink = <<>>
  /\ page = Seen /\ menuOpen = FALSE /\ strayed = FALSE
  /\ opens = 0 /\ starts = 0 /\ handovers = 0 /\ breaks = 0

-----------------------------------------------------------------------------
(* The phone.                                                              *)

\* Without a connection a packet is kept for the next one, where it comes ahead of the session
\* and is refused, unless the connection is recovered.
Emit(packets) ==
  \/ uplink' = uplink \o packets /\ strayed' = strayed
  \/ ~linkUp /\ uplink' = uplink /\ strayed' = TRUE

\* resolvePage and hasHostControl: the menu is on the page.
Offered(p) == p.round # "none" /\ p.driver = "ann"

\* The fieldset is disabled without a connection.
Reachable == here /\ linkUp /\ Offered(page)

Click == /\ Reachable /\ UNCHANGED <<room, here, linkUp, downlink, page, starts, handovers, breaks>>

\* The effect of an open menu.
Open ==
  /\ ~menuOpen /\ opens < MaxOpens
  /\ opens' = opens + 1
  /\ menuOpen' = TRUE
  /\ Emit(<<"hold">>)
  /\ Click

Resume ==
  /\ menuOpen /\ menuOpen' = FALSE
  /\ Emit(<<"resume">>)
  /\ Click /\ UNCHANGED opens

\* returnToGameSelection goes out in the handler, the cleanup of the effect after it.  It reads
\* the last snapshot that came, rendered or not.
BackToMenu ==
  /\ menuOpen /\ menuOpen' = FALSE
  /\ \E last \in {page} \cup {snapshot.room : snapshot \in Range(downlink)} :
       Emit(<<IF last.round = "running" THEN "abort" ELSE "select", "resume">>)
  /\ Click /\ UNCHANGED opens

Release ==
  /\ menuOpen /\ menuOpen' = FALSE
  /\ Emit(<<"resume", "release", "resume">>)
  /\ Click /\ UNCHANGED opens

\* game:select follows each abort that went through, as soon as its answer comes.
Selects(k) == [i \in 1..Cardinality({j \in 1..k : downlink[j].aborted}) |-> "select"]

\* Mutant: a menu that is taken off the page sends nothing.
CommitQuietly(k) ==
  /\ page' = downlink[k].room
  /\ menuOpen' = (menuOpen /\ Offered(page'))
  /\ Emit(Selects(k))

\* A menu that is no longer offered leaves with its cleanup.
Commit(k) ==
  /\ page' = downlink[k].room
  /\ menuOpen' = (menuOpen /\ Offered(page'))
  /\ Emit(Selects(k) \o IF menuOpen /\ ~menuOpen' THEN <<"resume">> ELSE <<>>)

\* room:state, rendered in a transition that may pass over snapshots.
Render(k) ==
  /\ here /\ k \in DOMAIN downlink /\ Commit(k)
  /\ downlink' = SubSeq(downlink, k + 1, Len(downlink))
  /\ UNCHANGED <<room, here, linkUp, opens, starts, handovers, breaks>>

-----------------------------------------------------------------------------
(* The server.                                                             *)

LastSent == IF downlink = <<>> THEN page ELSE downlink[Len(downlink)].room

Broadcast(aborted) ==
  /\ Len(downlink) < MaxLine
  /\ downlink' = IF linkUp /\ (Seen' # LastSent \/ aborted)
              THEN Append(downlink, [room |-> Seen', aborted |-> aborted]) ELSE downlink

\* The pause is ann's no more and nothing of hers is on its way.
Strays(cut) == strayed' = ((strayed \/ cut) /\ (pausedBy' = "ann" \/ uplink' # <<>>))

ClearPause == pausedBy' = Nobody

\* round:pause of someone who drives the room.
SetPaused(by, on) ==
  /\ pausedBy' = IF roundOn = "none" \/ (on /\ pausedBy # Nobody) THEN pausedBy
                 ELSE IF on THEN by ELSE Nobody
  /\ UNCHANGED <<driver, roundOn>>

ReleasePauseHeldBy(who) == pausedBy' = IF pausedBy = who THEN Nobody ELSE pausedBy

\* releaseHostControl.
HandBack == driver' = Nobody /\ ReleasePauseHeldBy(driver) /\ UNCHANGED roundOn

AbortRound == roundOn' = "none" /\ ClearPause /\ UNCHANGED driver

\* game:select takes the round away and leaves the pause.
SelectGame == roundOn' = "none" /\ UNCHANGED <<driver, pausedBy>>

\* A packet of ann's; the gate lets none through that does not drive the room.
Handle ==
  /\ linkUp /\ uplink # <<>> /\ uplink' = Tail(uplink)
  /\ LET packet == Head(uplink) IN
     IF driver # "ann" THEN UNCHANGED room
     ELSE \/ packet \in {"hold", "resume"} /\ SetPaused("ann", packet = "hold")
          \/ packet = "release" /\ HandBack
          \/ packet = "abort" /\ AbortRound
          \/ packet = "select" /\ SelectGame
  /\ Broadcast(driver = "ann" /\ Head(uplink) = "abort")
  /\ Strays(FALSE)
  /\ UNCHANGED <<here, linkUp, phone, opens, starts, handovers, breaks>>

\* Others and the clock change the room.
Elsewhere(cut) ==
  UNCHANGED <<linkUp, uplink, phone, opens, breaks>> /\ Strays(cut) /\ Broadcast(FALSE)

\* A round is started, on whichever path, and never starts held.
StartRound ==
  /\ roundOn # "running" /\ starts < MaxStarts
  /\ starts' = starts + 1
  /\ roundOn' = "running" /\ driver' = driver
  /\ ClearPause
  /\ UNCHANGED <<here, handovers>> /\ Elsewhere(FALSE)

\* A tick, or an input, which a held round takes as well.
FinishRound ==
  /\ roundOn = "running"
  /\ roundOn' = "finished" /\ UNCHANGED <<driver, pausedBy>>
  /\ UNCHANGED <<here, starts, handovers>> /\ Elsewhere(FALSE)

\* The screen ends the round or chooses another game.
ScreenEndsRound ==
  /\ roundOn # "none" /\ (AbortRound \/ SelectGame)
  /\ UNCHANGED <<here, starts, handovers>> /\ Elsewhere(FALSE)

\* The screen takes the controls back.
Reclaim ==
  /\ driver # Nobody /\ HandBack
  /\ UNCHANGED <<here, starts, handovers>> /\ Elsewhere(FALSE)

\* Free controls are taken, held ones are handed over with the round as it is.
Handover(to) ==
  /\ to # driver /\ (to = "ann" => here) /\ handovers < MaxHandovers
  /\ handovers' = handovers + 1
  /\ driver' = to /\ UNCHANGED <<roundOn, pausedBy>>
  /\ UNCHANGED <<here, starts>> /\ Elsewhere(pausedBy = "ann")

\* Bob's menu.
BobPauses(on) ==
  /\ driver = "bob" /\ SetPaused("bob", on) /\ pausedBy' # pausedBy
  /\ UNCHANGED <<here, starts, handovers>> /\ Elsewhere(FALSE)

\* Ann leaves, is removed, or her grace window ends: forgetHostControlForPlayer.
Forget ==
  /\ here /\ here' = FALSE
  /\ driver' = (IF driver = "ann" THEN Nobody ELSE driver)
  /\ ReleasePauseHeldBy("ann") /\ UNCHANGED roundOn
  /\ UNCHANGED <<starts, handovers>> /\ Elsewhere(FALSE)

-----------------------------------------------------------------------------
(* The connection and the browser.                                         *)

\* What was on its way is lost, but for snapshots that came and are not rendered yet.
Break ==
  /\ linkUp /\ breaks < MaxBreaks
  /\ breaks' = breaks + 1
  /\ linkUp' = FALSE /\ uplink' = <<>>
  /\ \E k \in 0..Len(downlink) : downlink' = SubSeq(downlink, 1, k)
  /\ strayed' = (strayed \/ uplink # <<>>)
  /\ UNCHANGED <<room, here, phone, opens, starts, handovers>>

\* The session is resumed and answered with the room as it is.
Reconnect ==
  /\ ~linkUp /\ here
  /\ linkUp' = TRUE /\ downlink' = Append(downlink, [room |-> Seen, aborted |-> FALSE])
  /\ UNCHANGED <<room, here, uplink, page, menuOpen, strayed, opens, starts, handovers, breaks>>

\* The page is loaded anew: no cleanup runs.
Reload ==
  /\ linkUp /\ here /\ breaks < MaxBreaks
  /\ "abort" \notin Range(uplink)   \* bound: not between an abort and its answer
  /\ breaks' = breaks + 1
  /\ menuOpen' = FALSE /\ downlink' = <<>> /\ page' = Seen
  /\ strayed' = (strayed \/ pausedBy = "ann" \/ uplink # <<>>)
  /\ UNCHANGED <<room, here, linkUp, uplink, opens, starts, handovers>>

Next ==
  \/ Open \/ Resume \/ BackToMenu \/ Release \/ Handle
  \/ StartRound \/ FinishRound \/ ScreenEndsRound \/ Reclaim \/ Forget
  \/ \E k \in 1..(MaxLine + 1) : Render(k)
  \/ \E to \in {"ann", "bob"} : Handover(to)
  \/ \E on \in BOOLEAN : BobPauses(on)
  \/ Break \/ Reconnect \/ Reload

Spec == Init /\ [][Next]_vars

-----------------------------------------------------------------------------
TypeOK ==
  /\ driver \in Driver /\ roundOn \in {"none", "running", "finished"} /\ pausedBy \in Driver
  /\ here \in BOOLEAN /\ linkUp \in BOOLEAN /\ menuOpen \in BOOLEAN /\ strayed \in BOOLEAN
  /\ uplink \in Seq({"hold", "resume", "release", "abort", "select"})
  /\ opens \in 0..MaxOpens /\ starts \in 0..MaxStarts
  /\ handovers \in 0..MaxHandovers /\ breaks \in 0..MaxBreaks

\* Nothing is on its way and the phone shows the room as it is.
AtRest == here /\ linkUp /\ uplink = <<>> /\ downlink = <<>>

\* "The pause belongs to the menu being open" (HostGameMenu.tsx): in whatever order snapshots
\* are rendered, rounds replaced and controls moved while packets travel, once all have arrived
\* a round that ann holds has her menu open over it, with the button that ends the hold.  Left
\* out is a hold that was handed over, reloaded or lost with a connection.
HoldHasItsMenu ==
  AtRest /\ roundOn # "none" /\ pausedBy = "ann" /\ ~strayed => menuOpen /\ Offered(page)
=============================================================================
