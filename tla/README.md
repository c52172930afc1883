# Open Party Lab: TLA+ models of the party room and its clients

Open Party Lab is a party-game console in the browser: one shared screen (the
*host*) shows a room, phones (*controllers*) join it, and a Node/Socket.IO
server in between owns all state. This directory models it in four parts.

* *The room*: who drives it, when a round starts, how it moves through its phases,
  what a pause does to its timers, and when a score is paid.
* *The sessions*: which socket is which screen or player, how players get lost, come
  back and are removed, and how rooms are created, kept and closed.
* *The streams*: how the screen comes to show the round the server has, and how a phone
  keeps, resumes and ends its session, over connections that drop and lose messages.
* *The pages*: what runs by itself in the browsers (music, wake locks, clocks, sticks,
  plans, photos, drawings, the pause menu) and the setup of teams.

Paths below are relative to `src/`; `server/` stands for `apps/server/src/`, `layouts/`
for `apps/controller/src/controller-ui/layouts/`.

## 1. The system

### 1.1 How it runs

The server is one Node process. Everything it knows is in memory; a restart
forgets it all. A socket handler, a turn of an interval and a disconnect each
run to their end before the next event, so the atomic steps are whole handlers.
What interleaves is their order: events of several phones and of the screen,
the 16 ms round timer, the cleanup interval, late disconnects, retries of
clients whose acknowledgement was lost, and wall time between all of them.

Games are packages outside this repository. The server calls their hooks
(`packages/game-core/src/types/ServerGame.ts`) and stores the state they return.

### 1.2 Components

| Component | Code | State | Operations |
|---|---|---|---|
| Room record | `server/rooms/roomStore.ts`, `roomManager.ts` | a record per room: players, selected game, current round, round counter, host control, pause, activity stamps | create, select, pause/resume, room clock |
| Host control | `roomManager.ts:70-215` | holder, pending takeover request with a deadline | request, resolve, expire, release, forget |
| Round engine | `server/game-engine/gameRuntime.ts`, `gameTransitionService.ts`, `roundManager.ts`, `scoreManager.ts` | the current round: phase, deadline, game state, score commit | start, abort, input, host action, tick |
| Round timer | `server/game-engine/roundTimerService.ts` | an interval | per room: expire handovers and grace windows, tick, settle a finished round |
| Start rules | `server/rooms/roomLifecycle.ts` | none | `canStartRound`, snapshots |
| Socket handlers | `server/network/socket/registerSocketHandlers.ts` | `socket.data` | some thirty events |
| Players, presence | `server/players/*.ts` | player records, ready flags, setup choices, connection and grace timers | join, resume, disconnect, ready, leave, kick |
| Sessions | `server/players/reconnectService.ts`, `server/network/socket/socketSessionStore.ts` | token to (room, player), socket to session | create, resume, detach, remove |
| Cleanup | `server/rooms/roomCleanupService.ts` | per-room lifetime | capacity eviction, idle removal, extend, close |
| Setup assignment | `server/rooms/playerSetupAssignments.ts` | per player and game choice | balanced assignment |
| Broadcaster | `server/game-engine/stateBroadcaster.ts` | last sent state per room, throttles | snapshot, full and patch messages, volatile sends |
| Host client | `apps/host/src/app/hostSocketClient.ts`, `hostSurface.ts` | last room and game state, the catalog shown | apply full states and patches, abort, reconnect, reload |
| Controller client | `apps/controller/src/app/*.ts` | stored session, pending resume or leave, room shown | join, resume with timeout and retry, leave, discard, volatile input |
| Client clock | `packages/game-core/src/time/ServerClock.ts` | best round trip and anchor | greet, sample, refresh |
| Host music | `apps/host/src/app/backgroundMusic.ts` | audio context, rendered tracks, current and desired track | choose, unlock, render, hide, dispose |
| Wake locks | `apps/host/src/app/screenWakeLock.ts`, `apps/controller/src/hooks/useWakeHint.ts` | lock, request under way, stand-in video | request, release, hide, show, leave |
| Phone controls | `layouts/VirtualJoystickLayout.tsx`, `DPadLayout.tsx`, `TwinStickLayout.tsx`, `RacingControlsLayout.tsx`, `MagicArenaLayout.tsx`, `SocialPartyLayout.tsx`, `DrawingGuessLayout.tsx` | pointers, drafts, what was last sent | press, move, lift, confirm, pick a photo, draw |
| Phone host menu | `apps/controller/src/controller-ui/common/HostGameMenu.tsx` | menu open or not; owns a pause | open, resume, back to the games, release |

The rest (HTTP, logging, registry loading, the presentation of both user interfaces, UI
kit, theme catalogue, scripts, website) keeps no state that another part depends on; it is
listed in `PROJECT.json` with the reason it is not modelled.

Interactions: a handler looks up the room of its socket, checks the right to
act, changes the record through the managers, often calls
`maybeAutoStartReadyRound`, and finally broadcasts. The timer changes the same
record without any socket. Cleanup and disconnects change who is present.
No handler of the server reads a broadcast back; what a page last received decides
what its buttons send, which is where late snapshots matter.

### 1.3 What is hard here

* **Control.** Controls move on six paths (free takeover, granted answer,
  expired deadline, hand-back, leaving, kick), and answers name a *player*, not a
  request, so an answer may refer to a request that is no longer there.
* **Pause.** Holding a round freezes a clock that every deadline was read from.
  A pause may begin and end on several paths and outlive the round or the
  player it was set by.
* **Phases.** `progressRoom` is called by ticks and by inputs and falls through
  several phases in one call; the score has to be paid exactly once whatever
  the route.
* **Readiness.** Games with `wait_for_ready` start from inside whatever
  handler makes the last condition true; the timer clears readiness and continues
  a run, but only for rounds *its own* tick finished.
* **Presence.** A player may be named by several sockets; a disconnect may be
  noticed long after the phone is back on another one; connection state recovery
  restores a socket's identity without telling the server's tables; grace windows,
  the cleanup interval and eviction act in between.
* **Three records of one fact.** That a player is here is written in the player
  record, in the reconnect session and in `socket.data`; each path in and out
  has to change all three.
* **Streams.** Live states are throttled and volatile, patches are built on a state the
  screen may not have, and the last state of a phase still has to arrive.
* **Retries.** A phone asks again for what may have been done already, and answers of
  earlier requests arrive while it leaves, reloads or joins anew.
* **Awaits in pages.** A track is rendered, a lock requested, a photo compressed while the
  page is hidden, left or asked for something else.
* **Two copies of one thing.** A thumb, a drawing, a plan or an open menu exists on the
  phone and, later, on the server; snapshots of the second overwrite the first.

`PROJECT.json` lists each hazard at its line with the property that watches it.

### 1.4 What makes each component correct

* Host control: the holder is present, nobody waits for what they have, nobody is
  displaced without asking and an answer or a deadline, an overdue handover ends.
* Clock: continuous; stands still while held; never negative.
* Round engine: numbers unique and increasing, phases only forward, scored after
  play and before the result, paid once, no dead phase, belongs to the selected game.
* Players: readiness and holds vanish with the player.
* Sessions: sessions and players of open rooms correspond one to one; a player shown
  online is on a live socket that knows it is that player; nobody who is reachable
  is set offline; nobody reconnects for ever.
* Cleanup: the limit holds; a room with somebody online is closed for its lifetime
  only; deserted and expired rooms do get closed.
* Broadcaster and host client: a patch meets the state it was made for, and what the
  screen shows converges to the server's state in every phase that lasts.
* Controller client: an ended session stays ended; a phone that has caught up shows the seat
  and the round the server has for it; a device holds one seat; a stored session comes back.
* Setup assignment: choices are dealt evenly without touching those that are there, and
  a setup nobody is asked for keeps nobody waiting.
* Client clock: it is as wrong as its best round trip allows.
* Pages: they let go of music, locks, pauses and throttles; what is drawn, planned or
  photographed is what is sent; the game follows the thumb.

## 2. The modules

| Module | What it is |
|---|---|
| `RoomRecord` | constants with their assumptions, the room record and its parts |
| `RoomClock` | wall time minus pauses: pause, resume, clear |
| `HostControl` | the operators on holder and request |
| `RoundEngine` | start rules, opening a round, `progressRoom`, and its callers up to the timer's turn |
| `PartyRoom` | variables `wall` and `room`, one action per handler, properties |
| `RoundLifecycle` | the abstract specification: what a room promises about rounds |
| `PartyRoomProofs` | the theorems about `PartyRoom` |
| `MCPartyRoom` | small constants for TLC |
| `SocketSessions` | the tables of rooms, players, sessions and sockets, and the operators on them |
| `RoomCleanup` | creating, hosting, extending, evicting and closing rooms |
| `RoomSessions` | variables `wall` and `server`, one action per handler and interval, properties |
| `RoomSessionsProofs`, `MCRoomSessions` | its theorems, its small constants |
| `HostStream`, `HostStreamProofs`, `MCHostStream` | the broadcaster, one connection and the screen's client; its theorems; small constants |
| `PhoneSession`, `MCPhoneSession` | the phone's session client, its connections and the server's answers; small constants |
| `PhoneSessionProofs`, `PhoneSeatProofs` | theorems: one seat per device; types, ended sessions, and what a settled phone has and shows |
| `PlayerSetup` | the choice a game asks of each player, and the rounds that wait for it |
| `ServerClock` | the server's time as a client keeps it |
| `HostMusic` | the screen's music |
| `ScreenWakeLock` | the screen's wake lock |
| `PhoneWakeLock` | the phone's wake lock and the video that stands in for it |
| `PhoneControls` | joystick, D-pad and twin stick, from the thumb to the game |
| `SteeringPad` | the racing controls, with React's renders and effects |
| `ArenaPlanner` | planning a round of the magic arena, with the search for a way |
| `PhotoTask` | the photo added to a task |
| `DrawingBoard` | drawing on a phone onto the server's board |
| `HostMenu` | the host's menu on a phone and the pause it owns |
| `Pages`, `MCPages` | the eleven modules from `PlayerSetup` to `HostMenu` side by side; small constants |
| `PageProofs` | theorems about the music, both locks, the clock, the stick, the photo, the racing pad and the host's menu |
| `WorkProofs` | theorems about the setup of teams, the drawing and the planning of a round |
| `PagesProofs` | the same properties of the modules side by side |

`RoomClock` EXTENDS `RoomRecord`, `HostControl` EXTENDS `RoomClock`, and so on up to
`PartyRoom`; `SocketSessions`, `RoomCleanup` and `RoomSessions` form such a chain too.
`PartyRoom` INSTANCEs `RoundLifecycle` under a refinement mapping, `Pages` INSTANCEs its
parts. No module declares a RECURSIVE operator. The parts share no variable. What one
leaves open is arbitrary in the other: `PartyRoom` lets players join and leave at any
time the roster may change, `RoomSessions` lets any event be refused or keep a
room active (`OtherEvent`), `HostStream` lets rounds start, move and end whenever the phases
of a round allow it, `PhoneSession` lets seats be taken away and rooms be closed at any time.

### 2.1 State of a room

`wall` is `Date.now()`. `room` is a record with the source's field names. The
`Map` of player records is split into what the rules read of it:

| Model | Code |
|---|---|
| `players` | keys of `room.players` |
| `ready` | players with `isReady` |
| `score[p]` | `player.score` |
| `chosen[g]` | players with a valid `setupSelections[g]` |
| `confirmed` | games whose lobby settings carry the host's confirmation |
| `hostControl`, `clock` | the fields of the same names; `clock` groups `pausedAt`, `pausedTotalMs`, `pausedByPlayerId` |
| `currentRound` | the round with `phase`, `phaseEndsAt` copied from the game's state; of `scoreCommittedAt` only whether it is set |

`null` is a model value per type (`NoPlayer`, `NoTime`, `NoGame`). As an actor
`NoPlayer` is the shared screen, the way `pausedByPlayerId: null` is.

### 2.2 Actions of a room

| Action | Event or caller |
|---|---|
| `JoinPlayer` | `room:join` of a new device |
| `LeaveRoom`, `KickPlayer` | `room:leave`, `player:kick` |
| `SetReady`, `SetPlayerSetup` | `player:ready`, the player's setup choice |
| `RequestControl`, `ResolveControl`, `ReleaseControl` | the host-control events |
| `HoldRound` | pause and resume |
| `Select`, `HostAction` | `game:select`, `game:host-action` |
| `RoundStart`, `RoundAbort` | `round:start`, `round:abort` |
| `GameInput` | `game:input` |
| `RoundTimer` | one room's turn of the timer interval |
| `TimePasses` | wall time |

An action is the whole handler, the trailing `maybeAutoStartReadyRound`
included. A handler that answers with an error changes nothing and has no
disjunct. Lookups that always succeed here (the socket's own room) are left out.

### 2.3 State and actions of the sessions

`server` is one record of four tables:

| Model | Code |
|---|---|
| `rooms[c]` | `RoomStore`: `hostSocketId`, `expiresAt`, `lastActivityAt` of an open room |
| `seats[p]` | the connection fields of a `PlayerRecord`: device, socket, presence, grace window; `connected` is presence `online` in every writer |
| `sessions[p]` | `SocketSessionStore`; the token is made with the player, so the player's id is the key |
| `sockets[s]` | a Socket.IO socket: `socket.data`, its Socket.IO rooms, and whether it is live or lost; `roamed` is history: it was given a room while it still named another |

| Action | Event or caller |
|---|---|
| `Connect`, `Disconnect`, `Recover` | `connection`, `disconnect`, connection state recovery |
| `RequestRoom` | `room:create`: a new room (with cleanup, eviction and refusal), the local primary room, or a room that exists |
| `ExtendLifetime` | `room:extend-lifetime` |
| `JoinRoom`, `ResumeSession` | `room:join` of a new or a known device, `session:resume` |
| `LeaveRoom`, `Kick` | `room:leave`, `player:kick` |
| `OtherEvent` | any other event or refusal: the middleware touches the room |
| `GraceTimer`, `Cleanup` | the round timer's and the cleanup service's interval |
| `TimePasses` | wall time |

`Received` is the `socket.use` middleware that runs before every handler.

What clients send is bounded by what the clients in this repository do. A screen asks
for a new room while it has none and for its own afterwards (`MayHost`, `hostSocketClient.ts`).
A phone joins on a socket that is not in a room, or again in the room it is in; on a socket
whose player is gone it sits down again in the same room (`MayJoin`, `controllerSocketClient.ts`).
It resumes with the token of its own player. Two habits the clients also have break
the cleanup of rooms, and are switched on by `Habits` to show that they do
(3.3): `retry_create` and `join_elsewhere`. The theorems hold with and without them (4.1).

Socket.IO is external. A lost socket may be recovered with its id, data and
rooms at any later time; the real limit of two minutes is left out, which only adds
behaviours. A socket the server ended cannot be recovered. Ids of sockets and players are never used twice by the program; the
model uses one again once no table names it, which a fresh id could not be told from.

### 2.4 Games

A hook's answer is an input of the action that calls it: the phase it leaves the
round in, whether the round is over, whom `buildScore` pays, whether a run goes
on. The answers are arbitrary within the contract of `ServerGame.ts` and the
platform's own games: the initial state is a `round_intro` with a deadline,
`startRound` yields `playing` without one, a hook moves a round only
from `playing`, only to `locked`, and gives the lock the platform's deadline.
`HooksFor` leaves out answers nobody reads in the current phase, which removes
duplicate transitions and nothing else. The event guard catches a hook's
exception; a handler that stops half-way is not modelled.

### 2.5 The stream to the screen (`HostStream`)

| Model | Code |
|---|---|
| `round` | `room.currentRound`: a number, a phase, and a version for the content |
| `remembered`, `held` | `lastHostStateByRoom`; `lastHostEmitAtByRoom` is less than an interval ago |
| `line` | a connection: FIFO, what is on it is lost when it ends |
| `screen` | the client's room, its game state, and whether it overrides both with the catalog |
| `asked` | the screen's `round:abort` or `game:select` without an answer yet |

A patch merged into another state than the one it was made for gives the version `Mixed`, a
state no game ever had. `StartRound`, `RestartRound`, `TickPhase`, `TickMoves`, `GameInput`,
`SelectGame` and `AbortRound` change the round and broadcast it as the code does (patch or
full state, due or throttled, volatile or not, remembered or not, deferred to the next tick);
`Rebroadcast` is a broadcast for another reason, `IntervalPasses` the throttle.
`AttachScreen`, `LoseConnection`, `Deliver` and `ReturnToGameSelection` are the client.

### 2.6 The phone's session (`PhoneSession`)

`phone` holds what `localStorage` keeps (`stored`, `device`), the client's flags (`ended` is
`sessionTerminated`, `leaving` is `sessionTerminationPending`) and what the pages show.
`up` and `down` are the two directions of its connection. The phone knows of a loss before
the server does; data of a dead connection may still be handled until the phone's next one
is accepted, not after it. With connection state recovery the phone may get its connection
back, with the events it missed but not their acknowledgements. `localStorage` belongs to
one page: two tabs are in `RoomSessions`. The person's steps are `Join`, `Leave`, `SetProfile` and
`Discard`; the client's `Connect`, `ResumeTimesOut`, `Retry` and `Receive`; the server's `Handle`,
`NoticeLoss`, `Kick`, `CloseRoom` and `NextRound`.

### 2.7 The pages

Every module of a page has one action per event handler, effect and continuation of an
`await`. The order of browser tasks is modelled where it matters: an effect that runs after
a render of its own is an action, one that React runs before the next event is part of the
handler that caused it. Some points that are easy to misread:

* `HostMusic`: `ContinueSync` is the code after the `await` in `syncTrack`; `syncing[t]` counts the calls
  that are awaiting track `t`.
* `ServerClock`: times are doubled where the code halves a round trip. `Drift` moves the two
  clocks apart by a unit; `hello` are greetings of unknown age, `requests` samples on their way.
* `PhoneControls`: `down` are the fingers on the pad, `pointer` the one the stick follows. A volatile packet
  may be dropped; the repeat of the joystick (`HoldRepeat`) is the timer that makes up for that. Joystick and
  D-pad reset when they are taken from the page, the twin stick sends nothing (`GoneUnheard`).
* `SteeringPad`: `controlsRef`, React's state (`controls`, `committed`) and what the game was last
  `sent` are three copies of one set. Moves are rendered later (`Commit`), with their effects after
  that (`WriteEffect`, `ResetEffect`).
* `ArenaPlanner`: fields are axial coordinates; of the actions there are move, punch, dig and
  one sprint card. The search is the loop of the code: `Turns` are its passes over the queue, `Visits` the
  neighbours it looks at in each.
* `DrawingBoard`: a stroke is its number of points on the phone's layer (`pendingStrokes`), on the
  last snapshot (`model`) and on the server (`strokes`). `drawn` is what was drawn and not cleared.
* `HostMenu`: Ann has the phone with the menu, Bob another one. `uplink` and `downlink` are her
  connection; `Render(k)` skips the snapshots before the k-th, as React does.
* `PlayerSetup`: one game has a choice setup with assignment `balanced-random` that one of its modes
  shows; `manifest` says which mode is the default, whether the choice is required, and whether
  rounds wait for readiness.

### 2.8 What is abstracted

Names, avatars, messages, theme, language, the game's own state, profile data and
logs. In `PartyRoom` setups assigned by the server count as no setup requirement
(`PlayerSetup` has them), and a round's `phaseEndsAt` counts in units of the phase durations.

## 3. What TLC checks

| Run | Checks | Shows |
|---|---|---|
| `party_room` | type, five invariants, four action properties, refinement | every interleaving of two players, the screen, the timer and time |
| `party_room_live` | `OverdueHandoverCompletes`, `OverduePhaseEnds` | handovers and phases end by themselves |
| `pause_outlives_control` | `PauseFollowsControl` | violated: see 3.3 |
| `held_round_moves` | `HeldRoundStandsStill` | violated |
| `ready_room_waits` | `ReadyRoundStarts` | violated |
| `room_sessions` | type, four invariants, two action properties | every order of events of three connections on a hosted server at its room limit |
| `room_sessions_live` | `GraceEnds`, `AbandonedRoomGoes`, `ExpiredRoomGoes` | what has to go, goes |
| `retried_room_stays` | `AbandonedRoomGoes` | violated, with the habit `retry_create` |
| `host_stream` | type, `PatchBaseIsShown`; `SettledRoomIsShown`, `RunningRoundIsShown` | the screen catches up through throttling, drops, patches, losses and reloads |
| `phone_session` | type, four invariants; `SessionComesBack` | one phone against the server through losses, recoveries, reloads, timeouts, kicks and closing |
| `pages` | type, two invariants, four temporal properties | the eleven modules of pages and setup, side by side |
| `hidden_setup_blocks` | `HiddenSetupBlocksNobody` | violated |

### 3.1 Properties

* `ControlBelongsToTheRoom`, `HoldBelongsToTheRoom`: no stale holder, requester or
  pause owner, whatever order of leaving, answering and expiring.
* `RoundIsOfSelectedGame`: the timer reads the round's game for readiness and
  the selected game for the start; they never differ.
* `SettledRoundIsScored`, `PaidOncePerRound`: a result is only shown scored, and no
  mixture of ticks, inputs and zero-length phases pays a round twice.
* `RoomClockContinuous`, `PauseFreezesTimers`, `RoundStartsRunning`: the pause
  arithmetic over any number of pauses; no deadline is reached during a pause that
  lay ahead when it began; no round begins frozen.
* `NoSilentTakeover`: controls pass between two present players only on that player's
  own open request, by an entitled answer or by its deadline.
* `ImplementsLifecycle`: the room refines `RoundLifecycle`.
* `OverdueHandoverCompletes`: also in a paused room, where the tick does nothing else.
* `OverduePhaseEnds`: each timed phase of each round ends once overdue and running.

* `SessionsResume`: a session without a player, or a player without a session, after
  any mixture of leaving, kicks, evictions and closing would be a token that resumes
  into nothing or a player who cannot come back.
* `OnlineMeansReachable`: whoever is shown online is on a live socket that carries this
  identity and hears the room. It is what makes the next disconnect count.
* `HostSocketIsLive`: the same for the screen. Both exempt a socket that has `roamed`, which only the
  habits of 2.3 make one do: there the code fails, as `retried_room_stays` shows for the screen.
* `RoomLimit`, `ActiveRoomStays`: eviction and the sweep in one handler never exceed the
  limit and never close a room somebody is online in, except for its lifetime.
* `ReachableStaysOnline`: neither the late disconnect of an older socket nor the grace
  window of an earlier absence takes a player offline whose socket is connected.
* `GraceEnds`, `AbandonedRoomGoes`, `ExpiredRoomGoes`: a grace window ends; a room no live
  socket is in, idle for long enough, is closed or comes to life; an overdue room is closed or extended.

* `PatchBaseIsShown`: once everything on its way has arrived, the screen shows the very state the
  next patch will be made against, as long as the server's memory was put on this connection
  and not dropped (both exceptions are in 3.4).
* `SettledRoomIsShown`: whatever was throttled, dropped or wrongly merged in a live phase,
  the intro, the result and the end of a round reach the screen.
* `RunningRoundIsShown`: the catalog the screen shows for itself gives way to a running round,
  in whatever order aborts, selections, ends and starts cross each other.
* `EndedStaysEnded`: no acknowledgement, event or retry still under way revives a session
  that was left, kicked, closed or discarded.
* `SettledPhoneIsSeated`, `SettledPhoneShowsRound`: when nothing is under way, a phone with enabled
  controls sits, with what it has stored, on a seat the server connects to this very
  socket, and shows the round the server is in.
* `OneSeatPerDevice`: a join whose answer was lost and is repeated makes no second player.
* `SessionComesBack`: a phone with a stored session, and no leave pending, gets its room back or
  learns that the session is over.

The `pages` run groups the promises of its modules; each conjunct speaks about one of them:

* `PageLetsGo`: `NothingPlaysOn` (one track is heard, none after disposal), `NoLockLeaks` and
  `PhoneMaySleep` (no lock or video survives the page), `PhoneStaysAwake` (a visible phone is kept
  awake or is about to be), `HoldHasItsMenu` (a round the driver holds has the menu open that
  ends the hold), `CarComesToRest` (disabled or removed controls have stopped the car, and page and
  game agree after every gesture; the game drives and fires only what a finger still holds). Exempt are
  what `raced`, `refusedLate`, `strayed` and, for the last clause and until the next reset, `lagged` mark (3.4).
* `WorkIsKept`: `PhotoIsOfThisTask`, `StrokesSettle` (the phone shows what was drawn at every
  moment, and the board ends up as the drawing), `WaysAreShortest` (the breadth-first
  search against plain walking), `PlansDoNotClash` (no figure twice, no card twice). Exempt is what
  `lost`, `turned` and `clashing` mark (3.4).
* `ClockErrorBounded`: the error is at most half the best round trip plus the drift since.
* `AssignmentIsGentle`: dealing choices touches nobody who has one and evens the options out.
* `GameFollowsThumb`: `ReleaseArrives` (a pad nobody touches comes to rest in the game, but for a
  stop that fell into an outage and a twin stick taken from the page while it was deflected, see 3.4),
  `HeldVectorArrives` (a held direction arrives although its packets may be dropped).
* `PagesComeRound`: `MusicFollowsGame`, `ScreenStaysAwake`, `PageGivesBack` (a page that is
  compressing or sending gives its buttons back).

### 3.2 Bounds and fairness

`party_room` has two players, two games and the screen. Two players are the smallest
set in which the controls pass from one person to another while a third party
(the screen) can interfere. No rule looks at more than a holder, a requester and
an actor; the counts of players matter only against `MinPlayers` and `MaxPlayers`,
which take the values 1 and 2. `quiz` goes through result and scoreboard
and needs the host's confirmation; `relay` waits for readiness and continues its
run. Wall time stops at 3, rounds at 2: enough for a pause in one round to
end in another and for a handover deadline to pass while a round is held. Two
phases last no time, so that one call of `progressRoom` falls through several phases;
the others last one unit. The players are interchangeable in every
constant, so the symmetry set is sound; the run checks no liveness.

`party_room_live` uses one game with a hand-picked setup, one round and no symmetry.
`lock` and `scoreboard` last one unit so that an overdue phase is observable between
two steps.

The only fairness is `WF_vars(RoundTimer)`: the interval is set at start-up and
cleared only on shutdown. People owe nothing, and neither does time: a
property speaks of a deadline that has already passed.

`room_sessions` has three sockets, two codes, two devices and two player ids, at most one
open room, and wall time up to 2. Three sockets are the smallest set for a screen, a phone and the
older socket of the same phone (or a second phone), and for a screen that replaces
another. The limit is reached at once, so creation goes through the sweep,
eviction and refusal. Window, idle time and extension window last one unit and the lifetime two, so
that each ends before, with and after the others. `room_sessions_live` has two
sockets and one player without symmetry. All codes, sockets, devices and players are
interchangeable in every constant, so the symmetry set of `room_sessions` is sound.

The fairness of `room_sessions_live` is weak fairness of `GraceTimer` and `Cleanup`, both
intervals of the running server. Clients and time owe nothing.

`RoundTimer`, and `Cleanup` in the other part, is always enabled, so none of these runs can
deadlock and the check stays on.

`host_stream` has two games, one with every broadcast setting and the same one with reliable
delivery. A game may always decline a patch, an interval may always be over and an
undeferred input looks like a move of a tick, so that these two have the behaviours of all
others. Two rounds let what was remembered of one meet the next; one content version per
phase, one dropped state, one lost connection and three messages on the line are enough for a
drop to be followed by a patch, and for a loss to fall between any two messages. Fair are
the connection (`Deliver`) and the server's answers (`AnswerAbort`, `AnswerSelect`): Socket.IO
delivers on a connection that holds and a handler answers in the task that runs it.

`phone_session` has two seats, three device ids, one round, two losses of the connection, one
timeout of a resume, one request of the person at a time under way and three messages
per direction. Two seats let a phone that was removed sit down again while messages
about the first seat are under way; two losses let a resume be lost and its repetition too.
Fair are `Connect`, `Retry`, `Receive` and `Handle`: the client reconnects for ever, its timers
fire, and both ends handle what arrives.

In both runs a person may stop and the bounds run out, so that the deadlock check is off.

In `pages` the parts stand side by side and one of them moves per behaviour (`part`), which
makes the state space the sum of theirs (279,118 distinct states), not the product. The bounds are
the constants of `Pages`, with their values in `MCPages.cfg`: two tracks, three choices, one hiding; two refusals, releases and
changes of visibility for the screen's lock, one, one and two for the phone's; clocks with two requests
on their way, round trips of one unit, two units of time and one of drift; two touches, one
drop, one outage, one switch; two tasks and three picks; two strokes of up to three points on a
board that takes one stroke of two; three players, two options, two rounds; one opening of the
menu, one new round, one handover, one broken connection; five gestures and two switches
on the racing pad. The search of `ArenaPlanner` is compared on all 128 ways to have holes in the seven
free fields of a 3x3 board; planning uses the board without holes, two slots, two figures,
two changes of the slot by hand and two plans, after which nothing more is drafted. Where a property is proved (4.4), the bounds are only as large as its
cases need: a second greeting and a refreshed sample for the clock, one hold for the menu.
Fairness is what browsers do by themselves: promises settle, timers elapse, effects run and
a connection delivers. `HandleInteraction` is among them because an interval of thirty seconds
calls it (`screenWakeLock.ts:95`); no touch of a person is assumed. A part whose bounds have run out may
stand still, so that the deadlock check is off.

`hidden_setup_blocks` checks `PlayerSetup` itself with three players and every manifest.

### 3.3 Where documents and code disagree

1. `docs/minigame-sdk.md:112` says a pause is released when the player who
   set it loses control or leaves. A granted or expired handover moves the
   controls and leaves the pause in place (`PauseFollowsControl`). The new holder can resume.
2. `packages/protocol/src/dto/room.ts:46` says that in a held round the simulation and every
   phase timer stand still. `handleInput` does not look at the pause and
   progresses the round; a phase that was overdue when the pause began ends under it
   (`HeldRoundStandsStill`). Deadlines that lay ahead do hold (`PauseFreezesTimers`).
3. `round:start` tells the host of a wait-for-ready game that the round starts by
   itself once all are ready. If an input rather than the timer finishes a round, or
   the last unready player leaves, everyone is ready and nothing starts it
   until somebody sends another event (`ReadyRoundStarts`).
4. `docs/release-build.md:13` says that rooms without a host or connected players are
   cleaned up after ten minutes (`AbandonedRoomGoes`). Without the two habits of 2.3 they are. A screen whose
   `room:create` is answered late asks again without a code; the second room takes over the
   socket's identity and the first keeps a host that never disconnects. On a hosted server the
   lifetime ends such a room.
5. `docs/minigame-sdk.md:124` says that hidden player setup does not block readiness. The round timer
   looks the game up without the room's settings, so that a run does not go on for want of choices
   the settings hide (`HiddenSetupBlocksNobody`). With the default and the setting the other way round, the same
   line starts a round without the choices the room requires.

### 3.4 Further notes on the code

Met while modelling. Most have no run: a history variable or a side condition of a property
leaves them out, and removing it makes TLC show them.

* **A second cause of deserted rooms** (`Habits = {"join_elsewhere"}`, `AbandonedRoomGoes`). A dropped phone whose
  player was kicked meanwhile recovers its socket in the Socket.IO room of the old room and joins
  another room. When the old room is closed, `closeRoom` deletes the identity the socket has in
  the new one, whose player is then shown online for ever.
* **Patch base** (`HostStream`, `PatchesFit`; `anchored` leaves it out). `stateBroadcaster.ts:36-38` keeps the last state "so games
  that support patches can diff against exactly what the host already has". It is kept
  also when the volatile message was dropped and when the screen reloads, which then gets
  patches against a state it never saw until the next full state.
* **Throttle**. `stateBroadcaster.ts:270-271` says a phase change always goes out immediately. From
  `playing` to `locked` within an interval it is throttled like any live state.
* **A refused leave** (`PhoneSession`, `refused`, `EverySessionComesBack`). While `sessionTerminationPending` is set the client
  ignores the room's news and refused resumes; when the leave is refused they are lost until it connects anew.
  A leave that is pending when the connection breaks stays pending, and the session is not resumed by itself,
  unlike `docs/project-status.md:199`. The reconnect page's continue button is never enabled, and the branch for
  `io server disconnect` cannot be reached.
* **Sticks** (`missed`, `LeftRunning`). "Releasing the stick must arrive: a dropped stop leaves the figure running
  until the player touches the stick again" (`controllerSocketClient.ts:73-74`). Two stops do not: `sendInput` drops one
  made without a connection, and the twin stick has no cleanup (`TwinStickLayout.tsx:39-47`), so that a page that
  takes it away under the thumb leaves the game with the last vector, and the lifted finger is not heard any more.
  `ReleaseArrives` without either exemption is violated: the thumb deflects the stick, the vector
  arrives, the layout goes, the finger lifts, and the game has the vector for ever. Direction keys are not repeated,
  and zero vectors of aim and turn are volatile.
* **Racing pad** (`lagged`). The passive effect at `RacingControlsLayout.tsx:462-464` of an older commit may set
  `controlsRef` back after a newer move was sent. A release that then finds an idle ref sends nothing, and the car
  drives on, against `controllerSocketClient.ts:73-74`. Disabling, resetting or leaving the pad stops it.
* **Host menu** (`strayed`). The effect at `HostGameMenu.tsx:136-142` cannot release a lost menu: the page has become the lobby
  and the menu is unmounted. `game:select` without a game drops the round but not its pause
  (contrast `registerSocketHandlers.ts:1128`), and the resume that follows is ignored; the next start clears it.
  After a handover and a reclaim by the screen, the first driver's pause has no button that ends it.
* **Planner** (`clashing`). The echo of a plan (effect on `initialSlot`) wipes a draft begun after it was sent; confirming before
  the echo overwrites a slot; after switching slots a figure may be planned twice. The game package validates.
* **Phone's lock** (`raced`, `refusedLate`). Two requests on their way at once leave one lock behind, as nothing notes
  that a request is out. A refusal after the cleanup starts the video again, and its interval is never
  cleared. `handleRelease` takes the listener from the current lock, not from the one released.
* **Music** (`raced` in `HostMusic`). Hiding the page while its first `resume()` is pending leaves the context suspended
  until the next change of visibility. A failed rendering is cached for ever.
* **Drawing** (`lost`, `turned`, `refused`). After an outage moves join the stroke before it; strokes the board's limits
  refuse stay on the phone as a preview; turning the phone clears its layer.

## 4. What is proved

`PartyRoomProofs` proves, for every set of players and games, every
manifest, duration, time and bound, from the named assumptions `NullsAreNew`,
`ManifestsFit`, `HooksStayInContract`, `ScoresAreIds`, `DurationsFit` and `BoundsFit`:

| Theorem | Statement |
|---|---|
| `Soundness` | `Spec => []IInv` |
| `TypeCorrect` | `Spec => []TypeOK` |
| `ControlIsPresent` | `Spec => []ControlBelongsToTheRoom` |
| `HoldIsPresent` | `Spec => []HoldBelongsToTheRoom` |
| `RoundMatchesSelection` | `Spec => []RoundIsOfSelectedGame` |
| `ResultsAreScored` | `Spec => []SettledRoundIsScored` |
| `PaidOnce` | `Spec => []PaidOncePerRound` |
| `ClockContinuous` | `Spec => RoomClockContinuous` |
| `StartsRunning` | `Spec => RoundStartsRunning` |
| `RoomImplementsLifecycle` | `Spec => ImplementsLifecycle` |
| `TakeoversAreConsented` | `Spec => NoSilentTakeover` |
| `PausesFreezeTimers` | `Spec => PauseFreezesTimers` |

**The invariant.** `IInv` is `wall \in Nat` and `RoomOK(room, wall)`. The listed
invariants are not inductive alone. That deadlines are natural numbers needs
`ClockFits`: the total of earlier pauses is at most the start of the present one,
and that is at most wall time, and a running room has no pause owner. That scores stay
bounded needs the score of a round to be outstanding exactly while it may still
be paid (`ScoreFits`, `RoundsPaid`). That the leaver takes the pause along needs the
owner to have been in the room (`HoldFits`).

**The argument.** Handlers are compositions, so the proof follows the operators
instead of the actions. A step of a room record is *quiet* when it keeps `RoomOK`, the
reading of the clock and the round counter, and moves the round forward or drops it;
it *opens* when it ends with a fresh round running. Every operator has one lemma saying
which; `QuietThenSound` composes a quiet operator with one that opens, and
`ClearPause`, the roster and control operators and `progressRoom` are all quiet.
`PlayerStepSound`, `DriverStepSound` and `StepSound` have one step per action.

**The two action properties.** `NoSilentTakeover` needs to know who may change the controls. Operators
that start or move rounds leave roster and controls alone (`Undisturbed`); the others change
them in one of the ways `Consented` lists, with one lemma per operator. `PauseFreezesTimers`
compares one round before and after a step, so that the same number has to mean the same
round: numbers never exceed the counter (`Counted`) and every start takes a new one
(`Restarts`, `SameNumber`). `Calm` then says that a timed phase of a held round is left only when
its deadline had passed on the clock that stands still.

### 4.1 The sessions

`RoomSessionsProofs` proves `SessionTypes`, `SessionsAlwaysResume`, `OnlineIsReachable`, `HostIsLive`,
`RoomsAreLimited`, `ActiveRoomsStay` and `ReachableStay`: the type invariant, the four invariants
and the two action properties of `room_sessions`, for every set of sockets, devices, players and codes, hosted or
local, with or without a primary code. The assumptions are the constants' own and `SessionConstants`: codes are
finite. `Habits` is any set: retried creation and joining elsewhere are covered.

With either habit a socket may be given a second room while it still names a first one, whose host or
player the code then loses track of; 3.3 and 3.4 describe that as a fault of the code. Such a socket has `roamed`,
and `OnlineMeansReachable` and `HostSocketIsLive` are about the others. What the theorems show beyond
the run is that the damage ends there: sessions, limits, rooms in use, present players and every
other socket are as they should be. The invariants were checked by TLC with both habits before they were
proved, on 585,178 states (three sockets, one room) and 711,884 states (two rooms, two sockets); these are too
large for a run of the project.

The invariant is `wall \in Nat` and `Sound(server)`. The listed invariants speak of what is visible;
that they survive the next event needs the rest of the four tables to agree. `IdentityFits`:
a socket's identity and, unless it has roamed, its Socket.IO rooms name one room and one player. `SeatFits`: a seat's
presence, socket, grace window and session say the same, and its room is open. `HostFits`: the
screen of a room is a live socket that says it hosts that room, if it has not roamed. `DevicesApart`: in one room a device has one
seat, without which a join would take over an arbitrary one. Each operator on the tables has a
lemma that it keeps `Sound`; a socket nobody counts on (`Quiet`) may change freely
(`QuietSocket`), and removing a player or closing a room makes its sockets quiet first.

### 4.2 The phone's session

`PhoneSessionProofs` proves `DevicesSitOnce`, `Spec => []OneSeatPerDevice`, for any number of seats, devices, rounds,
losses, timeouts and messages, without assumptions. A seat is taken by joining and resuming
alone, in the name of the device in the request. The invariant is that every request on its way names
a device (`Requests`), that the phone has one or can make one (`Named`), and that whoever has a seat is a device
(`SeatsFit`). It says nothing of the messages to the phone: whatever they are, and in whatever order they come,
the phone asks with a device of its own afterwards.

`PhoneSeatProofs` proves the other invariants of the run `phone_session`, again for every value of the
bounds, which `SessionBoundsFit` assumes to be natural numbers:

| Theorem | Statement |
|---|---|
| `PhoneTypeOK` | `Spec => []TypeOK` |
| `EndedSessionsStayEnded` | `Spec => []EndedStaysEnded` |
| `SettledPhonesAreSeated` | `Spec => []SettledPhoneIsSeated` |
| `SettledPhonesShowTheRound` | `Spec => []SettledPhoneShowsRound` |

The three properties speak of a phone with nothing under way. That they hold then depends on
everything that is under way before, in what order it comes, and on both sides of the
connection, so that the invariant `SeatIInv` is mostly about the lines:

| Part | What it says, and why it is needed |
|---|---|
| `Types`, `PhoneFits`, `AsksFit`, `RoomFits` | the phone's flags agree with what it has stored; requests are numbered, and a retry gets a number nobody has |
| `UpFits`, `DevicesFit`, `JoinsAlone` | what the phone asks is in the name of the seat it has or of one that is gone, so that a late request cannot take another seat; a phone that joins has nothing to resume |
| `DownFits` | what seats the phone speaks of one seat, its own; either the server has it there, or a message that says otherwise is behind |
| `LineFits` | the order of the line: nothing seats a phone behind the end of its session (`Sealed`) or the refusal of its resume (`Refusing`), and news follow whatever seats it (`Told`) |
| `EndedFits` | nothing under way would store an ended session again |
| `PendFits` | on a connection that lives, an answer that is awaited, or the request for it, is under way |
| `NewsFit`, `Settles` | news reach whoever is in the room, and the last of them are of the present round (`Newest`); a phone with enabled controls has its seat, or hears that it has not |

TLC checked the parts on 1,706,401 states before they were proved. Each step of the client and of the server is first
described field by field (lemmas `...Does`), and one lemma per action and part (`...Keeps`) then says
that the part survives. `Handle` is split by request and by the four ways the server answers it; what
all answers have in common is proved once. `DevicesSitOnce` is used where a device takes its seat again.
What a recovered connection has kept of its line is `OnlyEventsStay`, which says which messages stay and that they stay
in order: the library's `SelectSeq` is recursive and would hide this from the provers.

### 4.3 The stream to the screen

`HostStreamProofs` proves `StreamTypeOK` and `PatchBaseIsRight`, `Spec => []TypeOK` and
`Spec => []PatchBaseIsShown`, for every set of games with fitting manifests (`ManifestsFit`) and every bound
(`StreamBoundsFit`). What the screen shows after n messages is a recursive function over the line. No induction
over the line is needed: a *course* (`Follows`) is any function that goes with the messages one by one, and the
invariant says of every course where it leads (`Leads`), so that sending makes courses one step longer and delivering one
step shorter. That there is a course from everywhere (`HasCourse`), without which this would be empty, is part
of the invariant too.

The invariant has two more parts, since a screen that returns to the catalog forgets its game at once when
its room shows no running round. Wherever the room on screen says so while a round is running, news of
the round are on their way (`Told`) with a full state behind them (`Recovers`), from which every course leads to the
remembered state whatever was shown before (`Settles`).

### 4.4 The pages

`PageProofs` and `WorkProofs` are about the modules one by one, as `Pages` instantiates them:

| Theorem | Statement | Invariant |
|---|---|---|
| `OneTrackIsHeard` | `[]NothingPlaysOn` | the property with the context of a page that is left |
| `LocksAreGivenBack` | `[]NoLockLeaks` | no request is pending while a lock is held (`LockApart`) |
| `ClockIsBounded` | `[]ClockErrorBounded` | a sample on its way was asked in the past, and what it brings lies between its question and now, less the drift (`InFlight`) |
| `PhoneSleeps` | `[]PhoneMaySleep` | one request and one lock at a time unless `raced`; a video after leaving came of a late refusal |
| `PhoneWakes` | `[]PhoneStaysAwake` | a lock that is kept is honoured or its end is announced; without one a request is out or the video plays |
| `PhotoIsRight` | `[]PhotoIsOfThisTask` | what is still compressed under the present id was picked for this task |
| `CarRests` | `[]CarComesToRest` | the game has React's state, which only a render and then an effect that are still to come keep apart from the committed state and the ref (`Synced`); disabled controls are `Still`; fingers the page listens to hold what the game has, unless `lagged` |
| `MenuHoldsTheRound` | `[]HoldHasItsMenu` | behind a closed menu every hold on its way has a resume behind it, and one that is on has its resume on the way (`HoldEnds`), unless `strayed`; a connected phone was last sent the room as it is (`PhoneIsTold`) |
| `ChoicesAreGentle` | `AssignmentIsGentle` | the types; the argument is about dealing, below |
| `DrawingSettles` | `[]StrokesSettle` | where the inputs on their way lead the board (`RunFits`), below |
| `SearchIsShortest` | `[]WaysAreShortest` | none: the search is shown to be right for every board, below |
| `PlanningFits` | `[]PlansDoNotClash` | a draft goes with every plan of another slot, and what is on its way is alone and was made from such a draft (`PlansFit`), unless `clashing` |
| `MusicTypeOK`, `LockTypes`, `ClockTypeOK`, `PhoneLockTypeOK`, `ThumbTypeOK`, `PhotoTypeOK`, `SteeringTypeOK`, `MenuTypeOK`, `SetupTypeOK`, `DrawingTypeOK`, `ArenaTypeOK` | `[]TypeOK` | for the music that no more `resume()`s are awaited than there were touches; the invariants above for the photo, the pad, the menu, the locks and the drawing |

`PagesProofs` shows that each module keeps behaving by its own specification among the others
(`MusicAmong` and its likes): it starts in one of its initial states, and a step of another part leaves it
alone. From that follow the invariants and the action property of the run `pages`:

| Theorem | Statement |
|---|---|
| `PagesTypeOK` | `Spec => []TypeOK` |
| `PagesLetGo` | `Spec => []PageLetsGo` |
| `PagesKeepWork` | `Spec => []WorkIsKept` |
| `PagesTellTheTime` | `Spec => []ClockErrorBounded` |
| `PagesAssignGently` | `Spec => AssignmentIsGentle` |

Assumed is what the named assumptions of `Pages` say: the limits of the clock are numbers (`ClockConstants`), "no choice"
is not an option and games declare what a manifest can say (`SetupConstants`), a board takes a point at
least (`DrawingConstants`), the board of the arena is finite, its fields are pairs of numbers, and figures stand on
it (`ArenaConstants`), and bounds are numbers (`BoundsAreNumbers`). The number of players, strokes, points, slots, figures
and fields is arbitrary.

**Recursive functions.** Dealing, searching and walking are recursive functions, and an induction theorem of
the library cannot be used for them (4.5). `WorkProofs` goes around it: a set of numbers has a
smallest one (`Smallest`, from the well-foundedness of `<`), so that a *set* with 0 and with the successors of its numbers has
all (`SetInduction`). First that set is the lengths for which there is a function with these equations (`TurnsExist`),
which makes the CHOOSE behind the definition that function (`TurnsAre`); then it is the numbers for which the invariant of
the loop holds.

**Dealing.** The invariant of `BalancedAssignments` is `Fairly`: whoever is served has an option, whoever had one
still has it, and no option a player was served with is more than one ahead of any other.
`HandedFairly` is one turn of the loop.

**Drawing.** The board, the inputs on their way and the phone's own layer are three places of one drawing. A *run* is the
sequence of boards the inputs on their way will lead through; that there is one belongs to the invariant. `RunFits` says of it
that strokes come in order (`Orderly`), that its last board is the drawing less what it refused (`Ends`), that no stroke
gets shorter on the way there, and that the phone keeps a stroke on its own layer until the board and its last snapshot have it
complete (`Grows`). A pen that sends makes the run one board longer, a board that takes an input makes it one shorter. `lost` and
`turned` excuse what an outage or a turn of the phone took away.

**Searching.** A search in its course (`Searching`) keeps a queue in which the lengths of the ways never fall and differ by one
at most; every entry is a way over open fields that touch, and none is shorter (`Led`); every field that was expanded has
its open neighbours in the queue (`Expanded`); so that what can be walked to in n steps has been seen once all entries
shorter than n are expanded (`Covers`). As no field is queued twice, the queue has no more entries than the board has fields, which
is why `Cardinality(Board)` turns are enough (`SearchEnds`).

### 4.5 Only model-checked

Liveness is out of the prover's reach: `OverdueHandoverCompletes`, `OverduePhaseEnds`, `GraceEnds`,
`AbandonedRoomGoes`, `ExpiredRoomGoes`, `SettledRoomIsShown`, `RunningRoundIsShown`, `SessionComesBack`,
`GameFollowsThumb`, `PagesComeRound`; so is ENABLED, and with it the absence of deadlocks. The theorems of
the library that take an operator as a parameter (`NatInduction` and the like) cannot be instantiated by the
provers; induction is possible where its hypothesis can be stated as membership of a set, as in 4.4. Every
invariant and every action property that a passing run checks is also proved.

## 5. Not modelled

* **Presentation.** Styles, texts, themes, translations, the UI kit, card art, the catalogue and the
  lobby pages: the larger part of the user interfaces, without state of its own. It is also
  most of the lines no definition maps to.
* **Other layouts.** Word tiles, tower defence, card hands, spells, shops, quizzes and the chaos game keep a
  selection or a draft that one handler changes and the next snapshot's `resetKey` clears. The hold buttons of the
  D-pad family and the charge of the chaos game follow the pattern of `SteeringPad` without its effects.
* **Overlays.** Fullscreen, debug and join overlays, and the host's controls overlay, show what the
  clients hold.
* **Server edges.** Configuration, HTTP, static files, logging, the event guard and the loading of game packages.
  A handler is assumed not to throw half-way.
* **Of modelled parts.** Multi-select setups and `selectedCharacterId` of a player's setup; strokes on a photo and
  automatic readiness of the photo task; guessing; cards of the arena other than sprint, its sequential
  mode and swaps; the phones' own throttle of states, which is the same code as the screen's; the two
  minutes after which Socket.IO forgets a lost socket (3.2); a local server with two rooms at once.
* **Tools.** Scripts, motion labs, the website and the release build run beside the system.

### What could come next

An abstract specification of a stream (the screen shows some earlier state of the round and
catches up) that `HostStream` refines; the two
hold-and-release families of phone controls in one module; `HostStream` and `PartyRoom` composed, so that the
rounds of the one are those of the other.
