# pymux: a TLA+ verification project

pymux is a terminal multiplexer in Python: one server process owns the panes
and their programs, and clients attach over a Unix socket (or over ssh, or from
a browser). Almost everything runs on one event loop (anyio), so a handler runs
without interruption up to its next `await`. What is hard to test is what
happens *at* the awaits: cancellation, a client that goes, state that was read
before an await and used after it, and callbacks of programs that end later
than the command that killed them. That is what these modules are about.

Paths below are relative to `src/`; `core/`, `connection/`, `commands/`,
`pipes/` ... are below `src/pymux/`.

## Inventory

| Part | State it keeps | Operations | What is hard | What makes it correct |
|---|---|---|---|---|
| **Turns of a connection** `pipes/base.py` | `_held`, `_urgent`, `_waiting` (queues of events) | `_acquire(urgent)`, `_release`, the `turn` context | a turn handed over to a writer that is cancelled before it runs | one writer at a time; a turn is never lost; queue order, urgent first |
| **Socket connection** `pipes/posix.py` | `_closed`, `outstanding`, `_empty`, `_compressor` | `write`, `_send_all`, `drained`, `close` | cancellation in each await; a slow client; the change of the stream to zstd | exact backlog, no sleeper forgotten, whole packets, one form at a time |
| **Server side of a connection** `connection/server.py` | `client`, timers, the tasks of the connection | packet handlers, `serve`, `send_packet`, `write_packet`, `say_restarting`, `watch_liveness` | inline writes against spawned ones; a ping behind a parked send; another client's command writing here | packets in order; a dead client is dropped (its `watch_liveness` is in `Relink`); the end of `serve` ends its tasks |
| **wait-for channels** `commands/wait_for.py` | per channel `woken`, `locked`, `waiters`, `lockers` | `-S`, plain, `-L`, `-U` | clients that go while they wait; upgrades | no lost signal, one holder, first come first served |
| **Pane life** `core/panes.py`, `core/main.py` | `sessions`, `_killed_in`, `panes_by_id`, the windows of each session, programs | `create_window`, `add_process`, `kill_pane`, `kill_session`, `done_callback`, `remove_session`, `hang_up_and_stop` | the end of a program comes after the kill; commands that await a start | an empty session goes; clients are on listed sessions; no program taken out of reach and left running |
| **Arrangement** `core/arrangement.py` | `windows`, `_unlinked_windows`, per client active window and history | create, move, swap, link, unlink, remove, renumber | several clients moved by one step, each by its own history | an index names one window; nobody looks at a window that is gone |
| **Pane tree** `core/window_tree.py`, `splits.py` | splits, weights | split, remove, rotate, layouts | nested splits | every pane once |
| **Frame pacing** `connection/pacing.py`, `frame_holds.py`, `client_state.py`, `lookups.py` | `unread`, `answers_reports`, `frame_held`, the holds and their wake-ups | a redraw is skipped or drawn, a report is answered, a hold ends | every skip forgets that a frame was asked for; late or missing answers | a screen that is behind has somebody who asks; no backlog; the newest screen is drawn in the end |
| **Window panes** `wayland/wayland.py`, `graphics/window_frames.py`, `mirror/window_source.py` | the pacer's viewers; per client `_shown`, `_places`, `_pending`, `_again`, `frames_out`; per peer the frame on its way | commit, refresh, redraw, update, answer, give up, mirror, pause, stop | a pane leaves the view and comes back during an update; viewers that are slow, gone or never answer | an edit fits its image; the server knows the picture; the program gets its frame callback |
| **Requests to a terminal** `connection/requests.py`, `replies.py`, `lookups.py`, ... | questions that wait for an answer | ask, answer, time out | an answer after its timeout | an answer reaches its own question |
| **Jobs** `jobs/`, `commands/run.py`, `wait_job.py`, `tail_job.py`, `kill_job.py`, `view_job.py` | `_jobs`, `last_id`; per job `status`, the tails, `waiters`, `followers`, `kill_requested` | submit, supervise on pipes or a terminal, pump, wait, follow, view, kill, sweep, forget past the cap | a kill before the start, a dropped hint, an exit before the output is read, a sweep against a waiter, a client that goes with its job | the waited stay; nobody sleeps over output or an end; a done job's output is complete; a job somebody ended gets its signal |
| **Upgrade** `core/upgrade.py`, `core/snapshot/` | the snapshot file and its two names, `refusing_commands`, what is paused and hung up | check, tell, sweep, pause, write, answer, exec, resume, roll back | a step that fails after others were done; panes that open and close meanwhile; a second upgrade | what was read is on a screen; every program is in a pane; a refused upgrade serves on |
| **Client and relink** `client/relink.py`, `ssh.py`, `posix.py`, `mirror/peer.py` | `restart_wait`, `hang_up_asked`, `slept_through`, the backoff | dial, hold, close, count down, dial again, wait for a restart, leave | a new link while the old one is open on the server; a sleep; an end that can mean a detach, a restart or a lost network | who lost a link gets one again or leaves; a hang-up and a detach are final; ghosts are let go; nobody is left untold of a restart |
| **Mirror** `mirror/` | at the peer what it told (`Told`), its sinks, what it shows; at the owner the sources and the queue of the link | see, focus, ask, pause, resume, stop; send trees and frames; dial again and say it all again; requests | what is said before the owner can hear it; a link that goes with what is on its way; pause and resume around a queued frame | the owner streams what is seen; a frame fits its page; the newest page is shown in the end (window frames: above) |
| **Notifications** `notify/` | subscribers | publish, mute | little concurrency | each once |
| **Rendering, keys, options, format, style, graphics** | widgets, tables | pure functions of the state | none of concurrency | golden tests do this well |
| **Wayland, web, libpymux, pymux-mcp, Rust kernels** | bridges | translate | their own processes | outside this project |

How they interact: a client's packet is handled by its `ServerConnection`, which
calls a command; the command changes the `Pymux` object (sessions,
arrangements, panes) and calls `invalidate`, which makes every client's
application draw; what it drew goes through pacing to the socket connection.
Programs end in callbacks (`done_callback`). Clients that go cancel the task
group of their connection, and with it every command it was awaiting.

## Modules

| Module | Models | Role |
|---|---|---|
| `TurnSpec` | what a lock with an urgent class promises | abstract specification |
| `Turns` | `pipes/base.py`: the queues of events, hand-over, cancellation | refines `TurnSpec` |
| `SocketConnection` | `pipes/posix.py` and the callers that matter in `connection/server.py` | extends `Turns` |
| `WaitFor` | `commands/wait_for.py` | component |
| `PaneLife` | `core/panes.py`, sessions in `core/main.py`, the window commands as far as programs are concerned | component |
| `WindowOrder` | `core/arrangement.py` and the window commands as far as order and focus are concerned | component |
| `Jobs` | `jobs/table.py`, `jobs/job.py`, `jobs/pipes.py`, `jobs/feed.py` and their commands | component |
| `Pacing` | `connection/pacing.py`, `connection/frame_holds.py`, `should_skip_render` with what it asks, and who holds frames | component |
| `WindowFrames` | a window pane: the pacer of `wayland/wayland.py`, the updates of `graphics/window_frames.py`, the frames that `FramePacing` counts, `mirror/window_source.py` | composition of the four |
| `Upgrade` | `core/upgrade.py`, the snapshot file of `core/snapshot/write.py`, beside panes that open and close | component |
| `Relink` | one attachment over its links: `client/relink.py`, `ssh.py`, `posix.py`, the link of `mirror/peer.py`; at the server `watch_liveness`, detach and hang-up of `connection/server.py`, and how `core/upgrade.py` and `commands/kill_server.py` tell of a restart | composition of both ends |
| `PageSpec` | what a mirror promises of the pages it shows | abstract specification |
| `Mirror` | a mirrored pane at both ends of its link: `Told` and `RemoteProgram` of `mirror/peer.py`, `program.py`, `sink.py`, `tree.py`; `mirror/link.py` and `source.py`; what `core/focus.py` tells | composition of both ends, refines `PageSpec` |
| `LockProofs` (of `Turns`, `SocketConnection` and `WaitFor`), `PaneLifeProofs`, `OrderProofs` (of `WindowOrder` and `Mirror`), `JobsProofs`, `PacingProofs`, `WindowProofs`, `UpgradeProofs`, `RelinkProofs` | theorems | proofs |
| `MCSocket`, `MCWaitFor`, `MCPaneLife`, `MCWindowOrder`, `MCJobs`, `MCPacing`, `MCWindowFrames` | instances; `Upgrade`, `Relink` and `Mirror` need no definitions and are checked as they are | TLC |

### Turns and SocketConnection

`held`, `urgent`, `waiting` are the fields of `Turns`; an event in a queue is
the writer that waits on it. `pc[w]` says where the writer's coroutine is: it
queues, it was handed the turn (its event is set, it has not run), it writes,
or it is out. `AcquireFree`/`AcquireHeld` are the two ways through `_acquire` up
to its await, `Wake` is the rest, `CancelQueued`/`CancelHanded` its `except`
branch for an event that is still queued, or was set already; `Leave` is the
`finally` of `turn`.

`SocketConnection` adds the connection: `Write` is `write` up to the turn with its
early returns, `Refuse` the slow client that is closed, `TakeIn` and `Sent` the
two ends of `_send_all` (a packet partly in the stream, and whole), `Fail` the
error path through `write_encoded`, `Cancel...` a cancellation at each await,
`EndScope` the end of `serve`. A writer is either a task of this connection,
cancelled only when the scope ends, or a *visitor*: the command of another client that
awaits `say_restarting` here and may be cancelled at any time. `drained` is the
`Drain...` actions. Packets are sizes; the content of a packet is its form,
plain or in the zstd stream.

### WaitFor

One record of four fields per channel, as in the code; `client` is what each
script knows, `granted` a history of who was told that it has a lock. A client that goes
leaves its event where it is: the code awaits the event with nothing in a `finally`.

### PaneLife

A session is listed (`sessions`), was made at some time (`named`), and has an
`order` and a `pen` of windows; a window holds `panes`. A program is starting,
running, hung up (SIGHUP sent, SIGKILL due after the grace) or ended. `making`
holds the commands that await `terminal_control.start` together with what they
read before: the session, the window, or the pane to replace. A respawn holds no session but the client that asked:
`replace_pane` searches the session which is current when the program runs (`CurrentFor`), the one that its client is
on by then, or the one used last when the client is gone or nobody asked. `ProgramEnds` is
the whole `done_callback` with `take_ended_pane`, `end_if_empty` and
`remove_session`; a kill is `KillPanes`, which leaves the end of the session to
that callback. `kill-window` handles its panes in one step; which of them was
the last decides whether the session is ended at once, so the last is chosen.
`MoveWindow` is `move-window` to a free index and `MoveOnto` the one with `-k`: the panes in the way are killed, then
the window moves, in one step.
`asked` is a `hang_up_and_stop` task that has not begun, `server` the rest of it.

Two histories state what the code leaves behind: `stranded` (sessions emptied
by a move, or by the kill of a job's viewer, which calls nobody back) and `late`
(sessions that were gone when their window was ready, panes whose place was gone, or was not looked for, when
their program was ready). They are read by properties only.

Whether `terminal_control.start` lets other tasks run depends on ptterm, which is
not in the repository. `Suspends` says so; the passing run takes TRUE, the
worse case, the violations FALSE, so they do not depend on it.

### WindowOrder

The arrangement of one session as it is: `windows` is the list, sorted by
`index`; `active`, `history` and `lastActive` are the three focus fields. A pane
is not modelled: every window has one, so `Close` is `remove_pane` of it. The
other sessions are outside: `MoveAway` gives them a window and `Link` takes one
that is in no order here.

### Jobs

A job's `phase` follows its supervise: submitted (recorded, the task has not
run), starting (the terminal's `start` is awaited), running (it has a
`backend`), done, or cut (done because the supervise was cancelled). `program` is the
process. `inline` are the jobs whose supervise is the command of a client
(`run -w`), so they end with it (`GoAndCut`). Output is offsets: per stream what is
still `unread` in the pipe and what has `landed`; `Pump` is a read and `land`,
`Over` the end of the task group of the pumps and the reap.

A client that `waits` sleeps on the job's event; one that `follows` (a command)
or `views` (a pane, `JobFeed`) sleeps on its queue of hints. `hints` counts
the wake-ups on their way to it: one handed to the sleeper, one in the queue,
and `poke` drops the rest. `opens` is a viewer between `start`, where it counts
as a waiter, and its task's first run, where it gets its queue. `stop` is the
timeout that passed while a hint was on its way, or the pane that was closed.

Left out: tags and saved queries, the cap on the tails (offsets never move, so
a follower skips what was dropped), `\r\n`, and the pause of reading for an upgrade.

### Pacing

One client. prompt_toolkit, which asks for redraws, is outside the repository:
`Ask` is its `invalidate`, `redraw` is where that stands, `Schedule` the callback
that pymux hangs on it (`client_asked_for_frame`). `dirty` says that the terminal was
not sent what it should show. `Redraw` is one of five: the three skips of
`should_skip_render` for stale input, for a hold and for a terminal with unread
frames, the skip for bytes that pile up in this process, and the frame. A hold
is "on", "late" when its deadline passed, or off; `wakes` are the tasks of
`_wake_after` that sleep, one for each time the key was held, so an old one may come
first. `results` is what a hold waits for: the two lookups of a command line
(released by `Lookups._ended`) or the page of a mirrored pane (found by `waiting`
alone). `unread` are the reports that the server believes open, `wire` those that
the terminal really did not read: the two differ when answers are on their way, which is
what `NoBacklog` is about.

### WindowFrames

A frame is its serial. `Commit` is `window_pane_drew` for every client and
peer. `_pace` waits for a frame shown (`PaceBegins`), then for the first viewer that took
it, and answers the frame callback (`PaceEnds`). Of a client, `looks` is what its person
looks at, `drawn` and `placed` what the last frame and `_places` hold, `held` is
`_shown`, `image` what is on the terminal, and `job` its `_pending` update: at
`frame_room`, reading the frame, or sending its parts. `left` and `cut` are the two ways
an update finds out that its image is gone (a departure, a `reset`). A peer's
`links` record is its `MirrorWindowSource`. A client's answer may be late (`owed`), may be
given twice (its own `frame-shown` and the terminal's), and may never come (`GiveUp` is
FRAME_ANSWER_SECONDS). `refreshed` says that a `refresh-client` came, because two
properties hold only before it (see Findings).

### Upgrade

Programs live beside the server: they write and end whatever it does, also
during the exec. A pane is in the making (`create_pane` awaits), listed, or
hung up. `at[a]` is the await that an `upgrade` is in: stopping sound and portal, `_check` of the
new build, telling the clients, the sweep of what is hung up, the answer to the caller. What
lies between two awaits is one step, so the pause, the second write and `finish` are one
(`PauseAndWrite`), as the code's own comment demands. `partial` and `path` say whose file
a name leads to. `Fail` is a failure at an await, `FailPaused` one of the second write.
`Resume` is the new image, which knows the file and nothing else. `late` and `flight` name
what the code gives up on: what outlived its SIGKILL for KILL_TIMEOUT, and panes
whose `create_pane` had not answered at the pause.

### Relink

A link is a numbered pair of ends. `kind` says which client it is: over ssh (`hold` of
`relink.py` dials again), at a unix socket (`posix.py` tries again for a restart only), or a peer
that mirrors panes (`hold` again, but every link starts anew). `at` follows the attachment: held,
closing (the end was seen, the process or channel is being closed), counting down, trying, out.
What the server sent and the client did not read is a set of flags (`pipe`), because the client
reads all of it before it sees the end; `fin` says whether the stream goes on, ends cleanly or carries
nothing. The end of a link is read as `hold_one` reads it (`EndsOnPurpose`, `Restarting`), with the sleep watch
over it (`slept_through`).

At the server a connection is open until it reads the end, is closed by a command, or `watch_liveness`
drops it. `parked` is a send that waits for room, and `pinging` a ping that waits behind it; a peer's
ping goes through the queue of its link instead. The answer to a ping is at the server once the client read it. Servers restart in the two ways
there are: an upgrade tells while it listens, and may be rolled back; `kill-server -r` closes the listener first.

`detached` and `napped` are histories that properties read: a detach is noted only while no restart
runs, since one that comes in the middle of the telling may rightly be read as the restart.
Left out: the times of the backoff and when it is reset (`STABLE_LINK`), clients too old to answer pings, a refusal by the
owner of a mirrored server, and a peer reached over anything but ssh.

### Mirror

One server (the peer) mirrors panes of another (the owner). `peer.told` are the keys of `Told` in their
order; `Say`, `Again` and `Forget` are its methods, and a handler works on a record of the peer and of what it said so
far, which `Done` sends or, with no link, drops. `Seen` and `Unseen` are the two halves of `RemoteProgram._stream`, `Kill` its end with the pane;
`Do` and `InTurn` are the loops of `sync_sight`, `sync_panes` and `_update_panes`: one deed after another, for the panes in a fixed order. `TakeTree` is a tree with
the `invalidate` behind it, in which clients look at what there is now. `Dial` is `_hold` with its `replay`.

`owner` is the `PeerLink`: the trees it sends, its queue, and the refusals that wait for a task of their own. A source has
the flags of `MirrorSource`, and `sent` is the page its `GridWriter` knows the peer to have: a frame goes out as the pair of that
page and the new one, and `Laid` is what it leaves on the page that is shown: the new one, or a mix of two (`Mixed`) if that page is not the one it was drawn against. The packets in `down` are those that the socket took or is taking (`Room`); a frame is built when the writer is free
for it, but the answer to the hello is on the line at once: in the code a refusal may pass it, which the peer takes for a server too old and
ends the link. A page is its version. `Refuse` may overtake what is queued, as `send_packet` writes from a task of its own.

The backoff and the end of a link are in `Relink`: here a link goes at any moment, at both ends at once. Sizes and
the terminal are told as `watch` is and left out with copy mode, input, files and Wayland panes.

## Runs

| Run | Instance | Shows |
|---|---|---|
| `socket` | 3 writers (one a visitor), 1 drainer, sizes 1 and 2, limit 2 | `NoTurnLost`, `Backlog`, `NoDrainerForgotten`, `StreamInStep`, `OwnPacketsWhole`, `InOrder`, refinement of `TurnSpec`, `UrgentGetsTheTurn` |
| `wait_for` | 3 clients, 2 channels | `NobodyWaitsInVain`, `OneHolder` |
| `panes` | 2 sessions, 2 windows, 3 panes (one a viewer), 1 client, `remain-on-exit` in one session | `OnePlace`, `LookedAtIsListed`, `TakenOutIsHungUp`, `EmptySessionsGo` |
| `order` | 3 windows, 2 clients, indexes 0..3 | `UniqueIndexes` (the list is sorted, and no index is used twice), `LooksAtListed`, `OnlyOwnFocus`, `ClosingReturns` |
| `jobs` | 2 jobs (one on pipes, one on a terminal), one byte, a command and a pane, one finished job kept | `NobodySleepsThrough`, `WaitedStay`, `AskedToEnd`, `OutputIsComplete`, `InlineHasItsAsker`, `EndIsTold` |
| `pacing` | a command line and a mirrored pane, frames of 2 bytes, limits of one frame or of 3 bytes, 3 open reports, 2 wake-ups of a key, 2 disturbances | `NoBacklog`, `NewestIsDrawn` |
| `window_frames` | 1 client, 1 peer, 2 commits, 3 switches (one beside a peer), 2 answers owed | `PictureInStep`, `EditsFit`, `LetGo` |
| `upgrade` | 2 programs that write 2 each, one upgrade at a time, as often as it likes | `NothingLost`, `NobodyLeftBehind`, `ServesOn` |
| `upgrade_twice` | 1 program, 2 upgrades | violated: `NothingLost` |
| `relink` | 1 client of each kind, which may sleep, 2 links, 1 missed ping, servers that restart as often as they like | `HangUpIsFinal`, `GhostsGo`, `ComesBack`, `LeavesNobodyUntold` |
| `relink_detach` | the same, nobody sleeps | violated: `DetachIsFinal` |
| `mirror` | 1 pane of 2 pages, 2 links, room for 1 packet, 2 unread packets before clients look elsewhere | `OwnerFollows`, `ShowsItsPages` (refinement of `PageSpec`), `NewestIsShown` |

Why the bounds are enough. `socket`: three writers are the first number at
which one writes, one was handed the turn and one queues, in both queues; two
sizes around the limit reach a refusal with and without room left. `wait_for`:
a holder and two lockers show order; a second channel shows that a client in
one is not disturbed by the other. `panes`: a session to lose and one to go to,
a window with two panes, one program to start while another ends; a third
program or window adds no new pair of steps, at most one start is awaited at a
time (`MaxMaking`), `kill-server` is typed while the server runs, and panes and sessions
are not named again after they ended. `order`: with three windows a client has
a current window, one it left and one it did not; one spare index leaves a gap
to close and a place to insert at. `jobs`: with two jobs one can finish while another is
waited for, which is what the cap and the sweep choose between; a byte can come
to either stream of either job before and after a follower slept; a third hint
is dropped, and start, end and close of the pane give three. `pacing`: both limits, each
reached by one frame and a flush that is no frame; two kinds of hold, since one is released and the
other found over; two disturbances hold again while the old wake-up sleeps, or change the limits
under open reports. `window_frames`: a frame beyond the first, so edits exist; hide, show and
hide again (or a refresh among them) is the shortest way to an update whose image was deleted and made again; a peer
shares with the client only the pacer, so with it one switch is left (`MCInit`). `upgrade`: one
program is closed while the other is opened, and each is read before and after a write. `relink`: with two links one can be held while the other is a ghost at the
server, and an older number is free again when both ends forgot it; attachments share only the server's phase, which moves as if others were
there. With `Misses = 2` the safety properties hold too (about 820,000 states).
`mirror`: two pages tell an old frame from a new one, the second link starts from whatever the first one left, and with two packets unread
a pause, a resume and a focus can be said while the first of them is on its way. Panes share the queue and the order of what is told: with two panes of one page, one link and one
unread packet, the two safety properties hold too (about 6,240,000 states, without the liveness); and with `Room = 2` all three hold of the pane.

What the instances leave out, on purpose:

* `panes` takes `AcrossSessions = FALSE`: nobody uses `move-pane -s %id` on a pane
  of another session than their own. It also takes `GlobalRemain = FALSE`, and
  `OntoTheLast = FALSE`: `move-window -k` does not take the last pane of a session when its program ended before.
* `jobs` takes `Refuses = FALSE`: nobody is refused after the submit.
* `order` takes `MayEmpty = FALSE`: the last window of the session stays. When the
  session is emptied and gets a window again before it ends (a `new-window` while the killed program
  still answers its SIGHUP, or after `move-window` of the last one), a second
  client keeps looking at the window that is gone. `LinksOnTaken = FALSE`:
  `link-window -t` to an index in use gives two windows one index.
* `upgrade` has one upgrade at a time; `upgrade_twice` is the other case.

The other case of each is a known disagreement, and the constants exist so that it can be looked at with the
same module: see "Looked at by hand" below.

Symmetry is used in `order` only, which has no liveness property.

CHECK_DEADLOCK is FALSE where the system stops: a connection that is closed
and whose writers left, a server that is done, a new image that crashed, jobs whose number is bounded (ids go on for ever in the code),
and frames and disturbances whose number is. In `order` it is FALSE because
the bound on indexes may leave no step; a real session always has one.

Two invariants that the runs do not list are theorems: `NothingForgotten` and `WindowTypeOK` hold for every instance.

## Fairness

* `SocketSpec`: a writer whose event is set runs (the loop runs what is ready);
  a writer that has the turn gets on, because the far end reads, or its socket
  fails. A far end that neither reads nor fails is what `watch_liveness`
  exists for: `Relink` models it.
* `WaitFor`: a client that was answered goes on.
* `Jobs` (`FairSpec`): the loop runs what is ready, that is a supervise whose start or
  task group is over, a waiter whose event is set, a follower or viewer with a hint.
  Nothing is assumed of programs and pipes: a job may run for ever.
* `Pacing`: the loop runs a redraw that is scheduled, a sleep ends, a deadline passes, and a
  terminal that is there reads. It may go quiet for good. Nobody is bound to type, to
  change anything, or to finish a lookup: a hold ends by its deadline.
* `WindowFrames`: the loop runs what is ready, a terminal and a peer that are there take their
  bytes, and the wait for an answer ends by its timeout. `Redraw` has strong fairness: a redraw that finds
  the pipe full is repeated after the drain, and a link that takes its bytes is not found full by each one of them. Nobody
  is bound to answer a frame, to commit one, or to switch.
* `Mirror`: both loops run what is ready (read a packet, write what is queued, build a tree that changed, write a refusal), and the peer dials. No link has to
  stay but the last, no frame has to fail, no program to write, nobody to look or to look away.
* `Upgrade`: none, it states safety only.
* `Relink`: the server's loop runs its timers, writes what can be written and reads ends (`Unpark`, `Ping`, `Drop`, `ReadsTheEnd`); a
  client that is awake sees an end, a gap and a dead link, closes, counts down and tries, and its dial fails if
  nothing answers. A dial that is tried for ever while it could be answered is answered (strong fairness of `DialOpens`). Nobody is bound to
  detach, to restart, to park or take a send, to end a sleep, or to read a ping: a client that is silent is what the properties are about.
* `PaneLife`: a start that is awaited is over some time; a stop that was asked for is run
  by the loop and its grace ends; a program that got SIGHUP ends, since
  SIGKILL follows the grace. Nothing is assumed of programs nobody hung up, of
  commands, or of clients.

## Findings

Each is shown by a run whose counterexample TLC prints.

1. `upgrade_twice`: a second `upgrade-server` begins while the first one checks its build. Both write under
   one name, the first execs with the file of the second, written before the pause, and what was read since
   is on no screen.
2. `relink_detach`: an upgrade that fails after it told its clients is rolled back at the server, but the clients keep
   `restart_wait` until a link ends cleanly. The next detach, whenever it comes, is read as the restart, and a
   client over ssh or at a unix socket attaches again. A peer forgets it with each link.

### Looked at by hand

These are disagreements too, each reached with a `.cfg` that is kept here and checks one property
(`tlc -config MCPaneRemain.cfg MCPaneLife`):

* `MCWaitForGone`, `NothingGivenToTheGone`: a signal is given to the event of a client that went while it waited, and is lost
  for the next waiter, though `commands/wait_for.py:12` says that with no waiter the signal is remembered. A lock passes to such a client too.
* `MCSocketTorn`, `NeverInterleaved`: a restart notice cut by its own writer's client going is followed by the
  next packet. The comment in `pipes/posix.py` says that packets are never interleaved.
* `MCJobsSwept`, `WaitedIsKept`: who waits with `run -w` is not counted as a waiter, so the sweep ends
  a silent job under them, which `job-ttl` says it never does.
* `MCPaneRemain`, `EmptyIsOver`: with `remain-on-exit` on in the defaults, killing the last pane of a
  session leaves an empty session for good.
* `MCPaneTwice`, `OnePlace`: `move-pane -s %id` puts a pane of another session into two windows.
* `MCPaneRespawn`, `RespawnFindsThePlace`: `respawn-pane -k -t %id` on a pane of another session hangs up the
  old program and runs the new one in no window. With `Suspends = TRUE` the same comes of a client that switches
  session or goes while the program starts, since the session is read after the await (`respawn_pane.py:55`,
  `view_job.py:51`), and of an old program that ends first.
* `MCPaneOnto`, `TakenOutIsHungUp`: `move-window -k` onto the last pane of a session, which remained after its program
  ended, takes that session off and then moves the window into it: its programs run where no command reaches them.
* `MCJobsRefused`, `InlineHasItsAsker`: `run -w` of an agent submits the job before it refuses; the table says
  that the job runs, nobody runs it, and `wait-job` on it waits for ever.
* `MCWindowGhost`, `NoGhosts`: a pane leaves the view while the parts of its frame are still
  awaited. The redraw deletes the image, the last part then makes it again, and the
  server does not know of that picture.

Six more properties are stated and do not hold; TLC finds each within a minute under the cfg of the module's run:

* `LetGoAfterRefresh` of `WindowFrames`: a `refresh-client` cuts the update that is out. The redraw finds it still
  out, starts no other, and asks for none after it, so the program waits for its frame callback until something else
  redraws.
* `LastFrameArrives` of `WindowFrames`: for a client after the same refresh; and for a peer, when `_send` of
  `mirror/window_source.py` has read a frame that the peer already holds and another one is committed
  meanwhile. It clears `_in_flight` (line 125) and leaves `_again` set, so the newest frame stays behind until the next
  commit is taken.
* `EveryPaneKept` of `Upgrade`: a pane that is in the making at the second write is listed before the exec, and the new
  image, which knows the file only, has no pane for its program.

* `SilentAreDropped` of `Relink`: the docstring of `watch_liveness` says "Drop a client or a peer link that stops
  answering". A client with a send parked is not dropped: its ping is awaited behind that send, and no interval
  passes after it. `GhostsGo` is the same with this exception.
* `EverybodyIsTold` of `Relink`: who attaches while an upgrade tells the others is not told, and takes the exec for a
  detach. `kill-server -r` closes the listener first, and there the property holds (`LeavesNobodyUntold`).
* `FreshIsNew` of `Mirror`: the comment on `stale` (`mirror/program.py:96`) says that the frame which catches the page up has not come. A frame
  from before a pause, still on its way when the pane is seen again, ends it too, so a client stops holding its frames for the old page.

Three things that no property states. `MirrorSink.refused` is never cleared, so a mirror that was refused once and is lent again by a later
link is still `is_terminated` while it shows what the owner streams. A client that does not take its restart notice holds the restart up for as long as its
link stays open: `say_restarting` (core/upgrade.py:121) has no timeout, and with `kill-server -r` the listener is closed by then.
And a sleep that is noticed while a link closes overrides what the link ended with, so a client that was told to hang
up dials again; that is why `HangUpIsFinal` exempts those who slept, although the docstring of `hold` says
that an end on purpose ends it too.

## Proofs

| Module | Theorem | Says, for every value of the constants |
|---|---|---|
| `LockProofs` | `TurnsOneTurn`, `TurnsNoTurnLost`, `TurnsInOrder` | the lock excludes, is not lost, and serves in order |
| `LockProofs` | `TurnsImplementsTurnSpec` | `Turns` implements `TurnSpec` |
| `LockProofs` | `SocketImplementsTurns`, `SocketOneTurn`, `SocketNoTurnLost`, `SocketRefinesTurnSpec` | the connection uses the turns as `Turns` allows, so it inherits all of it |
| `LockProofs` | `SocketStreamInStep`, `SocketOwnPacketsWhole` | the stream changes its form between packets; own packets are whole |
| `LockProofs` | `SocketBacklog`, `SocketNoDrainerForgotten`, `SocketTyped` | the bytes that wait are counted once each, and never pass the limit by more than a packet; who drains waits for bytes that are there; the types |
| `LockProofs` | `LockHasOneHolder`, `LockIsServedInOrder` | one holder; lockers get it in the order they came |
| `LockProofs` | `ChannelsAreTyped`, `NobodyIsInVain` | the types; a waiter has no signal to miss, and a locker waits for a holder |
| `PaneLifeProofs` | `ClientsAreOnListedSessions` | however a session ends, its clients are gone or on a listed one |
| `PaneLifeProofs` | `PanesAreTyped`, `WhatIsTakenOutIsHungUp` | the types; without `move-pane` across sessions and `move-window -k` onto a last pane that ended, no step takes a program out of every window in reach and leaves it running |
| `PaneLifeProofs` | `PanesHaveOnePlace` | without `move-pane` across sessions, a pane is in one window and a window in one session |
| `OrderProofs` | `OrderAlways`, `OrderTyped` | the order is a list sorted by index, with each window once; no client left the window it looks at; the types |
| `OrderProofs` | `FocusIsOnesOwn`, `ClosingReturnsThem` | a step moves two clients only off a window that goes, and a window that closes returns its clients |
| `OrderProofs` | `LookingAtListed` | where the last window of a session stays, every client looks at a listed one |
| `OrderProofs` | `IndexesAreUnique` | where no window is linked on an index in use, the order goes up strictly |
| `OrderProofs` | `MirrorAlways` | the invariant of both ends of a mirrored link, below |
| `OrderProofs` | `OwnerAlwaysFollows` | once the owner has read everything, it lends, pauses and focuses what the peer wants; what it does not lend it refused, and the peer knows or will be told |
| `OrderProofs` | `MirrorShowsItsPages` | `Mirror` implements `PageSpec`: whole pages that the program had, none before one that was shown |
| `JobsProofs` | `WaitedJobsStay` | a job that is waited for, followed or viewed stays in the table |
| `JobsProofs` | `FollowersHear` | no follower or viewer sleeps over output or an end |
| `JobsProofs` | `DoneIsComplete` | nothing is left in the pipes of a job that is done |
| `JobsProofs` | `JobsAreTyped` | the types of table, output and clients |
| `JobsProofs` | `AskedGetTheirEnd` | a job somebody ended was signalled, whenever the kill came |
| `JobsProofs` | `InlineJobsHaveTheirAsker` | where nobody is refused after the submit, a job run inline has a client that runs it |
| `PacingProofs` | `NobodyIsForgotten`, `PacingIsTyped` | a screen that is behind has somebody who asks for its frame; the types |
| `PacingProofs` | `NoBacklogEver` | once a terminal answered, no frame joins a backlog of what it did not read |
| `WindowProofs` | `OneFrameOut`, `EditsAlwaysFit` | one frame of a client is out at a time, and the types; an edit goes out for the image it was made against |
| `WindowProofs` | `PicturesAreInStep` | what the server believes of a client's picture is what is there, or an update that is out knows better |
| `UpgradeProofs` | `UpgradeInvariant`, `NothingIsLost`, `NobodyIsLeftBehind`, `RefusedUpgradesServeOn` | with one upgrade at a time: the types and what each phase keeps, and the three properties of the run |
| `RelinkProofs` | `AttachmentsAreTyped`, `HangUpsAreFinal`, `NobodyIsLeftUntold` | the types; who was told to hang up, and did not sleep, does not dial again; `kill-server -r` stops when everybody who holds a working link was told |

The argument for the lock: `NoTurnLost` alone is not inductive, because a
release must know that the head of a queue is a writer that really queues.
`TurnsInv` adds that every writer in a queue is in state "queued", once and in
one queue, and that `held` is true exactly while a writer has the turn or was handed
it. `Release` is then a lemma of its own (`ReleaseHandsOver`), used by `Leave`
and by the cancellation of a writer that was handed the turn. The connection's
steps are steps of `Turns` or leave its variables alone, so the refinement is
one lemma per action and everything proved of `Turns` is cited.

`SocketStreamInStep` is inductive together with "the writer that turns the stream
has not left it". `Backlog` rests on `CountInv`: a packet has a size exactly while its writer is on its way through `write`, and
`outstanding` is the number of bytes of these packets. The bytes are counted as a set, each by its writer and its place in the packet, so
a packet that comes or goes is a disjoint union and no sum over the writers is needed. `NoDrainerForgotten` rests on `DrainInv`: the event is set
exactly while nothing is outstanding, so whoever sleeps on it sleeps over bytes, and the write that takes the last of them wakes everybody. For `WaitFor`, `LockInv` ties `granted` to `locked`; that a
channel which exists has something to remember (`ChannelsRemembered`) is a part of its invariant, which `Remember` re-establishes at the end of every handler.

`LookedAtIsListed` of `PaneLife` is inductive with one more fact (`ListedInv`): `client` is a function of the clients. The proof turns on
`remove_session`, which moves every client of the session to one that is left.

The order of `WindowOrder` has two parts. `ListInv`: the list holds each window once, sorted, and nothing that is parked. What comes in, moves or is
swapped is sorted again (`SortedOrder` shows that a sorted listing exists for every finite set and that `SortedBy` is one); what goes
leaves a sublist (`RemoveLeaves`). `FocusInv`: what a client left is a list that holds each window once and never the one it
looks at, which is what makes "the newest still open" a window other than the one that closes. The two action properties follow from
which steps take a window out (`OnlyTheseGo`) and whom these move (`GoingKeeps`). `IndexInv` adds that listed windows have indexes of their own within the
bound: a free index exists by the pigeonhole principle (`LowestIsFree`), making room frees one and merges none (`MakeRoomFrees`), and renumbering
never runs out, because there are no more windows than indexes (`IndexesSuffice`). The smallest of a set of numbers, which
`lowest_free_index` and `previous_window_for` pick, exists because the order of the numbers is well-founded: that fact of the library is used
as a first-order one (`SmallestOf`).

The jobs share one invariant, `JobsInv`: types, `Unborn` (an id that was not handed out has no
program, no output and no phase, so a new follower starts at zero), `Drained` (a
stream that is at its end, that the job does not have, or that has no program, holds
nothing unread), and the three properties. `DoneIsComplete` follows from `Drained`
at the end of the group; `FollowersHear` from `Poked` (a poke leaves every
follower with a hint and takes none); `WaitedJobsStay` from what `_reap` spares. One lemma
per part, one step per action.

For `NobodyWaitsInVain` it must be known that a client sits in one queue of one channel and waits for nothing else (`SeatInv`).
`AskedToEnd` rests on `EndInv`, which says that a running job asked to end has its SIGTERM, and that one which the table forgot is over or was asked to end, and `InlineHasItsAsker` on `AskerInv`: the client
that a job runs inline for runs that job and no other.

The panes share `HeldInv`: a pane that is only starting is in no window; a window that a command keeps in hand
is used by nobody else; the program that a respawn replaces was hung up. `OnePlace` rests on it and on `Single`, which follows each pane to one
window and each window to one order, and needs the assumption that its theorem names. `TakenOutIsHungUp` is about a step: it needs both, and that every window of an
order or a pen has a pane (`Filled`), since a window without one would go from under the pane that `move-pane` brings. `StepShapes` sorts
the steps by what they do to the places; those that take panes out of one session hung them up or heard their end, a start that is over takes out only what was hung up
when it began, and each move puts the pane where a command reaches it.

`NothingForgotten` is inductive with "a hold that is on has a wake-up asleep" and "a frame that is held has an open report"
(`PacingInv`). `NoBacklog` rests on `WireIsUnread`: for a terminal that answers, the open reports are those it answered already and behind them,
in order, those it did not read; the bytes of a suffix are no more than those of all (`FewerBytes`, by an injection). `WindowInv` says what an update knows while it waits: there is room once it reads, and unless its image was deleted, the client still
holds what the edit starts from. `PictureInv` adds that an update whose pane left the view knows that its image is gone, and that one whose
pane came back is asked for again. `UpgradeInv` has a part for each promise from one phase to the next: what was read of a pane is in its picture
(`Shown`), a name leads to the upgrade's own file (`OwnFile`), what is in the file is what runs (`HandedOn`), nothing joins what the sweep kills
(`SweepsAll`), and what an exec and a server that serves may be sure of (`InExec`, `Serving`). `OwnFile` is where a second upgrade would break in, hence `OneAtATime`.

The invariant of `Mirror`, `MirrorInv`, has four parts. `LinkInv`: the types, and that a link that went leaves nothing of its own behind at either end.
`TreeInv`: a pane that one tree has and a later one lacks is gone for good. `HandlerInv`: the keys that the peer holds are its wishes, in an order in which they
may be told again (`ToldInv`); what was asked for is lent, refused, or has its words on their way (`AskedInv`); and once all words are read, a source is paused and focused as
the peer wants (`WantedInv`). `FrameInv`: the frames of a pane that are on their way follow each other from the page that is shown to the one the writer sent (`Chain`, `ChainEnd`). `OwnerFollows`
is the third part with nothing on its way. A handler of the peer says one thing after another for a set
of panes. There is one lemma for each deed (`SeenKeeps`, `UnseenKeeps`, `GainedKeeps`, `LostKeeps`, `KillKeeps`), and two lemmas carry it over the panes (`AllInTurn`, `InTurnKeeps`). `InTurn` is a
recursive function over the places of a list, so the first place where a claim would fail is a smallest number, and the library's induction is not needed; the panes must be a finite
set for there to be a list of them.

That `Mirror` implements `PageSpec` rests on the fourth part for the frame at the head, which shows that it is never mixed with another page (`FrameFits`), and on a second invariant, `PagesInv`:
the frames of a pane that are on their way are of pages that its program had, between the one that is shown and the newest, and none comes after one of a newer page (`Ages`); of a pane that is
not there yet there is no source and no frame. `StillPages` says of all the steps but five that they leave the pages alone; each of those five is the step of `PageSpec` of its kind, or a frame
that is sent and changes nothing yet.

`HangUpIsFinal` of `Relink` is inductive with the types, "a link that is held is its owner's", and "who noticed a sleep is known to
have slept". `LeavesNobodyUntold` follows from an invariant of the leaving phase: whoever holds a working link is still on the list, or was told.

Proved of safety only. Stay with TLC: liveness (`UrgentGetsTheTurn`, `EmptySessionsGo`, `EndIsTold`, `NewestIsDrawn`,
`LetGo`, `GhostsGo`, `ComesBack`, `NewestIsShown`), because the prover has no ENABLED, and the two findings, which are runs that end in a violation. Every other property that a run checks
is stated by a theorem. The proofs assume only the named ASSUMEs of the modules, which TLC evaluates on every
instance, and what a theorem's own ASSUME says, which the passing runs assume too: `OneAtATime`, `~AcrossSessions`, `~OntoTheLast`, `Refuses = FALSE`, `~MayEmpty` (the last window
of a session stays) and `~LinksOnTaken` (`link-window -t` onto an index in use gives two windows the same one).

## Not modelled

Bytes, framing, zstd itself, rendering, parsing of commands, options other than
the two named, logs. ptterm and ptyhost (the pty, signals, reaping) are
outside the repository and appear as what `core/panes.py` expects of them.
Wayland window panes, overlays and mirrored panes end and open through the same
methods as other panes and are left out of `PaneLife`. A start that raises or is cancelled
with its client is left out too: it leaves a session with no window behind
(`new-session`), and there is nothing more to say of it.

Of an upgrade, the contents of the snapshot are not modelled, nor what jobs, recordings, copy mode, sound and the portal hand over: each
is written and read beside the panes, in the same step. Of pacing, the rate of frames and what is in them. Of window panes, the compositor and
input. Of relink, the times of the backoff, forwarding, browsers and sound over a link, and the first handshake.
Of mirrors, copy mode, sizes, input, a mirror that is suspended, files and tunnels.
The in-memory pipe is a queue of one process in which nothing is lost. Rendering, keys, options, formats, graphics and the about 130 other commands
are functions of the state, without an await that another part could come between, and the repository's golden tests cover them
well; the Rust kernels are checked against Python by generated tests. They are most of the repository's lines, and they are left out because a model of
them would repeat them.

## Plan

What is left, in the order of what it would add:

1. **ServerConnection**: packets written inline against those spawned for writing (`connection/server.py:403`), and the dispatch of
   attach, detach and switch, as an extension of `SocketConnection`.
2. **Requests**: questions to the terminals of clients and to mirrored servers over a tunnel, with answers after their
   timeout and links that end in between.
3. **Relink over Upgrade**: the phases of `Upgrade` in place of the five that `Relink` has, with `WaitFor`'s
   refusal, so that the telling, the sweep and the roll-back are the detailed ones.
4. **Pane tree**: adding, removing, rotating and moving as functions, checked against "each pane once".
5. Programs that end while their window is unlinked (`core/panes.py:436`), once `PaneLife` and `WindowOrder` are composed.
