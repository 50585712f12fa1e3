---------------------------- MODULE WindowFrames ----------------------------
(***************************************************************************)
(* A window pane (a Wayland window shown in a pane): how each frame that   *)
(* its program commits reaches the clients and the peers that show the     *)
(* pane, and what lets the program draw its next one.  It composes         *)
(*   - `_pace` and `_Pacer` of wayland/wayland.py, which answers the frame *)
(*     callback of the program once a viewer took what it showed,          *)
(*   - `WindowFrames` of graphics/window_frames.py, the updates on their   *)
(*     way to a client, with the redraws of connection/client_state.py     *)
(*     that start and stop them,                                           *)
(*   - the window frames that `FramePacing` counts, and                    *)
(*   - `MirrorWindowSource` of mirror/window_source.py, which sends the    *)
(*     frames to another server.                                           *)
(* A frame is its serial; 0 is no frame, and the program has drawn its     *)
(* first.  The compositor is external: a read of the frame answers the     *)
(* newest commit of the moment it was asked.                               *)
(***************************************************************************)
EXTENDS Naturals, FiniteSets

CONSTANTS
  Clients,       \* clients that take window frames and answer them
  Peers,         \* links of other servers that mirror the pane
  MaxCommits,    \* a bound: frames that the program commits
  MaxSwitches,   \* a bound: switches of a window, refreshes, pauses, stops
  MaxOwed        \* a bound: answers that a terminal may still give

ASSUME WindowAssumption ==
  MaxCommits \in Nat \ {0} /\ MaxSwitches \in Nat /\ MaxOwed \in Nat

VARIABLES
  newest,      \* the serial of the last commit
  wants,       \* the program waits for its frame callback
  shown,       \* `_Pacer.shown` is set
  drains,      \* `_Pacer.drained`: the viewers to wait for
  pace,        \* `_pace` "waits" for a frame, "drains", or is "over" with it
  racing,      \* the viewers that `_first` waits for
  looks,       \* the client's active window holds the pane
  asked,       \* a redraw of the client is asked for
  drawn,       \* `pane_write_positions` of its last frame hold the pane
  placed,      \* `_places` holds the pane
  held,        \* `_shown`: the serial of the image the client holds
  job,         \* `_pending`: the update on its way
  again,       \* `_again`
  outstanding, \* the pipe holds bytes
  draining,    \* `_waiting_for_drain`
  out,         \* `frames_out`
  owed,        \* the answers that the terminal may still give
  image,       \* the serial of the picture on the terminal
  links,       \* the `MirrorWindowSource` of each peer
  switches,    \* how many of those came
  refreshed    \* whether `refresh-client` was one

pacer == <<wants, shown, drains, pace, racing>>
screen == <<looks, asked, drawn, placed>>
update == <<held, job, again, image>>
pipe == <<outstanding, draining, out, owed>>
bounds == <<switches, refreshed>>
vars == <<newest, pacer, screen, update, pipe, links, bounds>>

Viewers == Clients \cup Peers
Serials == 0..MaxCommits

\* An update: at its frame room, reading, or sending the parts of the frame
\* `got`; `since` is what the image held when it started.  `left` stands
\* for a departure since then, `cut` for a `reset`.
Jobs == [at : {"none", "room", "reads", "sends"}, since : Serials, got : Serials,
         left : BOOLEAN, cut : BOOLEAN]
Job(at, since) == [at |-> at, since |-> since, got |-> 0, left |-> FALSE, cut |-> FALSE]
NoJob == Job("none", 0)
Starting(serial) == Job("room", serial)

Links == [at : {"no", "asked", "reads", "flies"}, got : Serials, sent : Serials,
          again : BOOLEAN, paused : BOOLEAN, stopped : BOOLEAN]

\* `start` of a mirror, and a peer that has stopped it.
FirstFrame == [at |-> "asked", got |-> 0, sent |-> 0, again |-> FALSE,
               paused |-> FALSE, stopped |-> FALSE]
NotMirrored == [FirstFrame EXCEPT !.at = "no", !.stopped = TRUE]

WindowTypeOK ==
  /\ newest \in Serials /\ wants \in BOOLEAN /\ shown \in BOOLEAN
  /\ drains \subseteq Viewers /\ racing \subseteq Viewers
  /\ pace \in {"waits", "drains", "over"}
  /\ looks \in [Clients -> BOOLEAN] /\ asked \in [Clients -> BOOLEAN]
  /\ drawn \in [Clients -> BOOLEAN] /\ placed \in [Clients -> BOOLEAN]
  /\ again \in [Clients -> BOOLEAN]
  /\ outstanding \in [Clients -> BOOLEAN] /\ draining \in [Clients -> BOOLEAN]
  /\ held \in [Clients -> Serials] /\ image \in [Clients -> Serials]
  /\ job \in [Clients -> Jobs]
  /\ out \in [Clients -> 0..1] /\ owed \in [Clients -> 0..MaxOwed]
  /\ links \in [Peers -> Links]
  /\ switches \in 0..MaxSwitches /\ refreshed \in BOOLEAN

Init ==
  /\ newest = 1 /\ wants \in BOOLEAN
  /\ shown = FALSE /\ drains = {} /\ pace = "waits" /\ racing = {}
  /\ looks = [c \in Clients |-> TRUE] /\ asked = [c \in Clients |-> TRUE]
  /\ drawn = [c \in Clients |-> FALSE] /\ placed = [c \in Clients |-> FALSE]
  /\ held = [c \in Clients |-> 0] /\ image = [c \in Clients |-> 0]
  /\ job = [c \in Clients |-> NoJob] /\ again = [c \in Clients |-> FALSE]
  /\ outstanding = [c \in Clients |-> FALSE] /\ draining = [c \in Clients |-> FALSE]
  /\ out = [c \in Clients |-> 0] /\ owed = [c \in Clients |-> 0]
  /\ links \in [Peers -> {FirstFrame, NotMirrored}]
  /\ switches \in 0..MaxSwitches /\ refreshed = FALSE

Switched == switches < MaxSwitches /\ switches' = switches + 1

-----------------------------------------------------------------------------
(* The program commits, and `window_pane_drew` tells every viewer.         *)

\* `MirrorWindowSource.send`, on the link's state.
Sending(link) ==
  IF link.stopped \/ link.paused THEN link
  ELSE IF link.at # "no" THEN [link EXCEPT !.again = TRUE]
  ELSE [link EXCEPT !.at = "asked"]

\* The clients whose `refresh` gets as far as an update.
Refreshed == {c \in Clients : ~outstanding[c] /\ drawn[c] /\ placed[c]}

Commit ==
  /\ newest < MaxCommits
  /\ newest' = newest + 1
  /\ wants' \in {wants, TRUE}
  /\ draining' = [c \in Clients |-> draining[c] \/ outstanding[c]]
  /\ again' = [c \in Clients |-> again[c] \/ (c \in Refreshed /\ job[c].at # "none")]
  /\ job' = [c \in Clients |->
               IF c \in Refreshed /\ job[c].at = "none" THEN Starting(held[c]) ELSE job[c]]
  /\ links' = [p \in Peers |-> Sending(links[p])]
  /\ UNCHANGED <<shown, drains, pace, racing, screen, held, image, outstanding,
                 out, owed, bounds>>

-----------------------------------------------------------------------------
(* The pacer of the window.                                                *)

\* `shown_by`: viewer v showed a frame.
ShownBy(v) == shown' = TRUE /\ drains' = drains \cup {v}

PaceBegins ==
  /\ pace = "waits"
  /\ shown
  /\ pace' = "drains"
  /\ racing' = drains
  /\ UNCHANGED <<newest, wants, shown, drains, screen, update, pipe, links, bounds>>

\* `FramePacing.drained` of a client, `_drained` of a peer.
HasTaken(v) ==
  IF v \in Clients THEN ~outstanding[v] /\ out[v] = 0
  ELSE links[v].at = "no" \/ links[v].stopped

\* What was shown meanwhile goes with the rest: `frame_done` comes after it.
PaceEnds ==
  /\ pace = "over" \/ (pace = "drains" /\ (racing = {} \/ \E v \in racing : HasTaken(v)))
  /\ pace' = "waits" /\ racing' = {}
  /\ drains' = {} /\ shown' = FALSE
  /\ wants' = FALSE
  /\ UNCHANGED <<newest, screen, update, pipe, links, bounds>>

-----------------------------------------------------------------------------
(* A redraw of a client, and the update it starts.                         *)

\* An update that is out stays, whatever became of its image.
MutStartUpdate(c) ==
  IF job[c].at = "none"
    THEN /\ job' = [job EXCEPT ![c] = Starting(held[c])]
         /\ UNCHANGED again
    ELSE UNCHANGED <<again, job>>

\* `_start_update`, from `render`: one that is out stays, unless its image
\* was deleted meanwhile.
StartUpdate(c) ==
  IF job[c].at = "none"
    THEN /\ job' = [job EXCEPT ![c] = Starting(held[c])]
         /\ UNCHANGED again
    ELSE /\ again' = [again EXCEPT ![c] = @ \/ job[c].left]
         /\ UNCHANGED job

\* `render` with the pane in view.
RenderPane(c) ==
  /\ looks[c]
  /\ placed' = [placed EXCEPT ![c] = TRUE]
  /\ StartUpdate(c)
  /\ UNCHANGED <<held, image>>

\* The image is deleted, and still counts as shown.
MutRenderWithout(c) ==
  /\ ~looks[c]
  /\ placed' = [placed EXCEPT ![c] = FALSE]
  /\ image' = [image EXCEPT ![c] = IF held[c] = 0 THEN @ ELSE 0]
  /\ job' = [job EXCEPT ![c].left = @ \/ (held[c] # 0 /\ job[c].at # "none")]
  /\ UNCHANGED <<held, again>>

\* `render` without it: the image goes, if the client holds one.
RenderWithout(c) ==
  /\ ~looks[c]
  /\ placed' = [placed EXCEPT ![c] = FALSE]
  /\ held' = [held EXCEPT ![c] = 0]
  /\ image' = [image EXCEPT ![c] = IF held[c] = 0 THEN @ ELSE 0]
  /\ job' = [job EXCEPT ![c].left = @ \/ (held[c] # 0 /\ job[c].at # "none")]
  /\ UNCHANGED again

\* The frame of the cells.
DrawCells(c) ==
  /\ asked[c]
  /\ asked' = [asked EXCEPT ![c] = FALSE]
  /\ drawn' = [drawn EXCEPT ![c] = looks[c]]
  /\ UNCHANGED <<newest, pacer, looks, out, owed, links, bounds>>

\* `after_render` while the pipe holds bytes, of this frame or of an earlier
\* one: the window panes wait.
RedrawBehind(c) ==
  /\ DrawCells(c)
  /\ outstanding' = [outstanding EXCEPT ![c] = TRUE]
  /\ draining' = [draining EXCEPT ![c] = TRUE]
  /\ UNCHANGED <<placed, update>>

Redraw(c) ==
  /\ DrawCells(c)
  /\ ~outstanding[c]
  /\ RenderPane(c) \/ RenderWithout(c)
  /\ UNCHANGED <<outstanding, draining>>

\* The terminal takes the bytes.
TakeBytes(c) ==
  /\ outstanding[c]
  /\ outstanding' = [outstanding EXCEPT ![c] = FALSE]
  /\ UNCHANGED <<newest, pacer, screen, update, draining, out, owed, links, bounds>>

\* `_windows_after_drain` is woken, and asks for a redraw.
AfterDrain(c) ==
  /\ draining[c] /\ ~outstanding[c]
  /\ draining' = [draining EXCEPT ![c] = FALSE]
  /\ asked' = [asked EXCEPT ![c] = TRUE]
  /\ UNCHANGED <<newest, pacer, looks, drawn, placed, update, outstanding, out, owed,
                 links, bounds>>

\* A person switches to another window, or back.
SwitchWindow(c) ==
  /\ Switched
  /\ looks' = [looks EXCEPT ![c] = ~@]
  /\ asked' = [asked EXCEPT ![c] = TRUE]
  /\ UNCHANGED <<newest, pacer, drawn, placed, update, pipe, links, refreshed>>

\* `refresh-client`: `Waking.redraw` resets the images of the client.
RefreshClient(c) ==
  /\ Switched
  /\ refreshed' = TRUE
  /\ placed' = [placed EXCEPT ![c] = FALSE]
  /\ again' = [again EXCEPT ![c] = FALSE]
  /\ job' = [job EXCEPT ![c].cut = (job[c].at # "none")]
  /\ held' = [held EXCEPT ![c] = 0]
  /\ image' = [image EXCEPT ![c] = IF held[c] = 0 THEN @ ELSE 0]
  /\ asked' = [asked EXCEPT ![c] = TRUE]
  /\ UNCHANGED <<newest, pacer, looks, drawn, pipe, links>>

-----------------------------------------------------------------------------
(* `_update` of one client.                                                *)

\* The `finally` of `_update`, with what the client then holds.
EndUpdate(c, holds) ==
  /\ job' = [job EXCEPT ![c] = IF again[c] /\ ~job[c].cut /\ placed[c]
                                 THEN Starting(holds) ELSE NoJob]
  /\ again' = [again EXCEPT ![c] = FALSE]

\* `frame_room` answers at once, or was waited for: the frame is read.
ReadFrame(c) ==
  /\ job[c].at = "room"
  /\ out[c] = 0
  /\ job' = [job EXCEPT ![c].at = "reads", ![c].got = newest]
  /\ UNCHANGED <<newest, pacer, screen, held, again, image, pipe, links, bounds>>

\* A departure is not counted.
MutStillCurrent(c) == placed[c] /\ ~job[c].cut

\* `_still_current`, for a pane that `_places` holds.
StillCurrent(c) == placed[c] /\ ~job[c].left /\ ~job[c].cut

\* The update is for an image that is gone.
DropUpdate(c) ==
  /\ job[c].at = "reads"
  /\ ~StillCurrent(c)
  /\ EndUpdate(c, held[c])
  /\ UNCHANGED <<newest, pacer, screen, held, image, pipe, links, bounds>>

\* The client is up to date: nothing goes, and the frame counts as shown.
NothingToSend(c) ==
  /\ job[c].at = "reads"
  /\ StillCurrent(c) /\ job[c].got = job[c].since
  /\ held' = [held EXCEPT ![c] = job[c].got]
  /\ EndUpdate(c, job[c].got)
  /\ ShownBy(c)
  /\ UNCHANGED <<newest, wants, pace, racing, screen, image, pipe, links, bounds>>

\* `send_frame` begins: the frame is out, and its parts are awaited one by
\* one.
SendFrame(c) ==
  /\ job[c].at = "reads"
  /\ StillCurrent(c) /\ job[c].got # job[c].since
  /\ held' = [held EXCEPT ![c] = job[c].got]
  /\ job' = [job EXCEPT ![c].at = "sends"]
  /\ outstanding' = [outstanding EXCEPT ![c] = TRUE]
  /\ out' = [out EXCEPT ![c] = @ + 1]
  /\ owed' = [owed EXCEPT ![c] = IF @ < MaxOwed THEN @ + 1 ELSE @]
  /\ UNCHANGED <<newest, pacer, screen, again, image, draining, links, bounds>>

\* The last part is written.  A whole frame makes the image; an edit of an
\* image that is not there changes nothing.
FrameSent(c) ==
  /\ job[c].at = "sends"
  /\ ~outstanding[c]
  /\ image' = [image EXCEPT ![c] = IF job[c].since = 0 \/ @ # 0 THEN job[c].got ELSE 0]
  /\ EndUpdate(c, held[c])
  /\ ShownBy(c)
  /\ UNCHANGED <<newest, wants, pace, racing, screen, held, pipe, links, bounds>>

\* The answer to a frame: `frame-shown` of the client, or that of the
\* terminal, which counts for an image in `_shown` only.
AnswerFrame(c) ==
  /\ owed[c] > 0
  /\ job[c].at = "sends" => owed[c] > 1
  /\ owed' = [owed EXCEPT ![c] = @ - 1]
  /\ \/ out' = [out EXCEPT ![c] = IF @ = 0 THEN 0 ELSE @ - 1]
     \/ held[c] = 0 /\ UNCHANGED out
  /\ UNCHANGED <<newest, pacer, screen, update, outstanding, draining, links, bounds>>

\* `frames_all_shown` waited FRAME_ANSWER_SECONDS, for a frame or a pacer.
GiveUp(c) ==
  /\ out[c] > 0
  /\ job[c].at = "room" \/ (pace = "drains" /\ c \in racing /\ ~outstanding[c])
  /\ out' = [out EXCEPT ![c] = 0]
  /\ UNCHANGED <<newest, pacer, screen, update, outstanding, draining, owed, links, bounds>>

-----------------------------------------------------------------------------
(* The frames of a peer.                                                   *)

PeerReads(p) ==
  /\ links[p].at = "asked"
  /\ links' = [links EXCEPT ![p].at = "reads", ![p].got = newest]
  /\ UNCHANGED <<newest, pacer, screen, update, pipe, bounds>>

\* `_send` with no parts: the link stopped, or the peer has the frame.
PeerHasIt(p) ==
  /\ links[p].at = "reads"
  /\ links[p].stopped \/ links[p].got = links[p].sent
  /\ links' = [links EXCEPT ![p].at = "no", ![p].sent = links[p].got]
  /\ ShownBy(p)
  /\ UNCHANGED <<newest, wants, pace, racing, screen, update, pipe, bounds>>

PeerSends(p) ==
  /\ links[p].at = "reads"
  /\ ~links[p].stopped /\ links[p].got # links[p].sent
  /\ links' = [links EXCEPT ![p].at = "flies", ![p].sent = links[p].got]
  /\ ShownBy(p)
  /\ UNCHANGED <<newest, wants, pace, racing, screen, update, pipe, bounds>>

\* Whoever waits for the frame of this peer goes on.
WakesPacer(p) == pace' = IF pace = "drains" /\ p \in racing THEN "over" ELSE pace

\* `_take_frame` at the peer, and `taken` here.
PeerTakes(p) ==
  /\ links[p].at = "flies"
  /\ ~links[p].stopped
  /\ LET landed == [links[p] EXCEPT !.at = "no", !.again = FALSE]
     IN links' = [links EXCEPT ![p] = IF @.again THEN Sending(landed) ELSE landed]
  /\ WakesPacer(p)
  /\ UNCHANGED <<newest, wants, shown, drains, racing, screen, update, pipe, bounds>>

\* No client of the peer shows the pane any more, or one does again.
Pause(p) ==
  /\ ~links[p].paused
  /\ Switched
  /\ links' = [links EXCEPT ![p].paused = TRUE]
  /\ UNCHANGED <<newest, pacer, screen, update, pipe, refreshed>>

Resume(p) ==
  /\ links[p].paused
  /\ links' = [links EXCEPT ![p] = Sending([@ EXCEPT !.paused = FALSE])]
  /\ UNCHANGED <<newest, pacer, screen, update, pipe, bounds>>

\* The peer stops mirroring, or its link ends.
StopLink(p) ==
  /\ ~links[p].stopped
  /\ Switched
  /\ links' = [links EXCEPT ![p].stopped = TRUE]
  /\ WakesPacer(p)
  /\ UNCHANGED <<newest, wants, shown, drains, racing, screen, update, pipe, refreshed>>

-----------------------------------------------------------------------------
ClientStep(c) ==
  \/ RedrawBehind(c) \/ Redraw(c) \/ TakeBytes(c) \/ AfterDrain(c) \/ SwitchWindow(c) \/ RefreshClient(c)
  \/ ReadFrame(c) \/ DropUpdate(c) \/ NothingToSend(c) \/ SendFrame(c) \/ FrameSent(c)
  \/ AnswerFrame(c) \/ GiveUp(c)

PeerStep(p) ==
  \/ PeerReads(p) \/ PeerHasIt(p) \/ PeerSends(p) \/ PeerTakes(p)
  \/ Pause(p) \/ Resume(p) \/ StopLink(p)

Next ==
  \/ Commit \/ PaceBegins \/ PaceEnds
  \/ \E c \in Clients : ClientStep(c)
  \/ \E p \in Peers : PeerStep(p)

\* The loop runs what is ready, a terminal and a peer that are there take
\* their bytes, and the wait for an answer ends; not every redraw of a link
\* that takes its bytes finds it behind.  Nobody is bound to answer a
\* frame, to commit one or to switch.
Fairness ==
  /\ WF_vars(PaceBegins) /\ WF_vars(PaceEnds)
  /\ \A c \in Clients :
       /\ SF_vars(Redraw(c)) /\ WF_vars(RedrawBehind(c))
       /\ WF_vars(TakeBytes(c)) /\ WF_vars(AfterDrain(c))
       /\ WF_vars(ReadFrame(c)) /\ WF_vars(DropUpdate(c)) /\ WF_vars(NothingToSend(c))
       /\ WF_vars(SendFrame(c)) /\ WF_vars(FrameSent(c)) /\ WF_vars(GiveUp(c))
  /\ \A p \in Peers :
       WF_vars(PeerReads(p)) /\ WF_vars(PeerHasIt(p)) /\ WF_vars(PeerSends(p))
         /\ WF_vars(PeerTakes(p))

Spec == Init /\ [][Next]_vars /\ Fairness

-----------------------------------------------------------------------------
(* Properties.                                                             *)

\* An edit goes out for the very image it was computed against, though the
\* pane left the view and came back, and the frame room was waited for: an
\* edit of a deleted image draws nothing, and every later one is an edit.
EditsFit ==
  [][\A c \in Clients : job[c].at = "reads" /\ job'[c].at = "sends" =>
        job[c].since = 0 \/ job[c].since = held[c]]_vars

\* A client with the pane in view and no update on its way sees the picture
\* that the server thinks it sees.
PictureInStep ==
  \A c \in Clients :
    placed[c] /\ job[c].at = "none" /\ ~refreshed => image[c] = held[c]

\* A program whose window somebody looks at may draw again: no viewer that
\* is paused, gone, slow or without an answer keeps its frame callback.
LetGo ==
  /\ \A c \in Clients : (wants /\ looks[c]) ~> (~wants \/ ~looks[c] \/ refreshed)
  /\ \A p \in Peers :
       (wants /\ ~links[p].paused /\ ~links[p].stopped)
          ~> (~wants \/ links[p].paused \/ links[p].stopped)

\* `render` takes the panes down that a client can no longer see: a picture
\* on its terminal is one that the server knows of.
NoGhosts == \A c \in Clients : image[c] # 0 /\ ~refreshed => held[c] # 0

\* "send it to every client and every peer that shows it": the last frame
\* of the program is shown in the end.
LastFrameArrives ==
  /\ \A c \in Clients : (looks[c] /\ held[c] # newest) ~> (~looks[c] \/ held[c] = newest)
  /\ \A p \in Peers : LET showing == ~links[p].paused /\ ~links[p].stopped
                      IN (showing /\ links[p].sent # newest) ~> (~showing \/ links[p].sent = newest)

\* `redraw`: "each is sent and placed again", so a program does not wait
\* for its frame callback after a `refresh-client` either.
LetGoAfterRefresh ==
  \A c \in Clients : (wants /\ looks[c]) ~> (~wants \/ ~looks[c])
=============================================================================
