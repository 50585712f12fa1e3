---------------------------- MODULE WindowProofs ----------------------------
(***************************************************************************)
(* What every instance of WindowFrames keeps: one frame of a window pane   *)
(* is out to a client at a time, and an edit goes out only for the image   *)
(* it was computed against.  The strengthening says what an update knows   *)
(* while it waits: there is room once it reads, and unless its image was   *)
(* deleted meanwhile, the client still holds what the edit starts from.    *)
(* Before a `refresh-client` the server knows the picture on a terminal.   *)
(***************************************************************************)
EXTENDS WindowFrames, TLAPS

RoomIsFree == \A c \in Clients : job[c].at = "reads" => out[c] = 0

SinceIsHeld ==
  \A c \in Clients :
    job[c].at \in {"room", "reads"} /\ ~job[c].left /\ ~job[c].cut => job[c].since = held[c]

WindowInv == WindowTypeOK /\ RoomIsFree /\ SinceIsHeld

\* What the invariant says of one client.
OfClient == <<held, job, out>>

FieldsOK ==
  /\ held \in [Clients -> Serials]
  /\ job \in [Clients -> Jobs]
  /\ out \in [Clients -> 0..1]

\* A step that leaves updates, images and counts alone.
LEMMA Untouched ==
  ASSUME RoomIsFree, SinceIsHeld, UNCHANGED OfClient
  PROVE  RoomIsFree' /\ SinceIsHeld'
BY DEF RoomIsFree, SinceIsHeld, OfClient

LEMMA NoJobIsJob == NoJob \in Jobs /\ NoJob.at = "none"
BY WindowAssumption DEF NoJob, Job, Jobs, Serials

LEMMA StartingIsJob ==
  ASSUME NEW serial \in Serials
  PROVE  /\ Starting(serial) \in Jobs
         /\ Starting(serial).at = "room" /\ Starting(serial).since = serial
<1>1. 0 \in Serials
  BY WindowAssumption DEF Serials
<1> QED BY <1>1 DEF Starting, Job, Jobs

\* `_update` ends: with the frame it was asked for meanwhile, or with none.
LEMMA EndIsFine ==
  ASSUME FieldsOK, RoomIsFree, SinceIsHeld, NEW c \in Clients,
         NEW holds \in Serials, EndUpdate(c, holds),
         held' = [held EXCEPT ![c] = holds], UNCHANGED out
  PROVE  job' \in [Clients -> Jobs] /\ RoomIsFree' /\ SinceIsHeld'
<1>1. /\ job'[c] = Starting(holds) \/ job'[c] = NoJob
      /\ \A d \in Clients \ {c} : job'[d] = job[d]
      /\ job' = [job EXCEPT ![c] = job'[c]]
  BY DEF EndUpdate, FieldsOK
<1>2. job'[c] \in Jobs /\ (job'[c].at = "none" \/ (job'[c].at = "room" /\ job'[c].since = holds))
  BY <1>1, StartingIsJob, NoJobIsJob
<1>3. /\ held'[c] = holds
      /\ \A d \in Clients \ {c} : held'[d] = held[d]
  BY DEF FieldsOK
<1> QED BY <1>1, <1>2, <1>3 DEF FieldsOK, RoomIsFree, SinceIsHeld

LEMMA WindowInit == Init => WindowInv
<1> SUFFICES ASSUME Init PROVE WindowInv
  OBVIOUS
<1>1. 0 \in Serials /\ 1 \in Serials
  BY WindowAssumption DEF Serials
<1>2. FirstFrame \in Links /\ NotMirrored \in Links
  BY <1>1 DEF FirstFrame, NotMirrored, Links
<1>3. /\ links \in [Peers -> Links] /\ job \in [Clients -> Jobs]
      /\ owed \in [Clients -> 0..MaxOwed] /\ out \in [Clients -> 0..1]
  BY <1>2, NoJobIsJob, WindowAssumption DEF Init
<1>4. WindowTypeOK
  BY <1>1, <1>3 DEF Init, WindowTypeOK
<1> QED BY <1>4, NoJobIsJob DEF Init, WindowInv, RoomIsFree, SinceIsHeld

LEMMA SendingIsLink ==
  ASSUME NEW link \in Links
  PROVE  Sending(link) \in Links
BY DEF Sending, Links

-----------------------------------------------------------------------------
\* One step of a client.
LEMMA ClientKeeps ==
  ASSUME WindowInv, NEW c \in Clients, ClientStep(c)
  PROVE  WindowInv'
<1> USE DEF WindowInv
<1>0. FieldsOK /\ 0 \in Serials
  BY WindowAssumption DEF WindowTypeOK, FieldsOK, Serials
<1>1. CASE RedrawBehind(c) \/ TakeBytes(c) \/ AfterDrain(c) \/ SwitchWindow(c)
  <2>1. WindowTypeOK'
    <3>1. CASE RedrawBehind(c) \/ TakeBytes(c)
      BY <3>1 DEF RedrawBehind, DrawCells, TakeBytes, WindowTypeOK, pacer, screen,
         update, pipe, bounds
    <3>2. CASE AfterDrain(c)
      BY <3>2 DEF AfterDrain, WindowTypeOK, pacer, update, bounds
    <3>3. CASE SwitchWindow(c)
      BY <3>3, WindowAssumption DEF SwitchWindow, Switched, WindowTypeOK, pacer, update, pipe
    <3> QED BY <1>1, <3>1, <3>2, <3>3
  <2>2. UNCHANGED OfClient
    BY <1>1 DEF RedrawBehind, DrawCells, TakeBytes, AfterDrain, SwitchWindow,
       update, pipe, OfClient
  <2> QED BY <2>1, <2>2, Untouched
<1>2. CASE Redraw(c)
  <2>1. CASE RenderPane(c)
    <3>1. UNCHANGED <<held, out>> /\ job' \in [Clients -> Jobs]
      BY <1>0, <1>2, <2>1, StartingIsJob DEF Redraw, DrawCells, RenderPane, StartUpdate, FieldsOK
    <3>2. RoomIsFree' /\ SinceIsHeld'
      BY <1>0, <1>2, <2>1, <3>1, StartingIsJob
         DEF RenderPane, StartUpdate, FieldsOK, RoomIsFree, SinceIsHeld
    <3>3. WindowTypeOK'
      BY <1>2, <2>1, <3>1 DEF Redraw, DrawCells, RenderPane, StartUpdate,
         WindowTypeOK, pacer, bounds
    <3> QED BY <3>2, <3>3
  <2>2. CASE RenderWithout(c)
    <3>1. /\ job' \in [Clients -> Jobs] /\ held' \in [Clients -> Serials]
          /\ image' \in [Clients -> Serials] /\ UNCHANGED out
      BY <1>0, <1>2, <2>2 DEF Redraw, DrawCells, RenderWithout, FieldsOK, Jobs, WindowTypeOK
    <3>2. RoomIsFree' /\ SinceIsHeld'
      BY <1>0, <2>2, <3>1 DEF RenderWithout, FieldsOK, Jobs, RoomIsFree, SinceIsHeld
    <3>3. WindowTypeOK'
      BY <1>2, <2>2, <3>1 DEF Redraw, DrawCells, RenderWithout, WindowTypeOK, pacer, bounds
    <3> QED BY <3>2, <3>3
  <2> QED BY <1>2, <2>1, <2>2 DEF Redraw
<1>3. CASE RefreshClient(c)
  <2>1. /\ job' \in [Clients -> Jobs] /\ held' \in [Clients -> Serials]
        /\ image' \in [Clients -> Serials] /\ UNCHANGED out
    <3>1. job[c] \in Jobs /\ (job[c].at # "none") \in BOOLEAN /\ image \in [Clients -> Serials]
      BY <1>0 DEF FieldsOK, WindowTypeOK
    <3> QED BY <1>0, <1>3, <3>1 DEF RefreshClient, pipe, FieldsOK, Jobs
  <2>2. RoomIsFree' /\ SinceIsHeld'
    BY <1>0, <1>3, <2>1 DEF RefreshClient, FieldsOK, Jobs, RoomIsFree, SinceIsHeld
  <2>3. WindowTypeOK'
    BY <1>3, <2>1, WindowAssumption DEF RefreshClient, Switched, WindowTypeOK, pacer, pipe
  <2> QED BY <2>2, <2>3
<1>4. CASE ReadFrame(c)
  <2>0. newest \in Serials /\ job[c] \in Jobs
    BY <1>0 DEF WindowTypeOK, FieldsOK
  <2>1. job' \in [Clients -> Jobs] /\ UNCHANGED <<held, out>>
    BY <1>0, <1>4, <2>0 DEF ReadFrame, pipe, FieldsOK, Jobs
  <2>2. RoomIsFree' /\ SinceIsHeld'
    BY <1>0, <1>4, <2>1 DEF ReadFrame, FieldsOK, Jobs, RoomIsFree, SinceIsHeld
  <2>3. WindowTypeOK'
    BY <1>4, <2>1 DEF ReadFrame, WindowTypeOK, pacer, screen, pipe, bounds
  <2> QED BY <2>2, <2>3
<1>5. CASE DropUpdate(c)
  <2>1. held' = [held EXCEPT ![c] = held[c]] /\ UNCHANGED out /\ held[c] \in Serials
    BY <1>0, <1>5 DEF DropUpdate, FieldsOK, pipe
  <2>2. job' \in [Clients -> Jobs] /\ RoomIsFree' /\ SinceIsHeld'
    BY <1>0, <1>5, <2>1, EndIsFine DEF DropUpdate
  <2>3. WindowTypeOK'
    BY <1>5, <2>2 DEF DropUpdate, EndUpdate, WindowTypeOK, pacer, screen, pipe, bounds
  <2> QED BY <2>2, <2>3
<1>6. CASE NothingToSend(c)
  <2>1. /\ held' = [held EXCEPT ![c] = job[c].got] /\ UNCHANGED out
        /\ job[c].got \in Serials /\ EndUpdate(c, job[c].got)
    BY <1>0, <1>6 DEF NothingToSend, FieldsOK, Jobs, pipe
  <2>2. job' \in [Clients -> Jobs] /\ RoomIsFree' /\ SinceIsHeld'
    BY <1>0, <2>1, EndIsFine
  <2>3. WindowTypeOK'
    BY <1>6, <2>1, <2>2 DEF NothingToSend, EndUpdate, ShownBy, Viewers, WindowTypeOK,
       screen, pipe, bounds
  <2> QED BY <2>2, <2>3
<1>7. CASE SendFrame(c)
  <2>1. /\ job[c].got \in Serials /\ out[c] = 0
        /\ job' \in [Clients -> Jobs] /\ held' \in [Clients -> Serials]
        /\ out' \in [Clients -> 0..1]
    BY <1>0, <1>7 DEF SendFrame, FieldsOK, Jobs, RoomIsFree
  <2>2. RoomIsFree' /\ SinceIsHeld'
    BY <1>0, <1>7, <2>1 DEF SendFrame, FieldsOK, Jobs, RoomIsFree, SinceIsHeld
  <2>3. owed' \in [Clients -> 0..MaxOwed]
    BY <1>7, WindowAssumption DEF SendFrame, WindowTypeOK
  <2>4. WindowTypeOK'
    BY <1>7, <2>1, <2>3 DEF SendFrame, WindowTypeOK, pacer, screen, bounds
  <2> QED BY <2>2, <2>4
<1>8. CASE FrameSent(c)
  <2>1. held' = [held EXCEPT ![c] = held[c]] /\ UNCHANGED out /\ held[c] \in Serials
    BY <1>0, <1>8 DEF FrameSent, FieldsOK, pipe
  <2>2. job' \in [Clients -> Jobs] /\ RoomIsFree' /\ SinceIsHeld'
    BY <1>0, <1>8, <2>1, EndIsFine DEF FrameSent
  <2>3. image' \in [Clients -> Serials]
    BY <1>0, <1>8 DEF FrameSent, FieldsOK, Jobs, WindowTypeOK
  <2>4. WindowTypeOK'
    BY <1>8, <2>2, <2>3 DEF FrameSent, EndUpdate, ShownBy, Viewers, WindowTypeOK,
       screen, pipe, bounds
  <2> QED BY <2>2, <2>4
<1>9. CASE AnswerFrame(c) \/ GiveUp(c)
  <2>1. /\ out' \in [Clients -> 0..1] /\ UNCHANGED <<held, job>>
        /\ \A d \in Clients : out[d] = 0 => out'[d] = 0
    BY <1>0, <1>9 DEF AnswerFrame, GiveUp, FieldsOK, update
  <2>2. RoomIsFree' /\ SinceIsHeld'
    BY <2>1 DEF RoomIsFree, SinceIsHeld
  <2>3. owed' \in [Clients -> 0..MaxOwed]
    BY <1>9, WindowAssumption DEF AnswerFrame, GiveUp, WindowTypeOK
  <2>4. WindowTypeOK'
    BY <1>9, <2>1, <2>3 DEF AnswerFrame, GiveUp, WindowTypeOK, pacer, screen, update, bounds
  <2> QED BY <2>2, <2>4
<1> QED BY <1>1, <1>2, <1>3, <1>4, <1>5, <1>6, <1>7, <1>8, <1>9 DEF ClientStep

\* One step of a peer: it disturbs no client.
LEMMA PeerKeeps ==
  ASSUME WindowInv, NEW p \in Peers, PeerStep(p)
  PROVE  WindowInv'
<1> USE DEF WindowInv
<1>1. UNCHANGED OfClient
  BY DEF PeerStep, PeerReads, PeerHasIt, PeerSends, PeerTakes, Pause, Resume,
     StopLink, update, pipe, OfClient
<1>2. links' \in [Peers -> Links]
  <2>1. links[p] \in Links /\ newest \in Serials /\ links \in [Peers -> Links]
    BY DEF WindowTypeOK
  <2>2. CASE PeerReads(p)
    BY <2>1, <2>2 DEF PeerReads, Links
  <2>5. CASE PeerHasIt(p)
    BY <2>1, <2>5 DEF PeerHasIt, Links
  <2>6. CASE PeerSends(p)
    BY <2>1, <2>6 DEF PeerSends, Links
  <2>7. CASE Pause(p)
    BY <2>1, <2>7 DEF Pause, Links
  <2>8. CASE StopLink(p)
    BY <2>1, <2>8 DEF StopLink, Links
  <2>3. CASE PeerTakes(p)
    <3> DEFINE landed == [links[p] EXCEPT !.at = "no", !.again = FALSE]
    <3>1. landed \in Links
      BY <2>1 DEF Links
    <3>2. Sending(landed) \in Links
      BY <3>1, SendingIsLink
    <3> QED BY <2>1, <2>3, <3>1, <3>2 DEF PeerTakes
  <2>4. CASE Resume(p)
    <3>1. [links[p] EXCEPT !.paused = FALSE] \in Links
      BY <2>1 DEF Links
    <3> QED BY <2>1, <2>4, <3>1, SendingIsLink DEF Resume
  <2> QED BY <2>2, <2>3, <2>4, <2>5, <2>6, <2>7, <2>8 DEF PeerStep
<1>3. WindowTypeOK'
  <2>1. CASE PeerReads(p) \/ Resume(p)
    BY <1>2, <2>1 DEF PeerReads, Resume, WindowTypeOK, pacer, screen, update, pipe, bounds
  <2>2. CASE PeerHasIt(p) \/ PeerSends(p)
    BY <1>2, <2>2 DEF PeerHasIt, PeerSends, ShownBy, Viewers, WindowTypeOK, screen, update,
       pipe, bounds
  <2>3. CASE PeerTakes(p)
    BY <1>2, <2>3 DEF PeerTakes, WakesPacer, WindowTypeOK, screen, update, pipe, bounds
  <2>4. CASE Pause(p)
    BY <1>2, <2>4, WindowAssumption DEF Pause, Switched, WindowTypeOK, pacer, screen, update, pipe
  <2>5. CASE StopLink(p)
    BY <1>2, <2>5, WindowAssumption DEF StopLink, Switched, WakesPacer, WindowTypeOK, screen,
       update, pipe
  <2> QED BY <2>1, <2>2, <2>3, <2>4, <2>5 DEF PeerStep
<1> QED BY <1>1, <1>3, Untouched

LEMMA WindowNext == WindowInv /\ [Next]_vars => WindowInv'
<1> SUFFICES ASSUME WindowInv, [Next]_vars PROVE WindowInv'
  OBVIOUS
<1>1. CASE Commit
  <2>0. FieldsOK
    BY DEF WindowInv, WindowTypeOK, FieldsOK
  <2>1. newest' \in Serials
    BY <1>1, WindowAssumption DEF Commit, WindowInv, WindowTypeOK, Serials
  <2>2. /\ job' \in [Clients -> Jobs] /\ UNCHANGED <<held, out>>
        /\ \A c \in Clients : job'[c] = job[c] \/ job'[c] = Starting(held[c])
    BY <1>1, <2>0, StartingIsJob DEF Commit, FieldsOK
  <2>3. RoomIsFree' /\ SinceIsHeld'
    BY <2>0, <2>2, StartingIsJob DEF WindowInv, FieldsOK, RoomIsFree, SinceIsHeld
  <2>4. links' \in [Peers -> Links]
    BY <1>1, SendingIsLink DEF Commit, WindowInv, WindowTypeOK
  <2>5. WindowTypeOK'
    BY <1>1, <2>1, <2>2, <2>4 DEF Commit, WindowInv, WindowTypeOK, screen, bounds
  <2> QED BY <2>3, <2>5 DEF WindowInv
<1>2. CASE PaceBegins \/ PaceEnds \/ UNCHANGED vars
  <2>1. WindowTypeOK'
    BY <1>2 DEF PaceBegins, PaceEnds, vars, WindowInv, WindowTypeOK, pacer, screen,
       update, pipe, bounds
  <2>2. UNCHANGED OfClient
    BY <1>2 DEF PaceBegins, PaceEnds, vars, update, pipe, OfClient
  <2> QED BY <2>1, <2>2, Untouched DEF WindowInv
<1>3. CASE \E c \in Clients : ClientStep(c)
  BY <1>3, ClientKeeps
<1>4. CASE \E p \in Peers : PeerStep(p)
  BY <1>4, PeerKeeps
<1> QED BY <1>1, <1>2, <1>3, <1>4 DEF Next

\* One window frame at most is out to a client by its own count, for any
\* number of clients and peers: the types say so of `frames_out`.
THEOREM OneFrameOut == Spec => []WindowTypeOK
<1>1. WindowInv => WindowTypeOK
  BY DEF WindowInv
<1> QED BY <1>1, WindowInit, WindowNext, PTL DEF Spec

\* An edit is sent only for the image it was computed against, whatever
\* switches, commits and answers came between its start and its sending.
THEOREM EditsAlwaysFit == Spec => EditsFit
<1> DEFINE Fit == \A c \in Clients : job[c].at = "reads" /\ job'[c].at = "sends" =>
                     job[c].since = 0 \/ job[c].since = held[c]
<1>1. WindowInv /\ [Next]_vars => [Fit]_vars
  <2> SUFFICES ASSUME WindowInv, Next, NEW c \in Clients,
                      job[c].at = "reads", job'[c].at = "sends"
               PROVE  job[c].since = held[c]
    OBVIOUS
  <2>0. FieldsOK
    BY DEF WindowInv, WindowTypeOK, FieldsOK
  <2>1. SUFFICES SendFrame(c)
    BY <2>1 DEF SendFrame, StillCurrent, WindowInv, SinceIsHeld
  <2>2. CASE Commit
    BY <2>0, <2>2, StartingIsJob DEF Commit, FieldsOK
  <2>3. CASE PaceBegins \/ PaceEnds
    BY <2>3 DEF PaceBegins, PaceEnds, update
  <2>4. CASE \E p \in Peers : PeerStep(p)
    BY <2>4 DEF PeerStep, PeerReads, PeerHasIt, PeerSends, PeerTakes, Pause,
       Resume, StopLink, update
  <2>5. ASSUME NEW d \in Clients, ClientStep(d) PROVE SendFrame(c)
    <3>1. CASE RedrawBehind(d) \/ TakeBytes(d) \/ AfterDrain(d) \/ SwitchWindow(d)
               \/ AnswerFrame(d) \/ GiveUp(d)
      BY <3>1 DEF RedrawBehind, TakeBytes, AfterDrain, SwitchWindow, AnswerFrame,
         GiveUp, update
    <3>2. CASE Redraw(d)
      BY <2>0, <3>2, StartingIsJob DEF Redraw, RenderPane, RenderWithout, StartUpdate, FieldsOK, Jobs
    <3>3. CASE RefreshClient(d) \/ ReadFrame(d)
      BY <2>0, <3>3 DEF RefreshClient, ReadFrame, FieldsOK, Jobs
    <3>4. CASE DropUpdate(d)
      BY <2>0, <3>4, StartingIsJob, NoJobIsJob DEF DropUpdate, EndUpdate, FieldsOK
    <3>5. CASE NothingToSend(d)
      <4>1. job[d].got \in Serials
        BY <2>0 DEF FieldsOK, Jobs
      <4> QED BY <2>0, <3>5, <4>1, StartingIsJob, NoJobIsJob DEF NothingToSend, EndUpdate, FieldsOK
    <3>6. CASE FrameSent(d)
      BY <2>0, <3>6, StartingIsJob, NoJobIsJob DEF FrameSent, EndUpdate, FieldsOK
    <3>7. CASE SendFrame(d)
      BY <2>0, <3>7 DEF SendFrame, FieldsOK, Jobs
    <3> QED BY <2>5, <3>1, <3>2, <3>3, <3>4, <3>5, <3>6, <3>7 DEF ClientStep
  <2> QED BY <2>2, <2>3, <2>4, <2>5 DEF Next
<1> QED BY <1>1, WindowInit, WindowNext, PTL DEF Spec, EditsFit
-----------------------------------------------------------------------------
(* The picture on the terminal.                                            *)

\* What one client's image is, from what the client holds (`h`), what is on its
\* terminal (`im`), its update, `_again` and `_places`. An update whose pane left the
\* view knows that its image is gone, and one that came back is asked for again.
Pic(h, im, j, more, there) ==
  /\ ~j.cut
  /\ ~there => h = 0
  /\ j.left => j.at # "none" /\ h = 0 /\ (there => more)
  /\ j.at \in {"room", "reads"} /\ ~j.left => j.since = h
  /\ j.at \in {"reads", "sends"} => j.got # 0
  /\ j.at = "none" => im = h \/ ~there
  /\ j.at \in {"room", "reads"} => im = h \/ h = 0
  /\ j.at = "sends" /\ ~j.left => h = j.got /\ (j.since = 0 \/ im # 0)

PictureInv ==
  /\ newest # 0
  /\ ~refreshed => \A c \in Clients : Pic(held[c], image[c], job[c], again[c], placed[c])

\* What `PictureInv` says of a client.
PictureOf(c) == <<held[c], image[c], job[c], again[c], placed[c]>>

LEMMA OneClientChanges ==
  ASSUME PictureInv, NEW c \in Clients, newest' = newest, refreshed' = refreshed,
         \A d \in Clients \ {c} : UNCHANGED PictureOf(d),
         ~refreshed => Pic(held'[c], image'[c], job'[c], again'[c], placed'[c])
  PROVE  PictureInv'
BY DEF PictureInv, PictureOf

LEMMA NobodyChanges ==
  ASSUME PictureInv, newest' # 0, refreshed => refreshed',
         \A c \in Clients : UNCHANGED PictureOf(c)
  PROVE  PictureInv'
BY DEF PictureInv, PictureOf

\* A job that begins, and none.
LEMMA JobFields ==
  /\ \A serial : /\ Starting(serial).at = "room" /\ Starting(serial).since = serial
                 /\ ~Starting(serial).left /\ ~Starting(serial).cut
  /\ NoJob.at = "none" /\ ~NoJob.left /\ ~NoJob.cut
BY DEF Starting, NoJob, Job

\* `_update` ends with the picture in step, or for an image that is gone: then the
\* pane is out of view or the next update has begun.
LEMMA EndKeepsPicture ==
  ASSUME WindowTypeOK, PictureInv, ~refreshed, NEW c \in Clients, NEW holds, EndUpdate(c, holds),
         ~placed[c] => holds = 0,
         image'[c] = holds \/ (holds = 0 /\ (placed[c] => again[c]))
  PROVE  /\ Pic(holds, image'[c], job'[c], again'[c], placed[c])
         /\ \A d \in Clients \ {c} : job'[d] = job[d] /\ again'[d] = again[d]
<1>1. Pic(held[c], image[c], job[c], again[c], placed[c])
  BY DEF PictureInv
<1>2. /\ job'[c] = IF again[c] /\ placed[c] THEN Starting(holds) ELSE NoJob
      /\ \A d \in Clients \ {c} : job'[d] = job[d] /\ again'[d] = again[d]
  BY <1>1 DEF EndUpdate, WindowTypeOK, Pic
<1>3. CASE again[c] /\ placed[c]
  BY <1>2, <1>3, JobFields DEF Pic
<1>4. CASE ~(again[c] /\ placed[c])
  BY <1>2, <1>4, JobFields DEF Pic
<1> QED BY <1>2, <1>3, <1>4

LEMMA ClientKeepsPicture ==
  ASSUME WindowTypeOK, PictureInv, NEW c \in Clients, ClientStep(c)
  PROVE  PictureInv'
<1>0. /\ held \in [Clients -> Serials] /\ image \in [Clients -> Serials] /\ job \in [Clients -> Jobs]
      /\ again \in [Clients -> BOOLEAN] /\ placed \in [Clients -> BOOLEAN]
      /\ job[c] \in Jobs
  BY DEF WindowTypeOK
<1>a. ~refreshed => Pic(held[c], image[c], job[c], again[c], placed[c])
  BY DEF PictureInv
<1>1. CASE RedrawBehind(c) \/ TakeBytes(c) \/ AfterDrain(c) \/ SwitchWindow(c) \/ AnswerFrame(c) \/ GiveUp(c)
  <2>1. UNCHANGED <<newest, refreshed, update, placed>>
    BY <1>1 DEF RedrawBehind, DrawCells, TakeBytes, AfterDrain, SwitchWindow, AnswerFrame, GiveUp,
       screen, bounds
  <2> QED BY <2>1, NobodyChanges DEF update, PictureOf, PictureInv
<1>2. CASE Redraw(c) /\ RenderPane(c)
  <2>1. /\ UNCHANGED <<newest, refreshed, held, image>> /\ placed' = [placed EXCEPT ![c] = TRUE]
        /\ StartUpdate(c)
    BY <1>2 DEF Redraw, DrawCells, RenderPane, bounds
  <2>2. CASE job[c].at = "none"
    <3>1. /\ job'[c] = Starting(held[c]) /\ again'[c] = again[c] /\ placed'[c] = TRUE
          /\ \A d \in Clients \ {c} : UNCHANGED PictureOf(d)
      BY <1>0, <2>1, <2>2 DEF StartUpdate, PictureOf
    <3>2. ~refreshed => Pic(held'[c], image'[c], job'[c], again'[c], placed'[c])
      BY <1>a, <2>1, <2>2, <3>1, JobFields DEF Pic
    <3> QED BY <2>1, <3>1, <3>2, OneClientChanges
  <2>3. CASE job[c].at # "none"
    <3>1. /\ job'[c] = job[c] /\ again'[c] = (again[c] \/ job[c].left) /\ placed'[c] = TRUE
          /\ \A d \in Clients \ {c} : UNCHANGED PictureOf(d)
      BY <1>0, <2>1, <2>3 DEF StartUpdate, PictureOf
    <3>2. ~refreshed => Pic(held'[c], image'[c], job'[c], again'[c], placed'[c])
      BY <1>a, <2>1, <2>3, <3>1 DEF Pic
    <3> QED BY <2>1, <3>1, <3>2, OneClientChanges
  <2> QED BY <2>2, <2>3
<1>3. CASE Redraw(c) /\ RenderWithout(c)
  <2>1. /\ UNCHANGED <<newest, refreshed>> /\ held'[c] = 0 /\ placed'[c] = FALSE /\ again'[c] = again[c]
        /\ image'[c] = IF held[c] = 0 THEN image[c] ELSE 0
        /\ \A d \in Clients \ {c} : UNCHANGED PictureOf(d)
    BY <1>0, <1>3 DEF Redraw, DrawCells, RenderWithout, bounds, PictureOf
  <2>2. /\ job'[c].at = job[c].at /\ job'[c].since = job[c].since /\ job'[c].got = job[c].got
        /\ job'[c].cut = job[c].cut
        /\ job'[c].left = (job[c].left \/ (held[c] # 0 /\ job[c].at # "none"))
    BY <1>0, <1>3 DEF RenderWithout, Jobs
  <2>3. ~refreshed => Pic(held'[c], image'[c], job'[c], again'[c], placed'[c])
    BY <1>a, <2>1, <2>2 DEF Pic
  <2> QED BY <2>1, <2>3, OneClientChanges
<1>4. CASE RefreshClient(c)
  BY <1>4 DEF RefreshClient, PictureInv
<1>5. CASE ReadFrame(c)
  <2>1. /\ UNCHANGED <<newest, refreshed, held, image, again, placed>>
        /\ \A d \in Clients \ {c} : UNCHANGED PictureOf(d)
    BY <1>0, <1>5 DEF ReadFrame, screen, bounds, PictureOf
  <2>2. /\ job[c].at = "room" /\ job'[c].at = "reads" /\ job'[c].since = job[c].since
        /\ job'[c].got = newest /\ job'[c].cut = job[c].cut /\ job'[c].left = job[c].left
    BY <1>0, <1>5 DEF ReadFrame, Jobs
  <2>3. ~refreshed => Pic(held'[c], image'[c], job'[c], again'[c], placed'[c])
    BY <1>a, <2>1, <2>2 DEF Pic, PictureInv
  <2> QED BY <2>1, <2>3, OneClientChanges
<1>6. CASE DropUpdate(c)
  <2>1. /\ UNCHANGED <<newest, refreshed, held, image, placed>> /\ EndUpdate(c, held[c])
        /\ job[c].at = "reads" /\ ~StillCurrent(c)
    BY <1>6 DEF DropUpdate, screen, bounds
  <2>2. ASSUME ~refreshed
        PROVE  /\ ~placed[c] => held[c] = 0
               /\ image'[c] = held[c] \/ (held[c] = 0 /\ (placed[c] => again[c]))
    BY <1>a, <2>1, <2>2 DEF Pic, StillCurrent
  <2>3. ASSUME ~refreshed
        PROVE  /\ Pic(held'[c], image'[c], job'[c], again'[c], placed'[c])
               /\ \A d \in Clients \ {c} : UNCHANGED PictureOf(d)
    BY <2>1, <2>2, <2>3, EndKeepsPicture DEF PictureOf
  <2> QED BY <2>1, <2>3, OneClientChanges DEF PictureInv
<1>7. CASE NothingToSend(c)
  <2> DEFINE serial == job[c].got
  <2>1. /\ UNCHANGED <<newest, refreshed, image, placed>> /\ EndUpdate(c, serial)
        /\ held'[c] = serial /\ \A d \in Clients \ {c} : held'[d] = held[d]
        /\ job[c].at = "reads" /\ StillCurrent(c) /\ serial = job[c].since
    BY <1>0, <1>7 DEF NothingToSend, screen, bounds
  <2>2. ASSUME ~refreshed PROVE (~placed[c] => serial = 0) /\ image'[c] = serial
    BY <1>a, <2>1, <2>2 DEF Pic, StillCurrent
  <2> HIDE DEF serial
  <2>3. ASSUME ~refreshed
        PROVE  /\ Pic(serial, image'[c], job'[c], again'[c], placed[c])
               /\ \A d \in Clients \ {c} : job'[d] = job[d] /\ again'[d] = again[d]
    BY <2>1, <2>2, <2>3, EndKeepsPicture
  <2>4. ASSUME ~refreshed
        PROVE  \A d \in Clients \ {c} : UNCHANGED PictureOf(d)
    BY <2>1, <2>3, <2>4 DEF PictureOf
  <2> QED BY <2>1, <2>3, <2>4, OneClientChanges DEF PictureInv
<1>8. CASE SendFrame(c)
  <2>1. /\ UNCHANGED <<newest, refreshed, image, again, placed>> /\ held'[c] = job[c].got
        /\ job[c].at = "reads" /\ StillCurrent(c)
        /\ \A d \in Clients \ {c} : UNCHANGED PictureOf(d)
    BY <1>0, <1>8 DEF SendFrame, screen, bounds, PictureOf
  <2>2. /\ job'[c].at = "sends" /\ job'[c].since = job[c].since /\ job'[c].got = job[c].got
        /\ job'[c].cut = job[c].cut /\ job'[c].left = job[c].left
    BY <1>0, <1>8 DEF SendFrame, Jobs
  <2>3. ~refreshed => Pic(held'[c], image'[c], job'[c], again'[c], placed'[c])
    BY <1>a, <2>1, <2>2 DEF Pic, StillCurrent
  <2> QED BY <2>1, <2>3, OneClientChanges
<1>9. CASE FrameSent(c)
  <2>1. /\ UNCHANGED <<newest, refreshed, held, placed>> /\ EndUpdate(c, held[c]) /\ job[c].at = "sends"
        /\ image'[c] = IF job[c].since = 0 \/ image[c] # 0 THEN job[c].got ELSE 0
        /\ \A d \in Clients \ {c} : image'[d] = image[d]
    BY <1>0, <1>9 DEF FrameSent, screen, bounds
  <2>2. ASSUME ~refreshed
        PROVE  /\ ~placed[c] => held[c] = 0
               /\ image'[c] = held[c] \/ (held[c] = 0 /\ (placed[c] => again[c]))
    BY <1>a, <2>1, <2>2 DEF Pic
  <2>3. ASSUME ~refreshed
        PROVE  /\ Pic(held'[c], image'[c], job'[c], again'[c], placed'[c])
               /\ \A d \in Clients \ {c} : UNCHANGED PictureOf(d)
    BY <2>1, <2>2, <2>3, EndKeepsPicture DEF PictureOf
  <2> QED BY <2>1, <2>3, OneClientChanges DEF PictureInv
<1> QED BY <1>1, <1>2, <1>3, <1>4, <1>5, <1>6, <1>7, <1>8, <1>9 DEF ClientStep, Redraw

LEMMA PictureNext == WindowTypeOK /\ PictureInv /\ [Next]_vars => PictureInv'
<1> SUFFICES ASSUME WindowTypeOK, PictureInv, [Next]_vars PROVE PictureInv'
  OBVIOUS
<1>1. CASE Commit
  <2>1. newest' # 0 /\ UNCHANGED <<held, image, placed, refreshed>>
    BY <1>1 DEF Commit, WindowTypeOK, Serials, screen, bounds
  <2>2. ASSUME NEW c \in Clients, ~refreshed
        PROVE  Pic(held'[c], image'[c], job'[c], again'[c], placed'[c])
    <3>1. Pic(held[c], image[c], job[c], again[c], placed[c])
      BY <2>2 DEF PictureInv
    <3>2. /\ job'[c] = IF c \in Refreshed /\ job[c].at = "none" THEN Starting(held[c]) ELSE job[c]
          /\ again[c] => again'[c]
      BY <1>1 DEF Commit
    <3>3. CASE c \in Refreshed /\ job[c].at = "none"
      BY <2>1, <3>1, <3>2, <3>3, JobFields DEF Pic, Refreshed
    <3>4. CASE ~(c \in Refreshed /\ job[c].at = "none")
      BY <2>1, <3>1, <3>2, <3>4 DEF Pic
    <3> QED BY <3>3, <3>4
  <2> QED BY <2>1, <2>2 DEF PictureInv
<1>2. CASE PaceBegins \/ PaceEnds \/ (\E p \in Peers : PeerStep(p)) \/ UNCHANGED vars
  <2>1. UNCHANGED <<newest, refreshed, update, placed>>
    BY <1>2 DEF PaceBegins, PaceEnds, vars, screen, bounds, PeerStep, PeerReads, PeerHasIt, PeerSends,
       PeerTakes, Pause, Resume, StopLink
  <2> QED BY <2>1, NobodyChanges DEF update, PictureOf, PictureInv
<1>3. CASE \E c \in Clients : ClientStep(c)
  BY <1>3, ClientKeepsPicture
<1> QED BY <1>1, <1>2, <1>3 DEF Next

\* For any number of clients and peers: before a `refresh-client`, a client with the
\* pane in view and no update on its way sees the picture the server thinks it sees.
THEOREM PicturesAreInStep == Spec => []PictureInStep
<1>1. Init => PictureInv
  BY JobFields DEF Init, PictureInv, Pic
<1>2. PictureInv => PictureInStep
  BY DEF PictureInv, PictureInStep, Pic
<1> QED BY <1>1, <1>2, PictureNext, OneFrameOut, PTL DEF Spec
=============================================================================
