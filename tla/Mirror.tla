------------------------------- MODULE Mirror -------------------------------
(***************************************************************************)
(* A server that mirrors the panes of another one, its owner, over links   *)
(* that go and are dialled again.  What the peer told (`Told` of           *)
(* mirror/peer.py) is said again on each link, and what has changed in the *)
(* meantime with it; the owner keeps a source for every pane that is asked *)
(* for (mirror/link.py, source.py), one frame of it waiting in the queue   *)
(* of the link at a time; the tree brings and takes panes (tree.py).       *)
(* Copy mode, sizes, input and Wayland windows are left out: sizes, the    *)
(* terminal and copy mode are told as `watch` is.                          *)
(***************************************************************************)
EXTENDS Naturals, Sequences, FiniteSets, SequencesExt

CONSTANTS
  Panes,
  Pages,   \* a bound: the versions of a pane's page
  Links,   \* a bound: how many links there are, one after another
  Unsent,  \* a bound: what the peer has to say before its clients look elsewhere
  Room     \* the packets for the peer that the socket has room for

ASSUME MirrorAssumption ==
  /\ IsFiniteSet(Panes)
  /\ Pages \in Nat \ {0} /\ Links \in Nat \ {0} /\ Unsent \in Nat \ {0} /\ Room \in Nat \ {0}

VARIABLES
  peer,     \* what the peer holds: see Fresh
  page,     \* the page that the peer shows of each pane, 0 when it has none
  up, down, \* what is on its way to the owner, and to the peer
  link,     \* the links so far, and whether the last one is up
  owner,    \* the `PeerLink`: see NoLink
  sources,  \* its sources, by pane
  life,     \* the owner's panes are "unborn", "alive" or "gone"
  version   \* the page of each

world == <<life, version>>
wire == <<up, down, link>>
mirrorVars == <<peer, page, wire, owner, sources, world>>

Alive == {p \in Panes : life[p] = "alive"}
Sources == DOMAIN sources

\* tree: the panes here, each with its program; asked, streaming, stale: what
\* these programs are; focused: the panes told to have the focus; refused: the
\* sinks the owner gave up; told: the keys that are held, in the order said.
Fresh ==
  [tree |-> {}, asked |-> {}, streaming |-> {}, stale |-> {}, focused |-> {}, refused |-> {},
   told |-> << <<"watch">> >>]

\* watching: the owner sends trees; shown: the one sent last, if any; refusing:
\* the refusals that wait for their turn.
NoLink == [watching |-> FALSE, shown |-> {}, refusing |-> {}, queue |-> << >>]

\* A new `MirrorSource`: it has sent nothing.
NewSource == [paused |-> FALSE, queued |-> FALSE, owed |-> FALSE, focused |-> FALSE, sent |-> 0]

MirrorInit ==
  /\ peer = Fresh
  /\ page = [p \in Panes |-> 0]
  /\ up = << >> /\ down = << >>
  /\ link = [number |-> 0, up |-> FALSE]
  /\ owner = NoLink
  /\ sources = << >>
  /\ life \in [Panes -> {"unborn", "alive"}]
  /\ version = [p \in Panes |-> 1]

-----------------------------------------------------------------------------
(* What the peer says.  The handlers work on the peer and on what is on its  *)
(* way to the owner: a record [peer, up].                                    *)

\* What is said where no link is up is dropped.
Send(t, packet) == IF link.up THEN [t EXCEPT !.up = Append(@, packet)] ELSE t

Holds(t, key) == key \in Range(t.peer.told)

Say(t, key) ==
  IF Holds(t, key) THEN t ELSE Send([t EXCEPT !.peer.told = Append(@, key)], key)

Again(t, key) ==
  IF Holds(t, key)
  THEN Send([t EXCEPT !.peer.told = Append(RemoveFirst(@, key), key)], key)
  ELSE t

Forget(t, key) == [t EXCEPT !.peer.told = RemoveFirst(@, key)]

\* What was said before is not said again.
MutAskFor(t, p) == Say(t, <<"mirror", p>>)

AskFor(t, p) ==
  Again(Again(Say(t, <<"mirror", p>>), <<"paused", p>>), <<"focus", p>>)

Pause(t, p) == Say(t, <<"paused", p>>)

Resume(t, p) == Send(Forget(t, <<"paused", p>>), <<"resume", p>>)

\* The panes that have the focus are taken down one at a time, and not once
\* all were told.
Focus(t, p, focused) ==
  IF focused
  THEN Say([t EXCEPT !.peer.focused = @ \cup {p}], <<"focus", p>>)
  ELSE Send(Forget([t EXCEPT !.peer.focused = @ \ {p}], <<"focus", p>>), <<"unfocused", p>>)

\* `RemoteProgram.seen`: the owner is asked once, resumed and paused later.
Seen(t, p) ==
  LET streams == [t EXCEPT !.peer.streaming = @ \cup {p},
                           !.peer.stale = IF link.up THEN @ \cup {p} ELSE @]
  IN IF p \in t.peer.streaming THEN t
     ELSE IF p \in t.peer.asked THEN Resume(streams, p)
     ELSE AskFor([streams EXCEPT !.peer.asked = @ \cup {p}], p)

Unseen(t, p) ==
  IF p \in t.peer.streaming THEN Pause([t EXCEPT !.peer.streaming = @ \ {p}], p) ELSE t

\* `RemoteProgram.kill`, for a pane that left the tree.
Kill(t, p) ==
  LET gone == [t EXCEPT !.peer.tree = @ \ {p}, !.peer.asked = @ \ {p}, !.peer.streaming = @ \ {p},
                        !.peer.stale = @ \ {p}, !.peer.focused = @ \ {p}, !.peer.refused = @ \ {p}]
  IN IF p \in t.peer.asked
     THEN Send(Forget(Forget(Forget(gone, <<"mirror", p>>), <<"paused", p>>), <<"focus", p>>),
               <<"stop", p>>)
     ELSE gone

\* The loops of the handlers: one deed after another, each to a pane.
Do(t, deed, p) ==
  CASE deed = "seen" -> Seen(t, p)
    [] deed = "unseen" -> Unseen(t, p)
    [] deed = "gained" -> Focus(t, p, TRUE)
    [] deed = "lost" -> Focus(t, p, FALSE)
    [] deed = "kill" -> Kill(t, p)

InTurn(t, deed, panes) ==
  LET list == SetToSeq(panes)
      after[n \in 0 .. Len(list)] == IF n = 0 THEN t ELSE Do(after[n - 1], deed[list[n]], list[n])
  IN IF panes = {} THEN t ELSE after[Len(list)]

\* `Peers.sync_sight`: the panes in `seen` are on a screen.
Sight(t, seen) ==
  InTurn(t, [p \in t.peer.tree |-> IF p \in seen THEN "seen" ELSE "unseen"], t.peer.tree)

\* `Focus.sync_panes`: first those that gained the focus, then those that lost it.
FocusOn(t, panes) ==
  InTurn(InTurn(t, [p \in panes |-> "gained"], panes \ t.peer.focused),
         [p \in t.peer.focused |-> "lost"], t.peer.focused \ panes)

\* `MirrorTree.update`.
Update(t, panes) ==
  [InTurn(t, [p \in t.peer.tree |-> "kill"], t.peer.tree \ panes) EXCEPT !.peer.tree = panes]

Handling == [peer |-> peer, up |-> up]

\* A handler is over: what it said is on its way.
Done(t) == peer' = t.peer /\ up' = t.up

SyncSight(seen) ==
  /\ Len(up) < Unsent
  /\ Done(Sight(Handling, seen))
  /\ UNCHANGED <<page, down, link, owner, sources, world>>

SyncFocus(panes) ==
  /\ Len(up) < Unsent
  /\ Done(FocusOn(Handling, panes))
  /\ UNCHANGED <<page, down, link, owner, sources, world>>

-----------------------------------------------------------------------------
(* The link at the peer. *)

\* `_hold` begins a link: the hello, then everything that is held.
Dial ==
  /\ ~link.up /\ link.number < Links
  /\ link' = [number |-> link.number + 1, up |-> TRUE]
  /\ up' = << <<"peer">> >> \o peer.told
  /\ UNCHANGED <<peer, page, down, owner, sources, world>>

\* A link goes, with what is on its way; both ends let it go (`PeerLink.close`).
LinkGoes ==
  /\ link.up /\ link.number < Links
  /\ link' = [link EXCEPT !.up = FALSE]
  /\ up' = << >> /\ down' = << >>
  /\ owner' = NoLink /\ sources' = << >>
  /\ UNCHANGED <<peer, page, world>>

TakeAccepted ==
  /\ down # << >> /\ Head(down)[1] = "accepted"
  /\ down' = Tail(down)
  /\ UNCHANGED <<peer, page, up, link, owner, sources, world>>

\* A tree, and the `invalidate` behind it: clients look at what there is now.
TakeTree(panes, seen) ==
  /\ down # << >> /\ Head(down)[1] = "tree"
  /\ down' = Tail(down)
  /\ LET updated == Update(Handling, Head(down)[2])
     IN /\ panes \subseteq updated.peer.tree /\ seen \subseteq updated.peer.tree
        /\ Done(Sight(FocusOn(updated, panes), seen))
  /\ UNCHANGED <<page, link, owner, sources, world>>

\* What a frame changed is laid on the page that is shown.  On any other than
\* the one it was drawn against, the lines of two pages are mixed.
Mixed == Pages + 1
Laid(shown, since, now) == IF since \in {0, shown} THEN now ELSE Mixed

\* `MirrorSink`: a frame without a sink is dropped.
TakeFrame ==
  /\ down # << >> /\ Head(down)[1] = "frame"
  /\ down' = Tail(down)
  /\ LET p == Head(down)[2]
     IN IF p \in peer.asked
        THEN /\ page' = [page EXCEPT ![p] = Laid(@, Head(down)[3], Head(down)[4])]
             /\ peer' = [peer EXCEPT !.stale = @ \ {p}]
        ELSE UNCHANGED <<page, peer>>
  /\ UNCHANGED <<up, link, owner, sources, world>>

TakeRefusal ==
  /\ down # << >> /\ Head(down)[1] = "refused"
  /\ down' = Tail(down)
  /\ peer' = [peer EXCEPT !.refused = @ \cup ({Head(down)[2]} \cap peer.asked)]
  /\ UNCHANGED <<page, up, link, owner, sources, world>>

Takes ==
  \/ TakeAccepted \/ TakeFrame \/ TakeRefusal
  \/ \E panes, seen \in SUBSET Panes : TakeTree(panes, seen)

-----------------------------------------------------------------------------
(* The owner: what it reads. *)

\* `MirrorSource.queue`: one frame waits at a time, and none of a paused mirror.
Queues(s) == ~s.paused /\ ~s.queued

\* The sources are `s` but for that of p, whose frame waits.
Queued(s, p) ==
  /\ sources' = [q \in Sources \cup {p} |-> IF q = p THEN [s EXCEPT !.queued = s.queued \/ Queues(s)]
                                            ELSE sources[q]]
  /\ owner' = [owner EXCEPT !.queue = IF Queues(s) THEN Append(@, <<"frame", p>>) ELSE @]

Dropped(p) == [q \in Sources \ {p} |-> sources[q]]

\* The next packet for the owner is one of this kind.
Reads(kind) ==
  /\ up # << >> /\ Head(up)[1] = kind
  /\ up' = Tail(up)
  /\ UNCHANGED <<peer, page, link, world>>

OfPane == Head(up)[2]

\* The answer is on the line at once. In the code it waits for the writer, and
\* a refusal written by a task of its own (`lost`) may pass it: the peer then
\* gives the link up and dials again, as when a link goes (`LinkGoes`).
OnPeer ==
  /\ Reads("peer")
  /\ down' = << <<"accepted">> >>
  /\ UNCHANGED <<owner, sources>>

OnWatch ==
  /\ Reads("watch")
  /\ owner' = [owner EXCEPT !.watching = TRUE]
  /\ UNCHANGED <<down, sources>>

OnMirror ==
  /\ Reads("mirror")
  /\ CASE OfPane \in Sources -> UNCHANGED <<owner, sources>>
       [] OfPane \notin Sources \cup Alive ->
            owner' = [owner EXCEPT !.refusing = @ \cup {OfPane}] /\ UNCHANGED sources
       [] OTHER -> Queued(NewSource, OfPane)
  /\ UNCHANGED down

OnPause ==
  /\ Reads("paused")
  /\ sources' = [p \in Sources |-> [sources[p] EXCEPT !.paused = @ \/ p = OfPane]]
  /\ UNCHANGED <<down, owner>>

\* A resume owes no answer.
MutResumed(s) == [s EXCEPT !.paused = FALSE]

Resumed(s) == [s EXCEPT !.paused = FALSE, !.owed = TRUE]

OnResume ==
  /\ Reads("resume")
  /\ IF OfPane \in Sources /\ sources[OfPane].paused
     THEN Queued(Resumed(sources[OfPane]), OfPane)
     ELSE UNCHANGED <<owner, sources>>
  /\ UNCHANGED down

OnStop ==
  /\ Reads("stop")
  /\ sources' = Dropped(OfPane)
  /\ UNCHANGED <<down, owner>>

OnFocus ==
  /\ Reads("focus") \/ Reads("unfocused")
  /\ sources' = [p \in Sources |->
       IF p = OfPane THEN [sources[p] EXCEPT !.focused = Head(up)[1] = "focus"] ELSE sources[p]]
  /\ UNCHANGED <<down, owner>>

OwnerReads ==
  OnPeer \/ OnWatch \/ OnMirror \/ OnPause \/ OnResume \/ OnStop \/ OnFocus

-----------------------------------------------------------------------------
(* The owner: what it writes (`PeerLink.run`), one packet at a time. *)

HasRoom == Len(down) < Room

WriteTree ==
  /\ HasRoom /\ owner.queue # << >> /\ Head(owner.queue)[1] = "tree"
  /\ down' = Append(down, Head(owner.queue))
  /\ owner' = [owner EXCEPT !.queue = Tail(@)]
  /\ UNCHANGED <<peer, page, up, link, sources, world>>

\* A paused mirror's writer goes on, with nothing sent.
MutFramedAnyway(s, now) ==
  IF s.paused THEN [s EXCEPT !.queued = FALSE, !.sent = now]
  ELSE [s EXCEPT !.queued = FALSE, !.owed = FALSE, !.sent = now]

\* `MirrorSource.frame`: the source once its frame was built, of page `now`.
Framed(s, now) ==
  IF s.paused THEN [s EXCEPT !.queued = FALSE]
  ELSE [s EXCEPT !.queued = FALSE, !.owed = FALSE, !.sent = now]

\* The turn of a frame: it says what changed since the one before, and is not
\* sent for a page that stands still, unless the peer waits for an answer.
WriteFrame ==
  /\ HasRoom /\ owner.queue # << >> /\ Head(owner.queue)[1] = "frame"
  /\ owner' = [owner EXCEPT !.queue = Tail(@)]
  /\ LET p == Head(owner.queue)[2]
     IN IF p \in Sources
        THEN LET s == sources[p]
                 sends == ~s.paused /\ (s.sent # version[p] \/ s.owed)
             IN /\ sources' = [sources EXCEPT ![p] = Framed(s, version[p])]
                /\ down' = IF sends THEN Append(down, <<"frame", p, s.sent, version[p]>>) ELSE down
        ELSE UNCHANGED <<sources, down>>
  /\ UNCHANGED <<peer, page, up, link, world>>

\* A frame that cannot be built ends its mirror (`lost`).
FrameFails ==
  /\ HasRoom /\ owner.queue # << >> /\ Head(owner.queue)[1] = "frame"
  /\ LET p == Head(owner.queue)[2]
     IN /\ p \in Sources /\ ~sources[p].paused
        /\ sources' = Dropped(p)
        /\ owner' = [owner EXCEPT !.queue = Tail(@), !.refusing = @ \cup {p}]
  /\ UNCHANGED <<peer, page, wire, world>>

\* `send_packet` writes from a task of its own, not by the queue.
Refuse(p) ==
  /\ HasRoom /\ p \in owner.refusing
  /\ owner' = [owner EXCEPT !.refusing = @ \ {p}]
  /\ down' = Append(down, <<"refused", p>>)
  /\ UNCHANGED <<peer, page, up, link, sources, world>>

\* `_send_trees` finds the sessions changed.
QueueTree ==
  /\ owner.watching /\ owner.shown # {Alive}
  /\ owner' = [owner EXCEPT !.shown = {Alive}, !.queue = Append(@, <<"tree", Alive>>)]
  /\ UNCHANGED <<peer, page, wire, sources, world>>

Writes == WriteTree \/ WriteFrame

-----------------------------------------------------------------------------
(* The owner's panes. *)

Open(p) ==
  /\ life[p] = "unborn"
  /\ life' = [life EXCEPT ![p] = "alive"]
  /\ UNCHANGED <<peer, page, wire, owner, sources, version>>

\* The source of a pane that ends stays until the peer stops it.
Ends(p) ==
  /\ life[p] = "alive"
  /\ life' = [life EXCEPT ![p] = "gone"]
  /\ UNCHANGED <<peer, page, wire, owner, sources, version>>

\* A program writes, and its followers hear it.
Prints(p) ==
  /\ life[p] = "alive" /\ version[p] < Pages
  /\ version' = [version EXCEPT ![p] = @ + 1]
  /\ IF p \in Sources THEN Queued(sources[p], p) ELSE UNCHANGED <<owner, sources>>
  /\ UNCHANGED <<peer, page, wire, life>>

-----------------------------------------------------------------------------
MirrorNext ==
  \/ \E panes \in SUBSET peer.tree : SyncSight(panes) \/ SyncFocus(panes)
  \/ Dial \/ LinkGoes \/ Takes \/ OwnerReads \/ Writes \/ FrameFails \/ QueueTree
  \/ \E p \in Panes : Refuse(p) \/ Open(p) \/ Ends(p) \/ Prints(p)

MirrorSpec == MirrorInit /\ [][MirrorNext]_mirrorVars

\* Both loops run, and the peer dials until a link stands.  No frame has to
\* fail, no program to write, and nobody to look or to look away.
FairSpec ==
  /\ MirrorSpec
  /\ WF_mirrorVars(Dial) /\ WF_mirrorVars(Takes) /\ WF_mirrorVars(OwnerReads) /\ WF_mirrorVars(Writes) /\ WF_mirrorVars(QueueTree)
  /\ \A p \in Panes : WF_mirrorVars(Refuse(p))

-----------------------------------------------------------------------------
\* The owner does not lend the pane, and the peer was told.
Refused(p) == p \in peer.refused \ Sources

\* Once the owner has read everything, it lends what the peer asked for or says
\* that it does not, streams what somebody at the peer sees, holds back the rest,
\* and has the focus where they have it, whatever was said before a pane was
\* asked for and whichever links went in between.
OwnerFollows ==
  link.up /\ up = << >> =>
    /\ Sources \subseteq peer.asked
    /\ \A p \in peer.asked \ Sources :
         p \in peer.refused \cup owner.refusing \/ <<"refused", p>> \in Range(down)
    /\ \A p \in Sources :
         sources[p].paused = (p \notin peer.streaming) /\ sources[p].focused = (p \in peer.focused)

\* The mirror shows pages that the program had, whole and in their order,
\* across pauses, refusals and links: every frame that is laid on a page was
\* drawn against that very page, and none comes after a newer one.
Shown == INSTANCE PageSpec
ShowsItsPages == Shown!PageSpecification

\* A pane that somebody keeps looking at shows the newest page in the end, and
\* the frames of its clients, which are held while it is stale
\* (`HOLD_FOR_FRESH`), are not held for one that never comes: the page may not
\* have changed at all while nobody looked.
NewestIsShown ==
  \A p \in Panes :
    []<>(\/ p \notin peer.streaming \/ Refused(p)
         \/ p \notin peer.stale /\ page[p] = version[p])

\* The comment on `stale`: the frame that ends it was built after the owner was
\* asked again.  It does not hold: one from before the pause may still be on its way.
FreshIsNew ==
  [][\A p \in peer.stale \ peer'.stale :
       link'.up /\ p \in peer.asked /\ p \in peer'.asked => <<"resume", p>> \notin Range(up)]_mirrorVars

=============================================================================
