------------------------------- MODULE Pacing -------------------------------
(***************************************************************************)
(* When the frame that one client asked for goes out to its terminal:      *)
(* `should_skip_render` of connection/client_state.py with what it asks,   *)
(* the status reports of connection/pacing.py, the holds of                *)
(* connection/frame_holds.py, and the two users of a hold (the lookups of  *)
(* connection/lookups.py and a mirrored pane that is shown again).         *)
(*                                                                         *)
(* A redraw is external (prompt_toolkit): an `invalidate` that finds none  *)
(* asked for asks for one; the application then tells `on_invalidate`      *)
(* (`client_asked_for_frame`), and redraws later.  One skip of a frame     *)
(* forgets that it was asked for, so whatever skips must know who will     *)
(* ask again.  That is the question here.                                  *)
(***************************************************************************)
EXTENDS Naturals, Sequences, FiniteSets

CONSTANTS
  Keys,         \* what may hold the frames of this client
  Lookup,       \* the key of the lookups on its command line
  Sizes,        \* the sizes of a frame
  Limits,       \* values of <<frames-in-flight, bytes-in-flight>>, 0 for none
  MaxUnread,    \* a bound: reports without an answer
  MaxWakes,     \* a bound: wake-ups of one key that are asleep
  Disturbances  \* a bound: inputs, holds and flushes that are no frame

ASSUME PacingAssumption ==
  /\ Lookup \in Keys
  /\ Sizes \subseteq Nat \ {0}
  /\ Limits \subseteq Nat \X Nat
  /\ MaxUnread \in Nat /\ MaxWakes \in Nat /\ Disturbances \in Nat

VARIABLES
  redraw,     \* "no", "asked", or "scheduled": `on_invalidate` ran
  dirty,      \* the terminal was not sent what it should show
  stale,      \* `input_tick` differs from `schedule_tick`
  holds,      \* by key: "no", "on", or "late" when its deadline passed
  results,    \* by key: the parts of the result that are on their way
  wakes,      \* by key: the `_wake_after` tasks that sleep
  limits,     \* the client's options
  unread,     \* `unread`: the sizes of the frames whose report is open
  answered,   \* `answers_reports`
  held,       \* `frame_held`
  wire,       \* the reports that a terminal which answers has not read
  replies,    \* its answers on their way to the server
  terminal,   \* "answers" each report, "ignores" them, or went "quiet"
  route,      \* "socket", or "memory" where bytes pile up in this process
  behind,     \* the pipe in memory holds bytes that its terminal did not take
  left        \* the disturbances that may still come

vars == <<redraw, dirty, stale, holds, results, wakes, limits, unread, answered,
          held, wire, replies, terminal, route, behind, left>>

drawing == <<redraw, dirty, stale>>
holding == <<holds, results, wakes>>
reports == <<unread, answered, held>>
link == <<wire, replies, terminal, route, behind>>

\* The parts of a result: the two lookups of a line, or the page of a mirror.
Parts(k) == IF k = Lookup THEN {"suggestion", "completion"} ELSE {"page"}

\* The bytes of some frames, each by its frame and its place in it.
BytesIn(frames) == UNION {{i} \X (1 .. frames[i]) : i \in DOMAIN frames}

Bytes(frames) == Cardinality(BytesIn(frames))

PacingTypeOK ==
  /\ redraw \in {"no", "asked", "scheduled"}
  /\ dirty \in BOOLEAN /\ stale \in BOOLEAN
  /\ holds \in [Keys -> {"no", "on", "late"}]
  /\ results \in [Keys -> SUBSET {"suggestion", "completion", "page"}]
  /\ wakes \in [Keys -> Nat]
  /\ limits \in Limits
  /\ unread \in Seq(Sizes) /\ wire \in Seq(Sizes) /\ replies \in Nat
  /\ answered \in BOOLEAN /\ held \in BOOLEAN /\ behind \in BOOLEAN
  /\ terminal \in {"answers", "ignores", "quiet"}
  /\ route \in {"socket", "memory"}
  /\ left \in 0..Disturbances

Init ==
  /\ redraw = "no" /\ dirty = FALSE /\ stale = FALSE
  /\ holds = [k \in Keys |-> "no"]
  /\ results = [k \in Keys |-> {}]
  /\ wakes = [k \in Keys |-> 0]
  /\ limits \in Limits
  /\ unread = <<>> /\ wire = <<>> /\ replies = 0
  /\ answered = FALSE /\ held = FALSE /\ behind = FALSE
  /\ terminal \in {"answers", "ignores"}
  /\ route \in {"socket", "memory"}
  /\ left = Disturbances

Disturb == left > 0 /\ left' = left - 1

-----------------------------------------------------------------------------
(* What asks for a frame.                                                  *)

\* `Application.invalidate`: nothing while a redraw is asked for already.
Ask(r) == IF r = "no" THEN "asked" ELSE r

\* Something on the screen changed, and its owner said so.
Change ==
  /\ dirty' = TRUE
  /\ redraw' = Ask(redraw)
  /\ UNCHANGED <<stale, holding, limits, reports, link, left>>

\* `client_asked_for_frame` of this client: the redraw follows, and what
\* came in before has been handled.
Schedule ==
  /\ redraw = "asked"
  /\ redraw' = "scheduled"
  /\ stale' = FALSE
  /\ UNCHANGED <<dirty, holding, limits, reports, link, left>>

\* `refresh_what_time_moves` for another client, or on the clock: the tick
\* of every client is recorded, and this one is asked if its text moved.
OthersSchedule ==
  /\ stale' = FALSE
  /\ \/ UNCHANGED <<redraw, dirty>>
     \/ dirty' = TRUE /\ redraw' = Ask(redraw)
  /\ UNCHANGED <<holding, limits, reports, link, left>>

\* `hold`: a key held again starts again, and the old wake-up still comes.
Hold(k) ==
  /\ wakes[k] < MaxWakes
  /\ holds' = [holds EXCEPT ![k] = "on"]
  /\ wakes' = [wakes EXCEPT ![k] = @ + 1]

\* A key arrives and is handled: `_on_input`.  Typed into a line it starts
\* the lookups of that line (`Lookups._inserted`), in place of older ones.
Input ==
  /\ Disturb
  /\ stale' = TRUE
  /\ dirty' = TRUE
  /\ redraw' = Ask(redraw)
  /\ \/ UNCHANGED holding
     \/ /\ Hold(Lookup)
        /\ \E started \in SUBSET Parts(Lookup) \ {{}} :
              results' = [results EXCEPT ![Lookup] = started]
  /\ UNCHANGED <<limits, reports, link>>

\* A mirrored pane is shown again and its page is old: `Peers.sync_sight`,
\* which `invalidate` calls after it asked the client for a frame.
ShowMirror(k) ==
  /\ k # Lookup
  /\ results[k] = {}
  /\ Disturb
  /\ Hold(k)
  /\ results' = [results EXCEPT ![k] = Parts(k)]
  /\ dirty' = TRUE
  /\ redraw' = Ask(redraw)
  /\ UNCHANGED <<stale, limits, reports, link>>

-----------------------------------------------------------------------------
(* What ends a hold.                                                       *)

\* `release`: the client is asked only if the key was held.
Release(k) ==
  /\ holds' = [holds EXCEPT ![k] = "no"]
  /\ redraw' = IF holds[k] = "no" THEN redraw ELSE Ask(redraw)

\* A part of a result is in.  The last lookup releases the hold
\* (`Lookups._ended`); a page redraws its pane, and is found by `waiting`.
PartEnds(k) ==
  \E part \in results[k] :
    /\ results' = [results EXCEPT ![k] = @ \ {part}]
    /\ IF k = Lookup
         THEN /\ IF results[k] = {part} THEN Release(k) ELSE UNCHANGED <<holds, redraw>>
              /\ UNCHANGED dirty
         ELSE dirty' = TRUE /\ redraw' = Ask(redraw) /\ UNCHANGED holds
    /\ UNCHANGED <<stale, wakes, limits, reports, link, left>>

DeadlinePasses(k) ==
  /\ holds[k] = "on"
  /\ holds' = [holds EXCEPT ![k] = "late"]
  /\ UNCHANGED <<drawing, results, wakes, limits, reports, link, left>>

\* `_wake_after`.  The last one belongs to the latest hold, and it slept at
\* least as long as that may last.
Wake(k) ==
  /\ wakes[k] > 0
  /\ wakes[k] = 1 => holds[k] # "on"
  /\ wakes' = [wakes EXCEPT ![k] = @ - 1]
  /\ redraw' = Ask(redraw)
  /\ UNCHANGED <<dirty, stale, holds, results, limits, reports, link, left>>

-----------------------------------------------------------------------------
(* The redraw: `should_skip_render`, and the frame.                        *)

\* The keys that `waiting` finds on their way; it drops the others.
StillWaiting == {k \in Keys : holds[k] = "on" /\ results[k] # {}}

DropTheRest == holds' = [k \in Keys |-> IF k \in StillWaiting THEN "on" ELSE "no"]

\* A terminal that never answered is waited for as well.
MutWaits(sent, known) ==
  /\ sent # <<>>
  /\ \/ limits[1] > 0 /\ Len(sent) >= limits[1]
     \/ limits[2] > 0 /\ Bytes(sent) >= limits[2]

\* `waits_for_terminal`, of the frames in `sent`.
WaitsForTerminal(sent, known) ==
  /\ known
  /\ sent # <<>>
  /\ \/ limits[1] > 0 /\ Len(sent) >= limits[1]
     \/ limits[2] > 0 /\ Bytes(sent) >= limits[2]

\* The report is written, and not counted.
MutFlush(size) ==
  /\ IF terminal = "ignores"
       THEN UNCHANGED wire
       ELSE Len(wire) < MaxUnread /\ wire' = Append(wire, size)
  /\ UNCHANGED unread

\* `flush` with something in it, and the report behind it.  A terminal that
\* ignores reports lets `unread` grow for good: past the bound it stays.
Flush(size) ==
  /\ IF terminal = "ignores"
       THEN UNCHANGED wire
       ELSE Len(unread) < MaxUnread /\ wire' = Append(wire, size)
  /\ unread' = IF Len(unread) < MaxUnread THEN Append(unread, size) ELSE unread

\* Input came after the redraw was scheduled: skipped, and asked for again.
SkipStale ==
  /\ stale
  /\ redraw' = "asked"
  /\ UNCHANGED <<dirty, stale, holding, limits, reports, link, left>>

\* A result is on its way: it, or the end of its hold, asks again.
SkipHeld ==
  /\ ~stale
  /\ StillWaiting # {}
  /\ DropTheRest
  /\ redraw' = "no"
  /\ UNCHANGED <<dirty, stale, results, wakes, limits, reports, link, left>>

\* The terminal has not read what it was sent: its answer asks again.
SkipUnread ==
  /\ ~stale
  /\ StillWaiting = {}
  /\ WaitsForTerminal(unread, answered)
  /\ DropTheRest
  /\ held' = TRUE
  /\ redraw' = "no"
  /\ UNCHANGED <<dirty, stale, results, wakes, limits, unread, answered, link, left>>

MayGo ==
  /\ ~stale
  /\ StillWaiting = {}
  /\ ~ WaitsForTerminal(unread, answered)

\* The bytes pile up in this process: nobody answers, so the skip asks.
SkipBehind ==
  /\ MayGo
  /\ behind
  /\ DropTheRest
  /\ redraw' = "asked"
  /\ UNCHANGED <<dirty, stale, results, wakes, limits, reports, link, left>>

Draw ==
  /\ MayGo
  /\ ~behind
  /\ DropTheRest
  /\ redraw' = "no"
  /\ dirty' = FALSE
  /\ \E size \in Sizes : Flush(size)
  /\ behind' = (route = "memory")
  /\ UNCHANGED <<stale, results, wakes, limits, answered, held, replies, terminal, route, left>>

Redraw ==
  /\ redraw = "scheduled"
  /\ SkipStale \/ SkipHeld \/ SkipUnread \/ SkipBehind \/ Draw

\* A flush that is no frame: a query, a bell, the images behind a frame.
FlushOther ==
  /\ Disturb
  /\ \E size \in Sizes : Flush(size)
  /\ UNCHANGED <<drawing, holding, limits, answered, held, replies, terminal, route, behind>>

\* `set-option frames-in-flight` and its like.
SetLimits ==
  /\ limits' \in Limits \ {limits}
  /\ Disturb
  /\ UNCHANGED <<drawing, holding, reports, link>>

-----------------------------------------------------------------------------
(* The terminal.                                                           *)

TerminalReads ==
  /\ wire # <<>>
  /\ terminal = "answers"
  /\ wire' = Tail(wire)
  /\ replies' = replies + 1
  /\ UNCHANGED <<drawing, holding, limits, reports, terminal, route, behind, left>>

\* The link of a phone that lost its signal.
GoQuiet ==
  /\ terminal = "answers"
  /\ terminal' = "quiet"
  /\ UNCHANGED <<drawing, holding, limits, reports, wire, replies, route, behind, left>>

\* `status_answered`: a frame held back for the terminal can draw.
StatusAnswered ==
  /\ replies > 0
  /\ replies' = replies - 1
  /\ unread' = IF unread = <<>> THEN <<>> ELSE Tail(unread)
  /\ answered' = TRUE
  /\ IF held /\ ~ WaitsForTerminal(unread', TRUE)
       THEN held' = FALSE /\ redraw' = Ask(redraw)
       ELSE UNCHANGED <<held, redraw>>
  /\ UNCHANGED <<dirty, stale, holding, limits, wire, terminal, route, behind, left>>

TakeBytes ==
  /\ behind
  /\ behind' = FALSE
  /\ UNCHANGED <<drawing, holding, limits, reports, wire, replies, terminal, route, left>>

-----------------------------------------------------------------------------
Next ==
  \/ Change \/ Schedule \/ OthersSchedule \/ Input
  \/ \E k \in Keys : ShowMirror(k) \/ PartEnds(k) \/ DeadlinePasses(k) \/ Wake(k)
  \/ Redraw \/ FlushOther \/ SetLimits
  \/ TerminalReads \/ GoQuiet \/ StatusAnswered \/ TakeBytes

\* The loop runs what is ready, a sleep ends, and a terminal that is there
\* reads; nobody is bound to type, to change anything or to finish a lookup.
Fairness ==
  /\ WF_vars(Schedule) /\ WF_vars(Redraw)
  /\ WF_vars(TerminalReads) /\ WF_vars(StatusAnswered) /\ WF_vars(TakeBytes)
  /\ \A k \in Keys : WF_vars(DeadlinePasses(k)) /\ WF_vars(Wake(k))

Spec == Init /\ [][Next]_vars /\ Fairness

-----------------------------------------------------------------------------
(* Properties.                                                             *)

\* A screen that is behind has somebody who asks for its frame: a redraw is
\* on its way, or an answer of the terminal is owed for it, or a hold of
\* the client has a wake-up to come.  A skip in `should_skip_render` asks
\* for nothing itself, and relies on this.
NothingForgotten ==
  dirty => \/ redraw # "no"
           \/ held /\ unread # <<>>
           \/ \E k \in Keys : holds[k] # "no" /\ wakes[k] > 0

\* "never a backlog": once the terminal answered one report, no frame joins
\* as many frames, or as many bytes, as the options allow of what the
\* terminal really did not read, though the answers are late and though
\* other things were flushed.
NoBacklog ==
  [][answered /\ dirty /\ ~dirty' => ~ WaitsForTerminal(wire, TRUE)]_vars

\* The newest screen is drawn in the end, for a terminal that answers and
\* for one that never does; only a terminal that answered and went quiet
\* may keep its last frame.
NewestIsDrawn == dirty ~> (~dirty \/ terminal = "quiet")
=============================================================================
