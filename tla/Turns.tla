------------------------------- MODULE Turns --------------------------------
(***************************************************************************)
(* `Turns` (pymux/pipes/base.py): whose turn it is to write on a           *)
(* connection. A writer is a task; the code of one task between two        *)
(* awaits is one action. `anyio.Event.set` and the wake-up of the task     *)
(* that awaits it are two steps of the loop, and between them the task can *)
(* be cancelled: that is where a turn could get lost.                      *)
(***************************************************************************)
EXTENDS Naturals, Sequences, SequencesExt

CONSTANTS Writers, NoWriter

ASSUME WritersAssumption == NoWriter \notin Writers

VARIABLES
    held,       \* `_held`
    urgent,     \* `_urgent`, the writers whose events wait in it
    waiting,    \* `_waiting`
    handed,     \* writers whose event is set and who have not run since
    pc          \* where each writer is: "out", "queued" or "writing"

turnVars == <<held, urgent, waiting, handed, pc>>

TurnsInit ==
    /\ held = FALSE
    /\ urgent = <<>>
    /\ waiting = <<>>
    /\ handed = {}
    /\ pc = [w \in Writers |-> "out"]

-----------------------------------------------------------------------------
Queued == ToSet(urgent) \cup ToSet(waiting)

Once(queue) == \A i, j \in DOMAIN queue : queue[i] = queue[j] => i = j

\* `deque.remove` of a writer's own event, which is in it once.
Without(queue, w) ==
    LET at == CHOOSE i \in DOMAIN queue : queue[i] = w
    IN  [i \in 1..(Len(queue) - 1) |-> IF i < at THEN queue[i] ELSE queue[i + 1]]

\* Ways it could go wrong: the two queues swapped, and a queue nobody looks
\* into.
MutReleaseUrgentLast(freed) ==
    IF waiting # <<>> THEN
        /\ waiting' = Tail(waiting)
        /\ handed' = (handed \ freed) \cup {Head(waiting)}
        /\ UNCHANGED <<held, urgent>>
    ELSE IF urgent # <<>> THEN
        /\ urgent' = Tail(urgent)
        /\ handed' = (handed \ freed) \cup {Head(urgent)}
        /\ UNCHANGED <<held, waiting>>
    ELSE
        /\ held' = FALSE
        /\ handed' = handed \ freed
        /\ UNCHANGED <<urgent, waiting>>

MutReleaseOnlyUrgent(freed) ==
    /\ held' = (urgent # <<>>)
    /\ urgent' = IF urgent # <<>> THEN Tail(urgent) ELSE urgent
    /\ handed' = (handed \ freed) \cup (IF urgent # <<>> THEN {Head(urgent)} ELSE {})
    /\ UNCHANGED waiting

\* `_release`: the turn is handed over, still held, to the urgent queue's
\* head, else to the other queue's, else it is free. `freed` leaves `handed`.
Release(freed) ==
    IF urgent # <<>> THEN
        /\ urgent' = Tail(urgent)
        /\ handed' = (handed \ freed) \cup {Head(urgent)}
        /\ UNCHANGED <<held, waiting>>
    ELSE IF waiting # <<>> THEN
        /\ waiting' = Tail(waiting)
        /\ handed' = (handed \ freed) \cup {Head(waiting)}
        /\ UNCHANGED <<held, urgent>>
    ELSE
        /\ held' = FALSE
        /\ handed' = handed \ freed
        /\ UNCHANGED <<urgent, waiting>>

-----------------------------------------------------------------------------
\* `_acquire` of a turn nobody holds.
AcquireFree(w) ==
    /\ pc[w] = "out"
    /\ ~held
    /\ held' = TRUE
    /\ pc' = [pc EXCEPT ![w] = "writing"]
    /\ UNCHANGED <<urgent, waiting, handed>>

\* `_acquire` of a held turn: the writer queues, and awaits its event.
AcquireHeld(w, hurry) ==
    /\ pc[w] = "out"
    /\ held
    /\ IF hurry
       THEN urgent' = Append(urgent, w) /\ UNCHANGED waiting
       ELSE waiting' = Append(waiting, w) /\ UNCHANGED urgent
    /\ pc' = [pc EXCEPT ![w] = "queued"]
    /\ UNCHANGED <<held, handed>>

\* The event was set and the loop runs the writer again.
Wake(w) ==
    /\ pc[w] = "queued"
    /\ w \in handed
    /\ handed' = handed \ {w}
    /\ pc' = [pc EXCEPT ![w] = "writing"]
    /\ UNCHANGED <<held, urgent, waiting>>

\* Cancelled before the turn came: the event leaves its queue.
CancelQueued(w) ==
    /\ pc[w] = "queued"
    /\ w \in Queued
    /\ IF w \in ToSet(urgent)
       THEN urgent' = Without(urgent, w) /\ UNCHANGED waiting
       ELSE waiting' = Without(waiting, w) /\ UNCHANGED urgent
    /\ pc' = [pc EXCEPT ![w] = "out"]
    /\ UNCHANGED <<held, handed>>

\* A way it could go wrong: the writer is gone, and the turn with it.
MutCancelHandedKeeps(w) ==
    /\ pc[w] = "queued"
    /\ w \in handed
    /\ handed' = handed \ {w}
    /\ pc' = [pc EXCEPT ![w] = "out"]
    /\ UNCHANGED <<held, urgent, waiting>>

\* Cancelled after the turn came and before the writer ran: it passes it on.
CancelHanded(w) ==
    /\ pc[w] = "queued"
    /\ w \in handed
    /\ Release({w})
    /\ pc' = [pc EXCEPT ![w] = "out"]

\* The `async with` ends: written, failed or cancelled inside it.
Leave(w) ==
    /\ pc[w] = "writing"
    /\ Release({})
    /\ pc' = [pc EXCEPT ![w] = "out"]

TurnsNext ==
    \E w \in Writers :
        \/ AcquireFree(w)
        \/ \E hurry \in BOOLEAN : AcquireHeld(w, hurry)
        \/ Wake(w)
        \/ CancelQueued(w)
        \/ CancelHanded(w)
        \/ Leave(w)

TurnsSafety == TurnsInit /\ [][TurnsNext]_turnVars

-----------------------------------------------------------------------------
(* Properties. *)

\* The types, for the whole module.
TurnsTypeOK ==
    /\ held \in BOOLEAN
    /\ urgent \in Seq(Writers)
    /\ waiting \in Seq(Writers)
    /\ handed \subseteq Writers
    /\ pc \in [Writers -> {"out", "queued", "writing"}]

\* The writers that are past the queue: one at it, or one it was handed to.
Holders == {w \in Writers : pc[w] = "writing"} \cup handed

\* Frames of two writers never mix: at most one is between `_acquire` and
\* `_release`, counting one the turn was handed to and that has not run yet.
OneTurn == \A v, w \in Holders : v = w

\* No turn is lost and none is made up: the connection counts as held exactly
\* while somebody has the turn, so no writer is queued behind nobody, however
\* cancellations fall between the hand-over and the wake-up.
NoTurnLost ==
    /\ held <=> Holders # {}
    /\ Queued # {} => held

\* A writer's event is in one queue, once, or set, exactly while it waits.
QueuedOnce ==
    /\ \A w \in Writers : pc[w] = "queued" <=> w \in Queued \cup handed
    /\ Queued \cap handed = {}
    /\ ToSet(urgent) \cap ToSet(waiting) = {}
    /\ Once(urgent)
    /\ Once(waiting)

\* The inductive invariant: the three above, with the types.
TurnsInv == TurnsTypeOK /\ OneTurn /\ NoTurnLost /\ QueuedOnce

\* "one writer at a time, in the order they came: but an urgent writer goes
\* ahead": whoever is handed the turn was at the head of the urgent queue, or
\* of the other one with no urgent writer waiting.
InOrder ==
    [][\A w \in handed' \ handed :
          \/ urgent # <<>> /\ w = Head(urgent)
          \/ urgent = <<>> /\ waiting # <<>> /\ w = Head(waiting)]_turnVars

\* The writer at it, or the one it was handed to.
Owner == IF Holders = {} THEN NoWriter ELSE CHOOSE w \in Writers : w \in Holders

\* The module does what TurnSpec promises: somebody has the turn or nobody
\* wants it, and it never passes over an urgent writer.
Abstract == INSTANCE TurnSpec WITH
    owner <- Owner, wants <- Queued, hurries <- ToSet(urgent)

RefinesTurnSpec == Abstract!TurnSpecification

\* Sound gets out: an urgent writer that queued writes or gives up, since
\* every writer ahead of it leaves in the end.
UrgentGetsTheTurn ==
    \A w \in Writers : w \in ToSet(urgent) ~> pc[w] # "queued"

=============================================================================
