-------------------------- MODULE SocketConnection --------------------------
(***************************************************************************)
(* The writing side of `PosixSocketConnection` (pymux/pipes/posix.py): the *)
(* packets many tasks write to one client, each inside its turn of         *)
(* `Turns`, the count of what is outstanding, the stream's turn to zstd,   *)
(* and the tasks that wait for the connection to be drained.               *)
(*                                                                         *)
(* A writer is a task. Most belong to the connection and are cancelled     *)
(* only with its scope, which ends after it closed (`serve`). The others   *)
(* are visitors: `say_restarting` is awaited by the command of another     *)
(* client, and cancelled when that client goes.                            *)
(***************************************************************************)
EXTENDS Turns, FiniteSets

CONSTANTS
    Visitors,   \* the writers that belong to another connection
    Drainers,   \* the tasks that call `drained`
    Sizes,      \* the sizes a packet can have
    TooSlow     \* `TOO_SLOW_BYTES`

ASSUME SocketAssumption ==
    /\ Visitors \subseteq Writers
    /\ Sizes \subseteq Nat \ {0}
    /\ TooSlow \in Nat

VARIABLES
    closed,         \* `_closed`
    ended,          \* whether the scope of the connection was cancelled
    outstanding,    \* `_outstanding`
    size,           \* the bytes each writer counted in it
    turning,        \* the writer whose packet has `compress_after`
    compressor,     \* whether `_compressor` is there
    midway,         \* the writer whose packet is in the stream in part
    form,           \* how each writer's packet went in: "none", "plain" or "zstd"
    torn,           \* a writer that left its packet in part, if one did
    empty,          \* `_empty`: "none", "unset" or "set"
    drain           \* each drainer: "out", "waiting" on `_empty`, or "woken"

streamVars == <<turning, compressor, midway, form, torn>>
drainVars == <<empty, drain>>
socketVars == <<turnVars, closed, ended, outstanding, size, streamVars, drainVars>>

SocketInit ==
    /\ TurnsInit
    /\ closed = FALSE
    /\ ended = FALSE
    /\ outstanding = 0
    /\ size = [w \in Writers |-> 0]
    /\ turning = NoWriter
    /\ compressor = FALSE
    /\ midway = NoWriter
    /\ form = [w \in Writers |-> "none"]
    /\ torn = NoWriter
    /\ empty = "none"
    /\ drain = [d \in Drainers |-> "out"]

-----------------------------------------------------------------------------
\* `self._empty.set()`, where there is one: everybody that waits on it wakes.
SetEmpty ==
    /\ empty' = IF empty = "none" THEN "none" ELSE "set"
    /\ drain' = [d \in Drainers |-> IF drain[d] = "waiting" THEN "woken" ELSE drain[d]]

\* A way it could go wrong: a cancelled write goes on counting.
MutUncountForgets(w) ==
    /\ size' = [size EXCEPT ![w] = 0]
    /\ UNCHANGED <<outstanding, drainVars>>

\* The `finally` of `write`: the packet no longer counts.
Uncount(w) ==
    /\ outstanding' = outstanding - size[w]
    /\ size' = [size EXCEPT ![w] = 0]
    /\ IF outstanding' = 0 THEN SetEmpty ELSE UNCHANGED drainVars

\* A way it could go wrong: a close that leaves the drainers asleep.
MutCloseWakesNobody(w) ==
    /\ outstanding' = outstanding - size[w]
    /\ size' = [size EXCEPT ![w] = 0]
    /\ closed' = TRUE
    /\ UNCHANGED drainVars

\* A write that raised lets the client go (`write_encoded`), and `close`
\* wakes the drainers too.
UncountAndClose(w) ==
    /\ outstanding' = outstanding - size[w]
    /\ size' = [size EXCEPT ![w] = 0]
    /\ closed' = TRUE
    /\ SetEmpty

\* A writer whose packet did not go out whole leaves the stream.
Abandon(w) ==
    /\ torn' = IF midway = w /\ torn = NoWriter THEN w ELSE torn
    /\ midway' = IF midway = w THEN NoWriter ELSE midway
    /\ form' = [form EXCEPT ![w] = "none"]
    /\ turning' = IF turning = w THEN NoWriter ELSE turning
    /\ UNCHANGED compressor

\* A way it could go wrong: writes run in scopes that end while the
\* connection goes on.
MutCancellableAlways(w) == TRUE

\* Whether the scope that runs a writer can be cancelled now.
Cancellable(w) == w \in Visitors \/ ended

-----------------------------------------------------------------------------
\* A way it could go wrong: a packet that turns the stream before it went out.
MutWriteTurnsTheStream(w, bytes, hurry, compressAfter) ==
    /\ ~closed
    /\ outstanding <= TooSlow
    /\ AcquireFree(w) \/ AcquireHeld(w, hurry)
    /\ outstanding' = outstanding + bytes
    /\ size' = [size EXCEPT ![w] = bytes]
    /\ compressor' = (compressor \/ compressAfter)
    /\ UNCHANGED <<closed, ended, turning, midway, form, torn, drainVars>>

\* `write`, up to its first await: the packet counts from here on.
Write(w, bytes, hurry, compressAfter) ==
    /\ ~closed
    /\ outstanding <= TooSlow
    /\ AcquireFree(w) \/ AcquireHeld(w, hurry)
    /\ outstanding' = outstanding + bytes
    /\ size' = [size EXCEPT ![w] = bytes]
    /\ compressAfter => turning = NoWriter /\ ~compressor /\ w \notin Visitors
    /\ turning' = IF compressAfter THEN w ELSE turning
    /\ UNCHANGED <<closed, ended, compressor, midway, form, torn, drainVars>>

\* `write` for a client that holds too much: it is left behind.
Refuse(w) ==
    /\ pc[w] = "out"
    /\ ~closed
    /\ outstanding > TooSlow
    /\ closed' = TRUE
    /\ SetEmpty
    /\ UNCHANGED <<turnVars, ended, outstanding, size, streamVars>>

TurnComes(w) ==
    /\ Wake(w)
    /\ UNCHANGED <<closed, ended, outstanding, size, streamVars, drainVars>>

\* Part of the packet is in the stream: sent, or taken into the zstd stream.
\* The writer is parked, in the worker thread or in `wait_writable`.
TakeIn(w) ==
    /\ pc[w] = "writing"
    /\ midway # w
    /\ ~closed
    /\ midway' = w
    /\ form' = [form EXCEPT ![w] = IF compressor THEN "zstd" ELSE "plain"]
    /\ UNCHANGED <<turnVars, closed, ended, outstanding, size, turning,
                   compressor, torn, drainVars>>

\* The rest of the packet is in the kernel, and the turn ends.
Sent(w) ==
    /\ midway = w
    /\ ~closed
    /\ Leave(w)
    /\ Uncount(w)
    /\ midway' = NoWriter
    /\ form' = [form EXCEPT ![w] = "none"]
    /\ compressor' = (compressor \/ turning = w)
    /\ turning' = IF turning = w THEN NoWriter ELSE turning
    /\ UNCHANGED <<closed, ended, torn>>

\* The socket failed, or it is shut: the send raises.
Fail(w) ==
    /\ Leave(w)
    /\ Abandon(w)
    /\ UncountAndClose(w)
    /\ UNCHANGED ended

CancelWriting(w) ==
    /\ Cancellable(w)
    /\ Leave(w)
    /\ Abandon(w)
    /\ Uncount(w)
    /\ UNCHANGED <<closed, ended>>

CancelWaiting(w) ==
    /\ Cancellable(w)
    /\ CancelQueued(w) \/ CancelHanded(w)
    /\ Abandon(w)
    /\ Uncount(w)
    /\ UNCHANGED <<closed, ended>>

\* `close`: the client went, or was let go.
Close ==
    /\ ~closed
    /\ closed' = TRUE
    /\ SetEmpty
    /\ UNCHANGED <<turnVars, ended, outstanding, size, streamVars>>

\* The read loop of `serve` met the close, and cancels what still runs.
EndScope ==
    /\ closed
    /\ ~ended
    /\ ended' = TRUE
    /\ UNCHANGED <<turnVars, closed, outstanding, size, streamVars, drainVars>>

\* One turn of the loop of `drained`: a new event where the last one is set.
DrainAgain(d) ==
    /\ IF outstanding > 0 /\ ~closed
       THEN /\ empty' = "unset"
            /\ drain' = [drain EXCEPT ![d] = "waiting"]
       ELSE /\ drain' = [drain EXCEPT ![d] = "out"]
            /\ UNCHANGED empty
    /\ UNCHANGED <<turnVars, closed, ended, outstanding, size, streamVars>>

\* `drained`, where there is something to wait for.
Drain(d) ==
    /\ drain[d] = "out"
    /\ outstanding > 0
    /\ ~closed
    /\ DrainAgain(d)

DrainWoken(d) == drain[d] = "woken" /\ DrainAgain(d)

SocketNext ==
    \/ \E w \in Writers :
          \/ \E bytes \in Sizes, hurry, compressAfter \in BOOLEAN :
                Write(w, bytes, hurry, compressAfter)
          \/ Refuse(w)
          \/ TurnComes(w)
          \/ TakeIn(w)
          \/ Sent(w)
          \/ Fail(w)
          \/ CancelWriting(w)
          \/ CancelWaiting(w)
    \/ Close
    \/ EndScope
    \/ \E d \in Drainers : Drain(d) \/ DrainWoken(d)

SocketSafety == SocketInit /\ [][SocketNext]_socketVars

\* A writer that has the turn goes on: the kernel takes the bytes, or the
\* socket fails.
Progress(w) == TakeIn(w) \/ Sent(w) \/ Fail(w)

\* The loop runs every task that is ready. That a parked send ends is
\* assumed of the far end: it reads on, or its side of the socket goes.
SocketSpec ==
    /\ SocketSafety
    /\ \A w \in Writers :
          /\ WF_socketVars(TurnComes(w))
          /\ WF_socketVars(Progress(w))

-----------------------------------------------------------------------------
(* Properties. *)

\* The types, for the whole module.
SocketTypeOK ==
    /\ TurnsTypeOK
    /\ {closed, ended, compressor} \subseteq BOOLEAN
    /\ outstanding \in Nat
    /\ size \in [Writers -> Sizes \cup {0}]
    /\ {turning, midway, torn} \subseteq Writers \cup {NoWriter}
    /\ form \in [Writers -> {"none", "plain", "zstd"}]
    /\ empty \in {"none", "unset", "set"}
    /\ drain \in [Drainers -> {"out", "waiting", "woken"}]

\* The bytes that are written and not out, each with the task that wrote it.
Bytes == UNION {{w} \X (1 .. size[w]) : w \in Writers}

\* `outstanding` counts every packet that waits for its turn or is on its
\* way, and no other, so it is what one client may hold: `TOO_SLOW_BYTES`
\* and the packet that found room below it.
Backlog ==
    /\ outstanding = Cardinality(Bytes)
    /\ \A w \in Writers : size[w] > 0 <=> pc[w] # "out"
    /\ outstanding > 0 => \E bytes \in Sizes : outstanding <= TooSlow + bytes

\* `drained` never sleeps through what it waits for: whoever waits on the
\* event still has something to wait for, on a connection that is open.
NoDrainerForgotten ==
    (\E d \in Drainers : drain[d] = "waiting")
        => empty = "unset" /\ outstanding > 0 /\ ~closed

\* "every write after this one goes into one zstd stream, in the order the
\* writes go out": nothing is compressed before the packet that turned the
\* stream is out, and no packet in the stream has the form of the other side
\* of it. The form is read once inside the turn, and the turn lasts past the
\* worker thread and the send.
StreamInStep ==
    /\ compressor => turning = NoWriter
    /\ midway # NoWriter =>
          /\ pc[midway] = "writing"
          /\ form[midway] = "zstd" <=> compressor

\* A packet of the connection's own tasks is in part in the stream only until
\* it is whole or the stream is over: no other packet follows a part of it,
\* whatever fails, closes or is cancelled.
OwnPacketsWhole == midway # NoWriter /\ torn # NoWriter => torn \in Visitors

\* The same of every packet, the comment's "one send, then the next, never
\* interleaved": a packet never goes into a stream that holds part of another.
NeverInterleaved == midway # NoWriter => torn = NoWriter

=============================================================================
