------------------------------ MODULE PaneLife ------------------------------
(***************************************************************************)
(* The life of panes, windows and sessions (pymux/core/panes.py and the    *)
(* session part of core/main.py): who makes a program, which window holds  *)
(* it, what its end takes with it, and how the last session stops the      *)
(* server. A handler runs in one step of the event loop; a command that    *)
(* makes a pane awaits the start of its program and goes on with the       *)
(* session, the window or the pane it read before; only a respawn asks for *)
(* the session again, which may be another one by then.                    *)
(***************************************************************************)
EXTENDS Naturals, FiniteSets

CONSTANTS
    Sessions, Windows, Panes, Clients,
    Viewers,        \* the panes that show a job: their program calls nobody back
    GlobalRemain,   \* the `remain-on-exit` of the session defaults
    AcrossSessions, \* TRUE: `move-pane` names panes of other sessions too
    OntoTheLast,    \* TRUE: `move-window -k` may take the last pane of a session,
                    \* whose program ended
    Suspends,       \* TRUE: other tasks run while a program starts
    MaxMaking,      \* bound: the programs that start at a time
    Remainers,      \* the sessions whose options say `remain-on-exit`
    None            \* no session, no window, no pane, no client

ASSUME PaneLifeAssumption ==
    /\ Viewers \subseteq Panes /\ None \notin Sessions \cup Clients
    /\ Sessions # {} /\ Windows # {} /\ Panes \ Viewers # {}

VARIABLES
    sessions,   \* `Pymux.sessions`, the listed ones
    named,      \* the sessions that were ever made
    order,      \* `Arrangement.windows` of each session
    pen,        \* `Arrangement._unlinked_windows` of each session
    panes,      \* the panes in the tree of each window
    program,    \* the program of each pane
    killedIn,   \* `PaneMaker._killed_in`
    making,     \* the commands that await the start of their pane's program
    client,     \* the session of each client
    asked,      \* a `hang_up_and_stop` task that has not begun
    server,     \* "runs", "stopping" after it hung everything up, "done"
    stranded,   \* history: sessions emptied in a way that nothing answers
    late        \* history: panes whose place was gone when they were ready,
                \* and sessions that were gone when their window was ready

places == <<order, pen, panes>>
listing == <<sessions, client, asked>>
vars == <<listing, named, places, program, killedIn, making, server, stranded, late>>

Alive(p) == program[p] \in {"running", "hungup"}
Held(s) == UNION {panes[w] : w \in order[s]}
\* A window that is in use nowhere: which one does not matter. The command
\* that will make a window keeps one.
Fresh == {w \in Windows : /\ \A s \in Sessions : w \notin order[s] \cup pen[s]
                          /\ panes[w] = {}
                          /\ \A m \in making : m.at # w}
NewOne == CHOOSE w \in Fresh : TRUE
\* `session_holding`: the listed sessions whose windows hold the pane.
Holding(p) == {s \in sessions : p \in Held(s)}

\* The server makes its first session and, in `startup`, its first window.
Init ==
    /\ LET s == CHOOSE s \in Sessions : TRUE
           p == CHOOSE p \in Panes : p \notin Viewers
       IN
         /\ sessions = {s} /\ named = {s}
         /\ client \in [Clients -> {s, None}]
         /\ program = [q \in Panes |-> IF q = p THEN "starting" ELSE "none"]
         /\ making = {[pane |-> p, to |-> "window", session |-> s, at |-> CHOOSE w \in Windows : TRUE, who |-> None]}
    /\ order = [s \in Sessions |-> {}]
    /\ pen = [s \in Sessions |-> {}]
    /\ panes = [w \in Windows |-> {}]
    /\ killedIn = [p \in Panes |-> None]
    /\ asked = FALSE /\ server = "runs"
    /\ stranded = {} /\ late = {}

\* A command or a callback: anything but the rest of a start that nothing
\* may come between.
Loop == server # "done" /\ (Suspends \/ making = {})

-----------------------------------------------------------------------------
\* The answers of `last_used_session` among the sessions that are left: what
\* goes on in the step is in the one that goes.
LastUsed(left) ==
    LET holding == {s \in left : order[s] # {}}
    IN  IF holding = {} THEN left ELSE holding

\* A way it could go wrong: the clients are not moved.
MutRemoveSessionLeavesClients(s) ==
    IF s \in sessions /\ sessions # {s}
    THEN sessions' = sessions \ {s} /\ UNCHANGED <<client, asked>>
    ELSE asked' = (asked \/ sessions = {s}) /\ UNCHANGED <<sessions, client>>

\* `remove_session`: the last one stays listed and stops the server.
RemoveSession(s) ==
    IF s \in sessions /\ sessions # {s}
    THEN /\ sessions' = sessions \ {s}
         /\ \E somewhere \in LastUsed(sessions') :
              client' = [c \in Clients |-> IF client[c] = s THEN somewhere ELSE client[c]]
         /\ UNCHANGED asked
    ELSE /\ asked' = (asked \/ sessions = {s})
         /\ UNCHANGED <<sessions, client>>

\* `has_panes` after the step.
Emptied(s) == \A w \in order'[s] : panes'[w] = {}

\* A way it could go wrong: the last session is not ended.
MutEndIfEmptySparesTheLast(s) ==
    IF Emptied(s) /\ sessions # {s} THEN RemoveSession(s) ELSE UNCHANGED listing

EndIfEmpty(s) == IF Emptied(s) THEN RemoveSession(s) ELSE UNCHANGED listing

\* `Arrangement.remove_pane`, for some panes of one session: a window that
\* is left with none goes out of the order.
RemovePanes(s, gone) ==
    /\ panes' = [w \in Windows |-> IF w \in order[s] THEN panes[w] \ gone ELSE panes[w]]
    /\ order' = [order EXCEPT ![s] = {w \in @ : panes'[w] # {}}]
    /\ UNCHANGED pen

\* A way it could go wrong: a pane is taken out and its program runs on.
MutHungUpNot(p) == program[p]

\* `hang_up`: a viewer only stops to follow its job.
HungUp(p) == IF ~Alive(p) THEN program[p]
             ELSE IF p \in Viewers THEN "ended" ELSE "hungup"

-----------------------------------------------------------------------------
\* A command comes from a client that is there, or nobody asks: a start-up
\* command, a timer.
Askers == {None} \cup {c \in Clients : client[c] # None}

\* `new-session` and the window it opens: the session is listed at once, and
\* the client that asked is put on it when its window is there (not for -d).
NewSession(s, p, c) ==
    /\ Loop /\ c \in Askers /\ s \notin named /\ Fresh # {} /\ program[p] = "none" /\ Cardinality(making) < MaxMaking
    /\ sessions' = sessions \cup {s} /\ named' = named \cup {s}
    /\ program' = [program EXCEPT ![p] = "starting"]
    /\ making' = making \cup {[pane |-> p, to |-> "window", session |-> s, at |-> NewOne, who |-> c]}
    /\ UNCHANGED <<places, killedIn, client, asked, server, stranded, late>>

\* The session a command acts on when it names none: that of the client
\* that asks, or the one a person used last.
Current == sessions \cup ({client[c] : c \in Clients} \ {None})

\* A pane is on its way to a new window of a session, to a window that
\* splits, or to the place of a pane whose program is hung up first.
Begin(p, to, s, at, c) ==
    /\ Loop /\ program[p] = "none" /\ Cardinality(making) < MaxMaking
    /\ making' = making \cup {[pane |-> p, to |-> to, session |-> s, at |-> at, who |-> c]}
    /\ UNCHANGED <<listing, named, places, killedIn, server, stranded, late>>

NewWindow(s, p) ==
    /\ s \in Current
    /\ Fresh # {} /\ Begin(p, "window", s, NewOne, None)
    /\ program' = [program EXCEPT ![p] = "starting"]

SplitWindow(s, w, p) ==
    /\ s \in Current /\ w \in order[s]
    /\ Begin(p, "split", s, w, None)
    /\ program' = [program EXCEPT ![p] = "starting"]

\* `respawn-pane -k` and `view-job -k`: the pane may be of any listed session,
\* and no session is read yet.
Respawn(c, old, p) ==
    /\ c \in Askers /\ Holding(old) # {}
    /\ Begin(p, "respawn", None, old, c)
    /\ program' = [program EXCEPT ![old] = HungUp(old), ![p] = "starting"]

\* Where the rest of the command puts the pane.
PutInNewWindow(m) ==
    /\ m.to = "window"
    /\ panes' = [panes EXCEPT ![m.at] = {m.pane}]
    /\ order' = [order EXCEPT ![m.session] = @ \cup {m.at}]
    /\ stranded' = stranded \ {m.session}
    /\ late' = late \cup ({m.session} \ sessions)

PutInSplit(m) ==
    /\ m.to = "split"
    /\ panes' = [panes EXCEPT ![m.at] = @ \cup {m.pane}]
    /\ UNCHANGED <<order, stranded, late>>

\* `replace_pane` looks in the windows of the session that is current when the
\* program runs: the one its client is on by then, or the one used last.
CurrentFor(c) == IF c = None THEN LastUsed(sessions) ELSE {client[c]}

PutInPlaceOf(m) ==
    /\ m.to = "respawn"
    /\ \E s \in CurrentFor(m.who) :
         /\ panes' = [w \in Windows |->
               IF w \in order[s] /\ m.at \in panes[w]
               THEN (panes[w] \ {m.at}) \cup {m.pane} ELSE panes[w]]
         /\ late' = IF m.at \in Held(s) THEN late ELSE late \cup {m.pane}
    /\ UNCHANGED <<order, stranded>>

Finish(m) ==
    /\ m \in making /\ server # "done"
    /\ making' = making \ {m}
    /\ program' = [program EXCEPT ![m.pane] = "running"]
    /\ \/ PutInNewWindow(m)
       \/ PutInSplit(m)
       \/ PutInPlaceOf(m)
    /\ client' = [c \in Clients |-> IF m.to = "window" /\ c = m.who THEN m.session ELSE client[c]]
    /\ UNCHANGED <<sessions, named, pen, killedIn, asked, server>>

-----------------------------------------------------------------------------
\* The end of a program that somebody watches: `done_callback`. It asks the
\* session that holds the pane whether it remains, and the defaults when
\* none does; a pane that does not remain is taken out (`take_ended_pane`).
Remains(p) == IF Holding(p) = {} THEN GlobalRemain ELSE Holding(p) \cap Remainers # {}

TakeEndedPane(p) ==
    LET found == IF Holding(p) # {} THEN Holding(p) ELSE {killedIn[p]} \ {None}
    IN  IF found = {} THEN UNCHANGED <<places, listing>>
        ELSE \E s \in found : RemovePanes(s, {p}) /\ EndIfEmpty(s)

ProgramEnds(p) ==
    /\ Loop /\ Alive(p) /\ p \notin Viewers
    /\ program' = [program EXCEPT ![p] = "ended"]
    /\ IF Remains(p)
       THEN UNCHANGED <<killedIn, places, listing>>
       ELSE /\ TakeEndedPane(p)
            /\ killedIn' = [killedIn EXCEPT ![p] = None]
    /\ UNCHANGED <<named, making, server, stranded, late>>

\* The job of a viewer ends: the pane stays and says how.
JobEnds(p) ==
    /\ Loop /\ program[p] = "running" /\ p \in Viewers
    /\ program' = [program EXCEPT ![p] = "ended"]
    /\ UNCHANGED <<listing, named, places, killedIn, making, server, stranded, late>>

-----------------------------------------------------------------------------
\* `kill_pane` for some panes of one session, `last` after the others. Only
\* a pane whose end was heard already ends the session it leaves empty.
KillPanes(s, gone, last) ==
    /\ RemovePanes(s, gone)
    /\ program' = [p \in Panes |-> IF p \in gone THEN HungUp(p) ELSE program[p]]
    /\ killedIn' = [p \in Panes |-> IF p \in gone /\ Alive(p) THEN s ELSE killedIn[p]]
    /\ stranded' = IF Emptied(s) /\ Alive(last) /\ last \in Viewers
                   THEN stranded \cup {s} ELSE stranded

\* `kill-pane` of a pane that a listed session holds, and `kill-window`.
Kill(s, gone, last) ==
    /\ Loop /\ last \in gone /\ gone \subseteq Held(s) /\ s \in sessions
    /\ KillPanes(s, gone, last)
    /\ IF Alive(last) THEN UNCHANGED listing ELSE EndIfEmpty(s)
    /\ UNCHANGED <<named, making, server, late>>

KillPane(p) == \E s \in Holding(p) : Kill(s, {p}, p)
KillWindow(s, w) == \E last \in panes[w] : w \in order[s] /\ Kill(s, panes[w], last)

\* `kill-pane` of a pane that no listed session holds any more.
KillPaneElsewhere(p) ==
    /\ Loop /\ Holding(p) = {} /\ Alive(p)
    /\ program' = [program EXCEPT ![p] = HungUp(p)]
    /\ UNCHANGED <<listing, named, places, killedIn, making, server, stranded, late>>

\* `kill-session`: the session is taken off at once, before its programs end.
KillSession(s) ==
    /\ Loop /\ s \in sessions
    /\ RemovePanes(s, Held(s))
    /\ program' = [p \in Panes |-> IF p \in Held(s) THEN HungUp(p) ELSE program[p]]
    /\ killedIn' = [p \in Panes |-> IF p \in Held(s) /\ Alive(p) THEN s ELSE killedIn[p]]
    /\ RemoveSession(s)
    /\ UNCHANGED <<named, making, server, stranded, late>>

-----------------------------------------------------------------------------
\* `unlink-window` keeps the last window of the session the client is on.
Unlink(s, w) ==
    /\ Loop /\ s \in Current /\ w \in order[s] /\ order[s] # {w}
    /\ order' = [order EXCEPT ![s] = @ \ {w}]
    /\ pen' = [pen EXCEPT ![s] = @ \cup {w}]
    /\ UNCHANGED <<listing, named, panes, program, killedIn, making, server, stranded, late>>

\* A way it could go wrong: the window stays in the pen.
MutLinkKeepsPen(s, w, dst) ==
    /\ Loop /\ s \in Current /\ w \in pen[s] /\ dst \in Current
    /\ order' = [order EXCEPT ![dst] = @ \cup {w}]
    /\ stranded' = stranded \ {dst}
    /\ UNCHANGED <<listing, named, pen, panes, program, killedIn, making, server, late>>

\* `link-window` of a window in the pen of the client's own session.
LinkFromPen(s, w, dst) ==
    /\ Loop /\ s \in Current /\ w \in pen[s] /\ dst \in Current
    /\ pen' = [pen EXCEPT ![s] = @ \ {w}]
    /\ order' = [order EXCEPT ![dst] = @ \cup {w}]
    /\ stranded' = stranded \ {dst}
    /\ UNCHANGED <<listing, named, panes, program, killedIn, making, server, late>>

\* `move-window` and `link-window` into another session, to a free index. The session that
\* loses its last window this way is left as it is.
MoveWindow(s, w, dst) ==
    /\ Loop /\ s \in sessions /\ w \in order[s] /\ dst \in Current \ {s}
    /\ order' = [order EXCEPT ![s] = @ \ {w}, ![dst] = @ \cup {w}]
    /\ stranded' = IF order'[s] = {} THEN (stranded \cup {s}) \ {dst} ELSE stranded \ {dst}
    /\ UNCHANGED <<listing, named, pen, panes, program, killedIn, making, server, late>>

\* `move-window -k`: the panes of the window in the way are killed first, and
\* a destination that this empties of panes whose end was heard is taken off
\* before the window comes. In one session it is `kill-window` and an index.
MoveOnto(s, w, dst, inTheWay, last) ==
    /\ Loop /\ s \in sessions /\ w \in order[s]
    /\ dst \in sessions \ {s} /\ inTheWay \in order[dst] /\ last \in panes[inTheWay]
    /\ program' = [p \in Panes |-> IF p \in panes[inTheWay] THEN HungUp(p) ELSE program[p]]
    /\ killedIn' = [p \in Panes |-> IF p \in panes[inTheWay] /\ Alive(p) THEN dst ELSE killedIn[p]]
    /\ IF order[dst] = {inTheWay} /\ ~Alive(last)
       THEN OntoTheLast /\ RemoveSession(dst) ELSE UNCHANGED listing
    /\ panes' = [panes EXCEPT ![inTheWay] = {}]
    /\ order' = [order EXCEPT ![s] = @ \ {w}, ![dst] = (@ \ {inTheWay}) \cup {w}]
    /\ stranded' = IF order'[s] = {} THEN (stranded \cup {s}) \ {dst} ELSE stranded \ {dst}
    /\ UNCHANGED <<named, pen, making, server, late>>

\* `move-pane` takes the pane out of the windows of the client's session,
\* wherever it is, and adds it to the window that was named.
MovePane(s, p, w) ==
    /\ Loop /\ s \in Current
    /\ p \in Held(s) \/ (AcrossSessions /\ program[p] \in {"running", "hungup", "ended"})
    /\ \E dst \in sessions : w \in order[dst]
    /\ p \notin panes[w]
    /\ LET left == [v \in Windows |-> IF v \in order[s] THEN panes[v] \ {p} ELSE panes[v]]
       IN  /\ panes' = [left EXCEPT ![w] = @ \cup {p}]
           /\ order' = [order EXCEPT ![s] = {v \in @ : left[v] # {}}]
    /\ stranded' = IF order'[s] = {} THEN stranded \cup {s} ELSE stranded
    /\ UNCHANGED <<listing, named, pen, program, killedIn, making, server, late>>

\* `break-pane`: a pane that is not alone moves to a new window.
BreakPane(s, p) ==
    /\ Loop /\ s \in Current /\ Fresh # {}
    /\ \E from \in order[s] : /\ p \in panes[from] /\ panes[from] # {p}
                              /\ panes' = [panes EXCEPT ![from] = @ \ {p}, ![NewOne] = {p}]
    /\ order' = [order EXCEPT ![s] = @ \cup {NewOne}]
    /\ UNCHANGED <<listing, named, pen, program, killedIn, making, server, stranded, late>>

-----------------------------------------------------------------------------
\* A client attaches, switches, or goes: nobody asks then for what it began.
Watch(c, s) ==
    /\ Loop /\ s \in (sessions \cup {None}) \ {client[c]}
    /\ client' = [client EXCEPT ![c] = s]
    /\ making' = {[m EXCEPT !.who = IF s = None /\ @ = c THEN None ELSE @] : m \in making}
    /\ UNCHANGED <<sessions, asked, named, places, program, killedIn, server, stranded, late>>

KillServer ==
    /\ Loop /\ ~asked /\ server = "runs"
    /\ asked' = TRUE
    /\ UNCHANGED <<sessions, client, named, places, program, killedIn, making, server, stranded, late>>

\* A `hang_up_and_stop` begins: SIGHUP to every registered pane.
HangUpAll ==
    /\ Loop /\ asked
    /\ asked' = FALSE /\ server' = "stopping"
    /\ program' = [p \in Panes |-> HungUp(p)]
    /\ UNCHANGED <<sessions, client, named, places, killedIn, making, stranded, late>>

\* The programs ended, or the grace did: `stop` kills what still runs.
Stop ==
    /\ Loop /\ server = "stopping"
    /\ server' = "done"
    /\ program' = [p \in Panes |-> IF Alive(p) THEN "ended" ELSE program[p]]
    /\ UNCHANGED <<listing, named, places, killedIn, making, stranded, late>>

-----------------------------------------------------------------------------
Making ==
    \/ \E s \in Sessions, p \in Panes, c \in Clients \cup {None} : NewSession(s, p, c)
    \/ \E s \in Sessions, p \in Panes : NewWindow(s, p)
    \/ \E s \in Sessions, w \in Windows, p \in Panes : SplitWindow(s, w, p)
    \/ \E c \in Clients \cup {None}, old, p \in Panes : Respawn(c, old, p)

Ending ==
    \/ \E p \in Panes : ProgramEnds(p)
    \/ \E p \in Panes : JobEnds(p)
    \/ \E p \in Panes : KillPane(p)
    \/ \E p \in Panes : KillPaneElsewhere(p)
    \/ \E s \in Sessions, w \in Windows : KillWindow(s, w)
    \/ \E s \in Sessions : KillSession(s)

Moving ==
    \/ \E s \in Sessions, w \in Windows : Unlink(s, w)
    \/ \E s, dst \in Sessions, w \in Windows : LinkFromPen(s, w, dst)
    \/ \E s, dst \in Sessions, w \in Windows : MoveWindow(s, w, dst)
    \/ \E s, dst \in Sessions, w, inTheWay \in Windows, last \in Panes : MoveOnto(s, w, dst, inTheWay, last)
    \/ \E s \in Sessions, p \in Panes, w \in Windows : MovePane(s, p, w)
    \/ \E s \in Sessions, p \in Panes : BreakPane(s, p)

Next ==
    \/ Making
    \/ \E m \in making : Finish(m)
    \/ Ending
    \/ Moving
    \/ \E c \in Clients, s \in Sessions \cup {None} : Watch(c, s)
    \/ KillServer
    \/ HangUpAll
    \/ Stop

Spec == Init /\ [][Next]_vars

\* The tasks of the loop go on, and a program that was sent SIGHUP ends: it
\* is sent SIGKILL when the grace is over.
Fairness ==
    /\ WF_vars(\E m \in making : Finish(m))
    /\ \A p \in Panes : WF_vars(program[p] = "hungup" /\ ProgramEnds(p))
    /\ WF_vars(HangUpAll)
    /\ WF_vars(Stop)

FairSpec == Spec /\ Fairness

-----------------------------------------------------------------------------
Requests ==
    [pane : Panes, to : {"window", "split"}, session : Sessions, at : Windows, who : Clients \cup {None}]
      \cup [pane : Panes, to : {"respawn"}, session : {None}, at : Panes, who : Clients \cup {None}]

\* The shape of the state. What was sent a SIGHUP and has not ended is a
\* program: a viewer ends where it is hung up.
PanesTypeOK ==
    /\ sessions \subseteq named /\ named \subseteq Sessions /\ sessions # {}
    /\ order \in [Sessions -> SUBSET Windows] /\ pen \in [Sessions -> SUBSET Windows]
    /\ panes \in [Windows -> SUBSET Panes]
    /\ program \in [Panes -> {"none", "starting", "running", "hungup", "ended"}]
    /\ \A p \in Viewers : program[p] # "hungup"
    /\ killedIn \in [Panes -> Sessions \cup {None}]
    /\ making \subseteq Requests
    /\ client \in [Clients -> Sessions \cup {None}]
    /\ asked \in BOOLEAN /\ server \in {"runs", "stopping", "done"}
    /\ stranded \subseteq Sessions /\ late \subseteq Panes \cup Sessions

\* "A pane belongs to one session" (`session_holding`): it is in one window at
\* the most, and a window is in one order or one pen, through moves, links,
\* splits, respawns and the ends that come between their halves.
OnePlace ==
    /\ \A p \in Panes : Cardinality({w \in Windows : p \in panes[w]}) <= 1
    /\ \A w \in Windows :
         Cardinality({s \in Sessions : w \in order[s]})
           + Cardinality({s \in Sessions : w \in pen[s]}) <= 1

\* What will take an empty session off: the end of a program that was killed
\* in it, the window on its way to it, or the end of the server.
WillEnd(s) ==
    \/ asked \/ server # "runs"
    \/ \E m \in making : m.session = s
    \/ \E p \in Panes : killedIn[p] = s /\ program[p] = "hungup"

\* `end_if_empty`: "A session with no panes left is over". A listed session
\* with no pane has something coming that ends it.
EmptyIsOver == \A s \in sessions : Held(s) # {} \/ WillEnd(s)

\* `remove_session` moves the clients away. A client is on a listed session,
\* or on one whose first window was on its way when it was taken off.
LookedAtIsListed ==
    \A c \in Clients : client[c] \in sessions \cup {None} \cup late

\* A pane that some command reaches: it is in a window, linked or not, of a
\* session that is listed or that a client is on.
Reached(p) == \E s \in Current : \E w \in order[s] \cup pen[s] : p \in panes[w]

\* `kill-pane` "and remove it", `move-pane`, `break-pane`, `unlink-window`, a
\* session that goes, a respawn that is ready late: no step takes a pane of a
\* listed session out of reach and leaves its program running.
TakenOutIsHungUp ==
    [][\A p \in Panes : Holding(p) # {} => (Reached(p) \/ program[p] # "running")']_vars

\* `respawn-pane`: "The pane keeps its place". No program is ready after its
\* place is gone, or where its place is not looked for.
RespawnFindsThePlace == late \cap Panes = {}

\* A session that lost its last pane is taken off, or gets a pane again, or
\* the server stops; the exceptions are the sessions whose last window or pane
\* was moved away, or whose last pane was a viewer that was killed.
EmptySessionsGo ==
    \A s \in Sessions :
      (s \in sessions /\ Held(s) = {})
        ~> (s \notin sessions \/ Held(s) # {} \/ s \in stranded \/ server = "done")
=============================================================================
