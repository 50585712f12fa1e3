------------------------------- MODULE Relink -------------------------------
(***************************************************************************)
(* An attachment over links that go.  A client reaches the server over SSH *)
(* (client/ssh.py), over a unix socket (client/posix.py), or is a server   *)
(* that mirrors panes (mirror/peer.py); the first and the last dial again  *)
(* through client/relink.py.  At the other end each link is a connection   *)
(* (connection/server.py), which learns of a link that went from an end of *)
(* its stream, or from pings that nobody answers.  Servers restart.        *)
(*                                                                         *)
(* What is on its way to a client is a set: each packet raises a flag of   *)
(* its own at the client, and all of them are read before the end.         *)
(***************************************************************************)
EXTENDS Naturals

CONSTANTS
  Clients,
  Sleepers,  \* the clients whose machine may sleep, or whose process may be stopped
  Numbers,   \* a bound: the links of one client that anybody still knows
  Misses     \* PING_MISSES

ASSUME RelinkAssumption ==
  Sleepers \subseteq Clients /\ Numbers \subseteq Nat /\ Misses \in Nat \ {0}

Links == Clients \X Numbers
NoLink == << >>
Owner(l) == l[1]

VARIABLES
  kind,        \* which client it is: "ssh", "unix" or "peer"
  at,          \* where its attachment stands
  link,        \* the link it holds, or held last
  ending,      \* how that one ended: "cut", "eof", or "" while it is held
  told,        \* `restart_wait` (`Peer.restart`): a restart was announced
  hangUp,      \* `hang_up_asked`
  window,      \* `Restarting.until` is still to come
  asleep,      \* the clients whose machine sleeps
  slept,       \* a sleep is a "gap" between the clocks, then `slept_through` ("yes")
  napped,      \* a history: those whose machine slept since they dialled
  conn,        \* the connection at the server: "queued", "open" or "closed"
  pipe,        \* what is on its way to the client
  fin,         \* the stream is "up", at its end ("eof"), or carries nothing ("cut")
  parked,      \* connections with a send that the client does not take
  pinging,     \* `watch_liveness` is in its write, which waits for that send
  unanswered,  \* `_unanswered`
  detached,    \* a history: clients whose link a detach closed while no restart ran
  server,      \* "serves", "upgrades", "leaves", "execs" or "stopped"
  toTell       \* the connections that a restart has still to tell

client == <<kind, at, link, ending, told, hangUp, window>>
sleep == <<asleep, slept, napped>>
stream == <<conn, pipe, fin, parked, pinging, unanswered>>
restart == <<server, toTell>>
vars == <<client, sleep, stream, detached, restart>>

Kinds == {"ssh", "unix", "peer"}

RelinkTypeOK ==
  /\ kind \in [Clients -> Kinds]
  /\ at \in [Clients -> {"off", "held", "closing", "counting", "trying", "out"}]
  /\ link \in [Clients -> Links \cup {NoLink}]
  /\ ending \in [Clients -> {"", "cut", "eof"}]
  /\ told \subseteq Clients /\ hangUp \subseteq Clients /\ window \subseteq Clients
  /\ asleep \subseteq Sleepers /\ napped \subseteq Sleepers /\ detached \subseteq Clients
  /\ slept \in [Clients -> {"no", "gap", "yes"}]
  /\ conn \in [Links -> {"queued", "open", "closed"}]
  /\ pipe \in [Links -> SUBSET {"restarting", "exit", "ping"}]
  /\ fin \in [Links -> {"up", "eof", "cut"}]
  /\ parked \subseteq Links /\ pinging \subseteq parked /\ toTell \subseteq Links
  /\ unanswered \in [Links -> 0..Misses]
  /\ server \in {"serves", "upgrades", "leaves", "execs", "stopped"}

Init ==
  /\ kind \in [Clients -> Kinds]
  /\ at = [c \in Clients |-> "off"]
  /\ link = [c \in Clients |-> NoLink]
  /\ ending = [c \in Clients |-> ""]
  /\ told = {} /\ hangUp = {} /\ window = {}
  /\ asleep = {} /\ slept = [c \in Clients |-> "no"] /\ napped = {} /\ detached = {}
  /\ conn = [l \in Links |-> "closed"]
  /\ pipe = [l \in Links |-> {}]
  /\ fin = [l \in Links |-> "eof"]
  /\ parked = {} /\ pinging = {}
  /\ unanswered = [l \in Links |-> 0]
  /\ server = "serves" /\ toTell = {}

Awake(c) == c \notin asleep
Holds(c, l) == at[c] = "held" /\ link[c] = l
LetGo(l) == at[Owner(l)] # "off" /\ ~Holds(Owner(l), l)
Open == {l \in Links : conn[l] = "open"}

\* A number that neither end knows any more.
Fresh(l) == conn[l] = "closed" /\ link[Owner(l)] # l

\* What is written to a link that carries nothing, or that nobody reads, is lost.
Send(ls, packet) ==
  pipe' = [l \in Links |-> IF l \in ls /\ Holds(Owner(l), l) /\ fin[l] = "up"
                             THEN pipe[l] \cup {packet} ELSE pipe[l]]

-----------------------------------------------------------------------------
(***************************************************************************)
(* The server's end.                                                       *)
(***************************************************************************)

\* `close_connection` of each: what waits to be written ends with it.
CloseConnections(ls) ==
  /\ conn' = [l \in Links |-> IF l \in ls THEN "closed" ELSE conn[l]]
  /\ fin' = [l \in Links |-> IF l \in ls /\ (LetGo(l) \/ fin[l] = "up") THEN "eof" ELSE fin[l]]
  /\ parked' = parked \ ls
  /\ pinging' = pinging \ ls
  /\ unanswered' = [l \in Links |-> IF l \in ls THEN 0 ELSE unanswered[l]]

\* A command or a key detaches the client, or its session goes.
Detach(l) ==
  /\ l \in Open /\ kind[Owner(l)] # "peer"
  /\ CloseConnections({l})
  /\ detached' = IF server = "serves" /\ Holds(Owner(l), l)
                 THEN detached \cup {Owner(l)} ELSE detached
  /\ UNCHANGED <<client, sleep, pipe, restart>>

\* `attach -x` elsewhere: `detach_and_close(hang_up=True)` writes, which waits
\* for what is parked, and closes then.
HangUp(l) ==
  /\ l \in Open \ parked /\ kind[Owner(l)] # "peer"
  /\ Send({l}, "exit")
  /\ CloseConnections({l})
  /\ UNCHANGED <<client, sleep, detached, restart>>

\* A send of what the client draws waits for room, and the client takes it.
Park(l) ==
  /\ l \in Open \ parked
  /\ parked' = parked \cup {l}
  /\ UNCHANGED <<client, sleep, conn, pipe, fin, pinging, unanswered, detached, restart>>

Unpark(l) ==
  /\ l \in parked /\ Holds(Owner(l), l) /\ Awake(Owner(l)) /\ fin[l] = "up"
  /\ parked' = parked \ {l}
  /\ pinging' = pinging \ {l}
  /\ Send(pinging \cap {l}, "ping")
  /\ UNCHANGED <<client, sleep, conn, fin, unanswered, detached, restart>>

\* A way it could go wrong: a peer's ping waits as well.
MutPing(l) ==
  /\ l \in Open \ pinging /\ unanswered[l] < Misses
  /\ unanswered' = [unanswered EXCEPT ![l] = @ + 1]
  /\ IF l \in parked
       THEN pinging' = pinging \cup {l} /\ UNCHANGED pipe
       ELSE Send({l}, "ping") /\ UNCHANGED pinging
  /\ UNCHANGED <<client, sleep, conn, fin, parked, detached, restart>>

\* One interval of `watch_liveness`.  A peer's ping goes into the queue of its
\* link; a client's is awaited, and waits behind what is parked.
Ping(l) ==
  /\ l \in Open \ pinging /\ unanswered[l] < Misses
  /\ unanswered' = [unanswered EXCEPT ![l] = @ + 1]
  /\ IF kind[Owner(l)] # "peer" /\ l \in parked
       THEN pinging' = pinging \cup {l} /\ UNCHANGED pipe
       ELSE Send({l}, "ping") /\ UNCHANGED pinging
  /\ UNCHANGED <<client, sleep, conn, fin, parked, detached, restart>>

Drop(l) ==
  /\ l \in Open \ pinging /\ unanswered[l] = Misses
  /\ CloseConnections({l})
  /\ UNCHANGED <<client, sleep, pipe, detached, restart>>

\* The client closed its end, or its process ended, and the read loop meets
\* the end of the stream.
ReadsTheEnd(l) ==
  /\ l \in Open /\ LetGo(l) /\ fin[l] = "up"
  /\ CloseConnections({l})
  /\ UNCHANGED <<client, sleep, pipe, detached, restart>>

\* The far sshd gives up a link that carries nothing, or too much waits to be
\* written (`TOO_SLOW_BYTES`).  Neither has to happen.
LeftBehind(l) ==
  /\ l \in Open /\ (fin[l] = "cut" \/ l \in parked)
  /\ CloseConnections({l})
  /\ UNCHANGED <<client, sleep, pipe, detached, restart>>

\* The network between a client and its server: what is on its way is lost.
Cut(l) ==
  /\ kind[Owner(l)] # "unix" /\ Holds(Owner(l), l) /\ fin[l] # "cut"
  /\ fin' = [fin EXCEPT ![l] = "cut"]
  /\ pipe' = [pipe EXCEPT ![l] = {}]
  /\ UNCHANGED <<client, sleep, conn, parked, pinging, unanswered, detached, restart>>

-----------------------------------------------------------------------------
(***************************************************************************)
(* A restart.  An upgrade tells its clients while it still takes new ones, *)
(* and may be given up; `kill-server -r` closes the listener first.        *)
(***************************************************************************)

\* A way it could go wrong: the listener is closed last.
MutListens == server # "stopped"

\* The socket takes clients: the queue of the listener does during an exec.
Listens == server \in {"serves", "upgrades", "execs"}

BeginUpgrade ==
  /\ server = "serves"
  /\ server' = "upgrades" /\ toTell' = Open
  /\ UNCHANGED <<client, sleep, stream, detached>>

BeginLeaving ==
  /\ server = "serves"
  /\ server' = "leaves" /\ toTell' = {l \in Open : kind[Owner(l)] # "peer"}
  /\ UNCHANGED <<client, sleep, stream, detached>>

\* `say_restarting`, awaited; a connection that was closed meanwhile is skipped.
Tell(l) ==
  /\ l \in toTell \ parked
  /\ Send({l} \cap Open, "restarting")
  /\ toTell' = toTell \ {l}
  /\ UNCHANGED <<client, sleep, conn, fin, parked, pinging, unanswered, detached, server>>

\* A step of the upgrade fails, and the server serves on (`except BaseException`).
RollBack ==
  /\ server = "upgrades"
  /\ server' = "serves" /\ toTell' = {}
  /\ UNCHANGED <<client, sleep, stream, detached>>

Exec ==
  /\ server = "upgrades" /\ toTell = {}
  /\ server' = "execs"
  /\ CloseConnections(Open)
  /\ UNCHANGED <<client, sleep, pipe, detached, toTell>>

\* `kill-server`, or the end of `tell_and_stop`.
StopServer ==
  /\ server \in {"serves", "leaves"} /\ toTell = {}
  /\ server' = "stopped"
  /\ CloseConnections(Open)
  /\ UNCHANGED <<client, sleep, pipe, detached, toTell>>

\* The new image takes the clients that queue at the socket, or crashes.
Resume ==
  /\ server = "execs"
  /\ server' = "serves"
  /\ conn' = [l \in Links |-> IF conn[l] = "queued" THEN "open" ELSE conn[l]]
  /\ UNCHANGED <<client, sleep, pipe, fin, parked, pinging, unanswered, detached, toTell>>

Crash ==
  /\ server = "execs"
  /\ server' = "stopped"
  /\ CloseConnections({l \in Links : conn[l] = "queued"})
  /\ UNCHANGED <<client, sleep, pipe, detached, toTell>>

\* Somebody starts a server on the same socket.
StartServer ==
  /\ server = "stopped"
  /\ server' = "serves"
  /\ UNCHANGED <<client, sleep, stream, detached, toTell>>

-----------------------------------------------------------------------------
(***************************************************************************)
(* The client's end.                                                       *)
(***************************************************************************)
Go(c, where) == at' = [at EXCEPT ![c] = where]
Ends(c, how) == ending' = [ending EXCEPT ![c] = how]
Local == <<stream, detached, restart>>

\* A dial is answered and the client says `start-gui`.  `hold` clears
\* `slept_through`, and `Peer._hold` what the last owner announced.
DialOpens(c, l) ==
  /\ at[c] \in {"off", "trying"} /\ Awake(c)
  /\ Owner(l) = c /\ Fresh(l) /\ \A n \in Numbers : n < l[2] => ~Fresh(<<c, n>>)
  /\ Listens
  /\ Go(c, "held") /\ Ends(c, "")
  /\ link' = [link EXCEPT ![c] = l]
  /\ told' = IF kind[c] = "peer" THEN told \ {c} ELSE told
  /\ window' = window \ {c}
  /\ slept' = [slept EXCEPT ![c] = "no"]
  /\ napped' = napped \ {c} /\ detached' = detached \ {c}
  /\ conn' = [conn EXCEPT ![l] = IF server = "execs" THEN "queued" ELSE "open"]
  /\ fin' = [k \in Links |-> IF k = l THEN "up"
                             ELSE IF k = link[c] /\ conn[k] = "closed" THEN "eof" ELSE fin[k]]
  /\ UNCHANGED <<kind, hangUp, asleep, pipe, parked, pinging, unanswered, restart>>

\* An answer that says no: `link_may_come_back` is false, and only the window of
\* a restart makes the client ask again.  Over a unix socket it tries on.
DialRefused(c) ==
  /\ at[c] = "trying" /\ kind[c] # "unix" /\ Awake(c) /\ (server = "execs" \/ ~Listens)
  /\ Go(c, IF c \in window THEN "counting" ELSE "out")
  /\ UNCHANGED <<kind, link, ending, told, hangUp, window, sleep, Local>>

\* No answer: a timeout, a network that is not there.
DialFails(c) ==
  /\ at[c] = "trying" /\ kind[c] # "unix" /\ Awake(c)
  /\ Go(c, "counting")
  /\ UNCHANGED <<kind, link, ending, told, hangUp, window, sleep, Local>>

\* The first dial is not tried again.
FirstDialFails(c) ==
  /\ at[c] = "off"
  /\ Go(c, "out")
  /\ UNCHANGED <<kind, link, ending, told, hangUp, window, sleep, Local>>

\* The countdown ran out, or a key said now.
Try(c) ==
  /\ at[c] = "counting" /\ Awake(c)
  /\ Go(c, "trying")
  /\ UNCHANGED <<kind, link, ending, told, hangUp, window, sleep, Local>>

\* The time that the server named is over, which ends the wait at a unix socket.
WindowEnds(c) ==
  /\ c \in window /\ Awake(c)
  /\ window' = window \ {c}
  /\ at' = IF kind[c] = "unix" THEN [at EXCEPT ![c] = "out"] ELSE at
  /\ UNCHANGED <<kind, link, ending, told, hangUp, sleep, Local>>

\* q while it waits.  A mirrored pane has no such key.
Leave(c) ==
  /\ at[c] \in {"counting", "trying"} /\ kind[c] # "peer" /\ Awake(c)
  /\ Go(c, "out")
  /\ window' = window \ {c}
  /\ UNCHANGED <<kind, link, ending, told, hangUp, sleep, Local>>

\* The answer to a ping is at the server at once: its way there is the time
\* that the ping was not read.
Read(c, packet) ==
  /\ at[c] = "held" /\ Awake(c) /\ packet \in pipe[link[c]]
  /\ pipe' = [pipe EXCEPT ![link[c]] = @ \ {packet}]
  /\ told' = IF packet = "restarting" THEN told \cup {c} ELSE told
  /\ hangUp' = IF packet = "exit" THEN hangUp \cup {c} ELSE hangUp
  /\ unanswered' = IF packet = "ping" THEN [unanswered EXCEPT ![link[c]] = 0] ELSE unanswered
  /\ UNCHANGED <<kind, at, link, ending, window, sleep, conn, fin, parked, pinging, detached,
                 restart>>

\* All is read, and the stream is at its end.  A client at a unix socket leaves,
\* or waits for the next server; the others close their link first.
SeeEnd(c) ==
  /\ at[c] = "held" /\ Awake(c) /\ fin[link[c]] = "eof" /\ pipe[link[c]] = {}
  /\ Ends(c, "eof")
  /\ IF kind[c] = "unix"
       THEN /\ Go(c, IF c \in told THEN "trying" ELSE "out")
            /\ window' = IF c \in told THEN window \cup {c} ELSE window
            /\ told' = told \ {c}
       ELSE Go(c, "closing") /\ UNCHANGED <<window, told>>
  /\ UNCHANGED <<kind, link, hangUp, sleep, Local>>

\* A way it could go wrong: only a sleep shows that a link carries nothing.
MutSeeCut(c) ==
  /\ at[c] = "held" /\ Awake(c) /\ fin[link[c]] = "cut" /\ slept[c] = "gap"
  /\ Go(c, "closing") /\ Ends(c, "cut")
  /\ UNCHANGED <<kind, link, told, hangUp, window, sleep, Local>>

\* The keepalive finds that the link carries nothing.
SeeCut(c) ==
  /\ at[c] = "held" /\ Awake(c) /\ fin[link[c]] = "cut"
  /\ Go(c, "closing") /\ Ends(c, "cut")
  /\ UNCHANGED <<kind, link, told, hangUp, window, sleep, Local>>

\* The sleep watch finds the gap and aborts the link, which may read as a clean end.
SeeGap(c) ==
  /\ at[c] \in {"held", "closing"} /\ Awake(c) /\ slept[c] = "gap"
  /\ slept' = [slept EXCEPT ![c] = "yes"]
  /\ at' = [at EXCEPT ![c] = "closing"]
  /\ IF at[c] = "held" THEN \E how \in {"cut", "eof"} : Ends(c, how) ELSE UNCHANGED ending
  /\ pipe' = [pipe EXCEPT ![link[c]] = {}]
  /\ UNCHANGED <<kind, link, told, hangUp, window, asleep, napped, conn, fin, parked, pinging,
                 unanswered, detached, restart>>

\* A way it could go wrong: a hang-up counts only where the link ends cleanly.
MutEndsOnPurpose(c) == kind[c] = "ssh" /\ ending[c] = "eof" /\ c \notin told

\* Whether the end of the link is one that `hold` dials after: what `hold_one`
\* answers, and the sleep watch over it.
EndsOnPurpose(c) == kind[c] = "ssh" /\ (c \in hangUp \/ (ending[c] = "eof" /\ c \notin told))
Lost(c) == slept[c] = "yes" \/ ~EndsOnPurpose(c)
Restarting(c) ==
  slept[c] # "yes" /\ ~EndsOnPurpose(c) /\ c \in told /\ (kind[c] = "peer" \/ ending[c] = "eof")

\* The link is closed and `hold_one` returns.
Closed(c) ==
  /\ at[c] = "closing" /\ Awake(c)
  /\ Go(c, IF Lost(c) THEN "counting" ELSE "out")
  /\ window' = IF Restarting(c) THEN window \cup {c} ELSE window \ {c}
  /\ told' = IF kind[c] = "ssh" /\ ending[c] = "eof" THEN told \ {c} ELSE told
  /\ slept' = [slept EXCEPT ![c] = "no"]
  /\ UNCHANGED <<kind, link, ending, hangUp, asleep, napped, Local>>

\* The machine sleeps, and wakes with a gap between its clocks.  For a client
\* at a unix socket it is its process that is stopped.
Nap(c) ==
  /\ c \in Sleepers \ asleep /\ at[c] \in {"held", "closing"}
  /\ asleep' = asleep \cup {c}
  /\ napped' = napped \cup {c}
  /\ UNCHANGED <<client, slept, Local>>

WakeUp(c) ==
  /\ c \in asleep
  /\ asleep' = asleep \ {c}
  /\ slept' = IF kind[c] = "unix" THEN slept ELSE [slept EXCEPT ![c] = "gap"]
  /\ UNCHANGED <<client, napped, Local>>

-----------------------------------------------------------------------------
ServerStep(l) ==
  \/ Detach(l) \/ HangUp(l) \/ Park(l) \/ Unpark(l) \/ Ping(l) \/ Drop(l)
  \/ ReadsTheEnd(l) \/ LeftBehind(l) \/ Cut(l) \/ Tell(l)

RestartStep ==
  BeginUpgrade \/ BeginLeaving \/ RollBack \/ Exec \/ StopServer \/ Resume \/ Crash \/ StartServer

ClientStep(c) ==
  \/ \E l \in Links : DialOpens(c, l)
  \/ DialRefused(c) \/ DialFails(c) \/ FirstDialFails(c) \/ Try(c) \/ WindowEnds(c) \/ Leave(c)
  \/ \E packet \in {"restarting", "exit", "ping"} : Read(c, packet)
  \/ SeeEnd(c) \/ SeeCut(c) \/ SeeGap(c) \/ Closed(c) \/ Nap(c) \/ WakeUp(c)

Next ==
  \/ \E l \in Links : ServerStep(l)
  \/ RestartStep
  \/ \E c \in Clients : ClientStep(c)

Spec == Init /\ [][Next]_vars

\* The server's loop runs its timers and what it can write.  A client that is
\* awake reads, closes and tries again, and a network that is tried for ever
\* answers some time.  Nobody is bound to detach, to restart, or to wake up.
FairSpec ==
  /\ Spec
  /\ \A l \in Links :
       WF_vars(Unpark(l)) /\ WF_vars(Ping(l)) /\ WF_vars(Drop(l)) /\ WF_vars(ReadsTheEnd(l))
  /\ \A c \in Clients :
       /\ WF_vars(Try(c)) /\ WF_vars(SeeEnd(c)) /\ WF_vars(SeeCut(c)) /\ WF_vars(SeeGap(c))
       /\ WF_vars(Closed(c)) /\ WF_vars(WindowEnds(c)) /\ WF_vars(DialFails(c))
       /\ SF_vars(\E l \in Links : DialOpens(c, l))

-----------------------------------------------------------------------------
\* The far end of an open connection will say nothing more.
Silent(l) ==
  l \in Open /\ (LetGo(l) \/ Owner(l) \in asleep \/ fin[l] = "cut")

\* A connection whose far end is gone, stopped or cut off is let go: the ghost
\* does not size the windows for ever (`watch_liveness`).  The exception is a
\* client's that has a send parked, behind which the ping waits.
GhostsGo ==
  \A l \in Links :
    Silent(l) ~> (~Silent(l) \/ (l \in parked /\ kind[Owner(l)] # "peer"))

\* What the docstring of `watch_liveness` says, with no exception.
SilentAreDropped == \A l \in Links : Silent(l) ~> ~Silent(l)

\* Who was told to hang up (`attach -x`) does not come back over a new link,
\* whatever happens to the old one, as long as its machine stays awake.
HangUpIsFinal ==
  \A c \in hangUp \ napped : kind[c] = "ssh" => at[c] \notin {"counting", "trying"}

\* A client whose link carries nothing, or that has none, holds one again or
\* leaves, unless its machine sleeps, no server serves, or the bound is reached.
Unlinked(c) ==
  at[c] \in {"closing", "counting", "trying"} \/ (at[c] = "held" /\ fin[link[c]] = "cut")

ComesBack ==
  \A c \in Clients :
    Unlinked(c) ~>
      \/ ~Unlinked(c) \/ c \in asleep \/ server # "serves"
      \/ \A l \in Links : Owner(l) = c => ~Fresh(l)

\* `kill-server -r` leaves nobody untold: whoever holds a link that works when
\* the server stops has read the announcement, or is about to.
ToldOf(l) == Owner(l) \in told \/ "restarting" \in pipe[l]

LeavesNobodyUntold ==
  [][server = "leaves" /\ server' = "stopped" =>
       \A l \in Open :
         kind[Owner(l)] # "peer" /\ Holds(Owner(l), l) /\ fin[l] = "up" => ToldOf(l)]_vars

\* The same of an upgrade, which listens while it tells: it does not hold.
EverybodyIsTold ==
  [][Exec => \A l \in Open : Holds(Owner(l), l) /\ fin[l] = "up" => ToldOf(l)]_vars

\* A client that read the end which a detach put to its link does not dial:
\* retrying it would make a detach impossible.
DetachIsFinal ==
  \A c \in Clients :
    at[c] \in {"counting", "trying"} => ~(ending[c] = "eof" /\ c \in detached)

=============================================================================
