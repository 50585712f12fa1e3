------------------------------ MODULE WaitFor -------------------------------
(***************************************************************************)
(* `wait-for` (pymux/commands/wait_for.py): named channels that scripts    *)
(* wait on, signal, lock and unlock, and what an upgrade carries of them.  *)
(* A handler runs in one step of the loop; a wait and a lock that has to   *)
(* wait are then awaited by the connection that asked. When its client     *)
(* goes, that await is cancelled (`ServerConnection.serve`) and nothing    *)
(* takes its event out of the channel.                                     *)
(***************************************************************************)
EXTENDS Naturals, Sequences, FiniteSets, SequencesExt

CONSTANTS Clients, Channels

VARIABLES
    made,       \* the channels in `pymux.wait_channels`
    woken,      \* `WaitChannel.woken` of each
    locked,     \* `WaitChannel.locked` of each
    waiters,    \* `WaitChannel.waiters`: all are set at once, so no order
    lockers,    \* `WaitChannel.lockers`
    client,     \* each client: "idle", "waits", "locks", "answered" or "gone"
    granted     \* who got each lock since it was last given back

channelVars == <<made, woken, locked, waiters, lockers>>
vars == <<channelVars, client, granted>>

Init ==
    /\ made = {}
    /\ woken = [ch \in Channels |-> FALSE]
    /\ locked = [ch \in Channels |-> FALSE]
    /\ waiters = [ch \in Channels |-> {}]
    /\ lockers = [ch \in Channels |-> <<>>]
    /\ client = [c \in Clients |-> "idle"]
    /\ granted = [ch \in Channels |-> {}]

-----------------------------------------------------------------------------
\* `wait_for` makes the channel it names; the handler forgets it again when
\* nothing is left to remember (`is_spent`).
Remember(ch) ==
    made' = IF woken'[ch] \/ locked'[ch] \/ waiters'[ch] # {} \/ lockers'[ch] # <<>>
            THEN made \cup {ch} ELSE made \ {ch}

-----------------------------------------------------------------------------
\* `-S`: everybody that waits goes on, or the signal is remembered.
Signal(ch) ==
    /\ IF waiters[ch] = {}
       THEN /\ woken' = [woken EXCEPT ![ch] = TRUE]
            /\ UNCHANGED <<waiters, client>>
       ELSE /\ waiters' = [waiters EXCEPT ![ch] = {}]
            /\ client' = [c \in Clients |->
                  IF c \in waiters[ch] /\ client[c] = "waits" THEN "answered" ELSE client[c]]
            /\ UNCHANGED woken
    /\ UNCHANGED <<locked, lockers, granted>>
    /\ Remember(ch)

\* A way it could go wrong: a client that waits without a look at the signal.
MutWaitQueuesAnyway(c, ch) ==
    /\ client[c] = "idle"
    /\ waiters' = [waiters EXCEPT ![ch] = @ \cup {c}]
    /\ client' = [client EXCEPT ![c] = "waits"]
    /\ UNCHANGED <<woken, locked, lockers, granted>>
    /\ Remember(ch)

\* No flag: the signal that came first is taken, or the client waits.
Wait(c, ch) ==
    /\ client[c] = "idle"
    /\ IF woken[ch]
       THEN /\ woken' = [woken EXCEPT ![ch] = FALSE]
            /\ UNCHANGED <<waiters, client>>
       ELSE /\ waiters' = [waiters EXCEPT ![ch] = @ \cup {c}]
            /\ client' = [client EXCEPT ![c] = "waits"]
            /\ UNCHANGED woken
    /\ UNCHANGED <<locked, lockers, granted>>
    /\ Remember(ch)

\* `-L`: the lock is free, or the client waits for it.
Lock(c, ch) ==
    /\ client[c] = "idle"
    /\ IF locked[ch]
       THEN /\ lockers' = [lockers EXCEPT ![ch] = Append(@, c)]
            /\ client' = [client EXCEPT ![c] = "locks"]
            /\ UNCHANGED <<locked, granted>>
       ELSE /\ locked' = [locked EXCEPT ![ch] = TRUE]
            /\ granted' = [granted EXCEPT ![ch] = @ \cup {c}]
            /\ UNCHANGED <<lockers, client>>
    /\ UNCHANGED <<woken, waiters>>
    /\ Remember(ch)

\* A way it could go wrong: an unlock that frees the lock it passes on.
MutUnlockFrees(ch) ==
    /\ locked' = [locked EXCEPT ![ch] = FALSE]
    /\ lockers' = [lockers EXCEPT ![ch] = IF @ = <<>> THEN @ ELSE Tail(@)]
    /\ granted' = [granted EXCEPT ![ch] =
          IF lockers[ch] = <<>> THEN {} ELSE {Head(lockers[ch])}]
    /\ client' = [c \in Clients |->
          IF c \in granted'[ch] /\ client[c] = "locks" THEN "answered" ELSE client[c]]
    /\ UNCHANGED <<woken, waiters>>
    /\ Remember(ch)

\* `-U`: the lock passes to the first locker, still held, or it is free. On a
\* channel nobody locked it is an error that leaves no new channel behind.
Unlock(ch) ==
    /\ IF locked[ch] /\ lockers[ch] # <<>>
       THEN LET next == Head(lockers[ch]) IN
            /\ lockers' = [lockers EXCEPT ![ch] = Tail(@)]
            /\ granted' = [granted EXCEPT ![ch] = {next}]
            /\ client' = IF client[next] = "locks"
                         THEN [client EXCEPT ![next] = "answered"] ELSE client
            /\ UNCHANGED locked
       ELSE /\ locked' = [locked EXCEPT ![ch] = FALSE]
            /\ granted' = [granted EXCEPT ![ch] = {}]
            /\ UNCHANGED <<lockers, client>>
    /\ UNCHANGED <<woken, waiters>>
    /\ Remember(ch)

\* The event was set, and the client reads its answer.
GoOn(c) ==
    /\ client[c] = "answered"
    /\ client' = [client EXCEPT ![c] = "idle"]
    /\ UNCHANGED <<channelVars, granted>>

\* The client of a wait or a lock goes: ctrl+c, a pane that closes. Its event
\* stays where it is.
Go(c) ==
    /\ client[c] # "gone"
    /\ client' = [client EXCEPT ![c] = "gone"]
    /\ UNCHANGED <<channelVars, granted>>

\* `upgrade-server`: refused while a channel holds an event
\* (`_refuse_the_server`). The new image reads each channel's two flags; a
\* client whose answer is not out yet goes with its connection.
Upgrade ==
    /\ made # {}
    /\ \A ch \in made : waiters[ch] = {} /\ lockers[ch] = <<>>
    /\ \E late \in SUBSET {c \in Clients : client[c] = "answered"} :
          client' = [c \in Clients |-> IF c \in late THEN "gone" ELSE client[c]]
    /\ UNCHANGED <<channelVars, granted>>

Next ==
    \/ \E ch \in Channels : Signal(ch) \/ Unlock(ch)
    \/ \E c \in Clients, ch \in Channels : Wait(c, ch) \/ Lock(c, ch)
    \/ \E c \in Clients : GoOn(c) \/ Go(c)
    \/ Upgrade

Spec == Init /\ [][Next]_vars /\ \A c \in Clients : WF_vars(GoOn(c))

-----------------------------------------------------------------------------
(* Properties. *)

\* The types, for the whole module: an event is in a queue once.
TypeOK ==
    /\ made \subseteq Channels
    /\ woken \in [Channels -> BOOLEAN]
    /\ locked \in [Channels -> BOOLEAN]
    /\ waiters \in [Channels -> SUBSET Clients]
    /\ lockers \in [Channels -> Seq(Clients)]
    /\ \A ch \in Channels : IsInjective(lockers[ch])
    /\ client \in [Clients -> {"idle", "waits", "locks", "answered", "gone"}]
    /\ granted \in [Channels -> SUBSET Clients]

\* Nobody waits for what is there already: no waiter behind a remembered
\* signal, no locker behind a free lock, and a client that waits is in the one
\* channel it named, so the signal or the unlock of it reaches that client.
NobodyWaitsInVain ==
    /\ \A ch \in Channels :
          /\ woken[ch] => waiters[ch] = {}
          /\ lockers[ch] # <<>> => locked[ch]
    /\ \A c \in Clients :
          /\ client[c] = "waits" <=> client[c] # "gone" /\ \E ch \in Channels : c \in waiters[ch]
          /\ client[c] = "locks" <=> client[c] # "gone" /\ \E ch \in Channels : c \in ToSet(lockers[ch])

\* A channel exists exactly while there is something in it to remember, so
\* names that scripts made up do not pile up in the server and no signal,
\* lock or waiter is in a channel that the next command would make again.
ChannelsRemembered ==
    \A ch \in Channels :
        ch \in made <=> woken[ch] \/ locked[ch] \/ waiters[ch] # {} \/ lockers[ch] # <<>>

\* The lock is one script's at a time: nobody is told it has the lock while
\* another was told so and no unlock came between, across upgrades too.
OneHolder ==
    \A ch \in Channels : Cardinality(granted[ch]) = IF locked[ch] THEN 1 ELSE 0

\* Lockers have the lock in the order they came.
LockersInOrder ==
    [][\A ch \in Channels :
          /\ lockers[ch] # <<>> /\ granted'[ch] # granted[ch] => granted'[ch] = {Head(lockers[ch])}
          /\ \/ lockers'[ch] = lockers[ch]
             \/ lockers[ch] # <<>> /\ lockers'[ch] = Tail(lockers[ch])
             \/ \E c \in Clients : lockers'[ch] = Append(lockers[ch], c)]_vars

\* What a signal or an unlock gives goes to a client that is there, or stays
\* with the channel: "with none it remembers the signal for the next waiter".
NothingGivenToTheGone ==
    [][\A ch \in Channels :
          waiters[ch] # {} /\ waiters'[ch] = {} =>
              woken'[ch] \/ \E c \in waiters[ch] : client[c] # "gone"]_vars

=============================================================================
