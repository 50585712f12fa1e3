---------------------------- MODULE RelinkProofs ----------------------------
(***************************************************************************)
(* Proofs about Relink, for any clients, sleepers, links and misses: the   *)
(* types, that who was told to hang up does not come back, and that a      *)
(* server which leaves for the next one leaves no client untold.           *)
(***************************************************************************)
EXTENDS Relink, TLAPS

\* What the server writes to a client.
Packets == {"restarting", "exit", "ping"}

\* A client that holds a link, or waits for one, has or had one of its own.
HasLink == \A c \in Clients : at[c] \notin {"off", "out"} => link[c] \in Links /\ Owner(link[c]) = c

\* What the other invariants need: the types, and that a link is its owner's.
LinkInv == RelinkTypeOK /\ HasLink

\* The count of unanswered pings starts in its range, and stays there.
LEMMA NoneUnanswered == 0 \in 0..Misses
BY RelinkAssumption

\* Below the limit, one more is still in it.
LEMMA OneMore == ASSUME NEW n \in 0..Misses, n < Misses PROVE n + 1 \in 0..Misses
BY RelinkAssumption

\* A link is between the server and a client.
LEMMA OwnerIsClient == \A l \in Links : Owner(l) \in Clients
BY DEF Owner, Links

\* Closing connections keeps the types of what it changes.
LEMMA CloseTypes ==
  ASSUME RelinkTypeOK, NEW ls \in SUBSET Links, CloseConnections(ls)
  PROVE  /\ conn' \in [Links -> {"queued", "open", "closed"}]
         /\ fin' \in [Links -> {"up", "eof", "cut"}]
         /\ parked' \subseteq Links /\ pinging' \subseteq parked'
         /\ unanswered' \in [Links -> 0..Misses]
<1>1. conn' \in [Links -> {"queued", "open", "closed"}]
  BY DEF CloseConnections, RelinkTypeOK
<1>2. fin' \in [Links -> {"up", "eof", "cut"}]
  BY DEF CloseConnections, RelinkTypeOK
<1>3. parked' \subseteq Links /\ pinging' \subseteq parked'
  BY DEF CloseConnections, RelinkTypeOK
<1>4. unanswered' \in [Links -> 0..Misses]
  BY NoneUnanswered DEF CloseConnections, RelinkTypeOK
<1> QED BY <1>1, <1>2, <1>3, <1>4

\* So does a send.
LEMMA SendTypes ==
  ASSUME RelinkTypeOK, NEW ls, NEW packet \in Packets, Send(ls, packet)
  PROVE  pipe' \in [Links -> SUBSET Packets]
BY DEF Send, RelinkTypeOK, Packets

\* No client has a link at first.
LEMMA LinkInit == Init => LinkInv
<1> SUFFICES ASSUME Init PROVE LinkInv
  OBVIOUS
<1>1. unanswered \in [Links -> 0..Misses]
  BY NoneUnanswered DEF Init
<1>2. pipe \in [Links -> SUBSET Packets]
  BY DEF Init
<1> QED BY <1>1, <1>2 DEF Init, LinkInv, RelinkTypeOK, HasLink, Packets

\* Every step keeps the types, and a client dials a link of its own.
LEMMA LinkStep == LinkInv /\ [Next]_vars => LinkInv'
<1> SUFFICES ASSUME LinkInv, [Next]_vars PROVE LinkInv'
  OBVIOUS
<1> USE RelinkAssumption DEF LinkInv, RelinkTypeOK, HasLink, Packets
<1>1. ASSUME NEW l \in Links, Detach(l)
     PROVE  LinkInv'
  <2>1. detached' \subseteq Clients
    <3>1. detached' = detached \/ detached' = detached \cup {Owner(l)}
      BY <1>1 DEF Detach
    <3>2. Owner(l) \in Clients
      BY OwnerIsClient
    <3> QED BY <3>1, <3>2
  <2> QED BY <1>1, <2>1, CloseTypes DEF Detach, client, sleep, stream, restart, Open
<1>2. ASSUME NEW l \in Links, HangUp(l)
     PROVE  LinkInv'
  BY <1>2, CloseTypes, SendTypes DEF HangUp, client, sleep, stream, restart, Open
<1>3. ASSUME NEW l \in Links, Park(l)
     PROVE  LinkInv'
  BY <1>3 DEF Park, client, sleep, stream, restart
<1>4. ASSUME NEW l \in Links, Unpark(l)
     PROVE  LinkInv'
  BY <1>4 DEF Unpark, Send, client, sleep, stream, restart
<1>5. ASSUME NEW l \in Links, Ping(l)
     PROVE  LinkInv'
  <2>1. unanswered[l] \in 0..Misses /\ unanswered[l] < Misses
    BY <1>5 DEF Ping
  <2>2. unanswered[l] + 1 \in 0..Misses
    BY <2>1, OneMore
  <2>3. unanswered' \in [Links -> 0..Misses]
    BY <1>5, <2>2 DEF Ping
  <2>4. pipe' \in [Links -> SUBSET Packets] /\ parked' \subseteq Links /\ pinging' \subseteq parked'
    BY <1>5, SendTypes DEF Ping
  <2> QED BY <1>5, <2>3, <2>4 DEF Ping, client, sleep, stream, restart
<1>6. ASSUME NEW l \in Links, Drop(l)
     PROVE  LinkInv'
  BY <1>6, CloseTypes DEF Drop, client, sleep, stream, restart, Open
<1>7. ASSUME NEW l \in Links, ReadsTheEnd(l)
     PROVE  LinkInv'
  BY <1>7, CloseTypes DEF ReadsTheEnd, client, sleep, stream, restart, Open
<1>8. ASSUME NEW l \in Links, LeftBehind(l)
     PROVE  LinkInv'
  BY <1>8, CloseTypes DEF LeftBehind, client, sleep, stream, restart, Open
<1>9. ASSUME NEW l \in Links, Cut(l)
     PROVE  LinkInv'
  BY <1>9 DEF Cut, client, sleep, stream, restart
<1>10. ASSUME NEW l \in Links, Tell(l)
      PROVE  LinkInv'
  BY <1>10 DEF Tell, Send, client, sleep, stream, restart
<1>11. ASSUME BeginUpgrade
      PROVE  LinkInv'
  BY <1>11 DEF BeginUpgrade, client, sleep, stream, restart, Open
<1>12. ASSUME BeginLeaving
      PROVE  LinkInv'
  BY <1>12 DEF BeginLeaving, client, sleep, stream, restart, Open
<1>13. ASSUME RollBack
      PROVE  LinkInv'
  BY <1>13 DEF RollBack, client, sleep, stream, restart, Open
<1>14. ASSUME Exec
      PROVE  LinkInv'
  BY <1>14, CloseTypes DEF Exec, client, sleep, stream, restart, Open
<1>15. ASSUME StopServer
      PROVE  LinkInv'
  BY <1>15, CloseTypes DEF StopServer, client, sleep, stream, restart, Open
<1>16. ASSUME Resume
      PROVE  LinkInv'
  BY <1>16 DEF Resume, client, sleep, stream, restart, Open
<1>17. ASSUME Crash
      PROVE  LinkInv'
  BY <1>17, CloseTypes DEF Crash, client, sleep, stream, restart, Open
<1>18. ASSUME StartServer
      PROVE  LinkInv'
  BY <1>18 DEF StartServer, client, sleep, stream, restart, Open
<1>19. ASSUME NEW c \in Clients, NEW l \in Links, DialOpens(c, l)
      PROVE  LinkInv'
  BY <1>19 DEF DialOpens, Go, Ends, client, sleep, stream, restart
<1>20. ASSUME NEW c \in Clients, DialRefused(c)
      PROVE  LinkInv'
  BY <1>20 DEF DialRefused, Go, Ends, Local, client, sleep, stream, restart
<1>21. ASSUME NEW c \in Clients, DialFails(c)
      PROVE  LinkInv'
  BY <1>21 DEF DialFails, Go, Ends, Local, client, sleep, stream, restart
<1>22. ASSUME NEW c \in Clients, FirstDialFails(c)
      PROVE  LinkInv'
  BY <1>22 DEF FirstDialFails, Go, Ends, Local, client, sleep, stream, restart
<1>23. ASSUME NEW c \in Clients, Try(c)
      PROVE  LinkInv'
  BY <1>23 DEF Try, Go, Ends, Local, client, sleep, stream, restart
<1>24. ASSUME NEW c \in Clients, WindowEnds(c)
      PROVE  LinkInv'
  BY <1>24 DEF WindowEnds, Go, Ends, Local, client, sleep, stream, restart
<1>25. ASSUME NEW c \in Clients, Leave(c)
      PROVE  LinkInv'
  BY <1>25 DEF Leave, Go, Ends, Local, client, sleep, stream, restart
<1>26. ASSUME NEW c \in Clients, SeeEnd(c)
      PROVE  LinkInv'
  <2>1. /\ at[c] = "held" /\ ending' = [ending EXCEPT ![c] = "eof"]
        /\ UNCHANGED <<kind, link, hangUp, sleep, Local>>
    BY <1>26 DEF SeeEnd, Ends
  <2>2. \E where \in {"trying", "out", "closing"} : at' = [at EXCEPT ![c] = where]
    BY <1>26 DEF SeeEnd, Go
  <2>3. told' \subseteq Clients /\ window' \subseteq Clients
    <3>1. told' \in {told, told \ {c}} /\ window' \in {window, window \cup {c}}
      <4> HIDE DEF LinkInv, RelinkTypeOK, HasLink
      <4> QED BY <1>26 DEF SeeEnd
    <3> QED BY <3>1
  <2>4. at' \in [Clients -> {"off", "held", "closing", "counting", "trying", "out"}]
    BY <2>2
  <2>5. HasLink'
    <3>1. \A d \in Clients : /\ at'[d] \notin {"off", "out"} => at[d] \notin {"off", "out"}
                             /\ link'[d] = link[d]
      BY <2>1, <2>2
    <3> QED BY <3>1
  <2> QED BY <2>1, <2>3, <2>4, <2>5 DEF Local, client, sleep, stream, restart
<1>27. ASSUME NEW c \in Clients, SeeCut(c)
      PROVE  LinkInv'
  BY <1>27 DEF SeeCut, Go, Ends, Local, client, sleep, stream, restart
<1>28. ASSUME NEW c \in Clients, SeeGap(c)
      PROVE  LinkInv'
  <2>1. ending' \in [Clients -> {"", "cut", "eof"}]
    BY <1>28 DEF SeeGap, Ends
  <2>2. /\ slept' \in [Clients -> {"no", "gap", "yes"}]
        /\ pipe' \in [Links -> SUBSET Packets]
    BY <1>28 DEF SeeGap
  <2>3. /\ at' \in [Clients -> {"off", "held", "closing", "counting", "trying", "out"}]
        /\ HasLink'
    BY <1>28 DEF SeeGap
  <2> QED BY <1>28, <2>1, <2>2, <2>3 DEF SeeGap, restart
<1>29. ASSUME NEW c \in Clients, Closed(c)
      PROVE  LinkInv'
  BY <1>29 DEF Closed, Go, Ends, Local, client, sleep, stream, restart
<1>30. ASSUME NEW c \in Clients, Nap(c)
      PROVE  LinkInv'
  BY <1>30 DEF Nap, Go, Ends, Local, client, sleep, stream, restart
<1>31. ASSUME NEW c \in Clients, WakeUp(c)
      PROVE  LinkInv'
  BY <1>31 DEF WakeUp, Go, Ends, Local, client, sleep, stream, restart
<1>32. ASSUME NEW c \in Clients, NEW packet \in Packets, Read(c, packet)
      PROVE  LinkInv'
  <2>1. link[c] \in Links
    BY <1>32 DEF Read
  <2>2. pipe' \in [Links -> SUBSET Packets]
    BY <1>32, <2>1 DEF Read
  <2>3. unanswered' \in [Links -> 0..Misses]
    BY <1>32, <2>1, NoneUnanswered DEF Read
  <2>4. told' \subseteq Clients /\ hangUp' \subseteq Clients
    BY <1>32 DEF Read
  <2> QED BY <1>32, <2>2, <2>3, <2>4 DEF Read, client, sleep, stream, restart
<1>33. CASE UNCHANGED vars
  BY <1>33 DEF vars, client, sleep, stream, restart
<1> HIDE DEF LinkInv, RelinkTypeOK, HasLink
<1> QED
  BY <1>1, <1>2, <1>3, <1>4, <1>5, <1>6, <1>7, <1>8, <1>9, <1>10, <1>11, <1>12, <1>13, <1>14,
     <1>15, <1>16, <1>17, <1>18, <1>19, <1>20, <1>21, <1>22, <1>23, <1>24, <1>25, <1>26,
     <1>27, <1>28, <1>29, <1>30, <1>31, <1>32, <1>33
  DEF Next, ServerStep, RestartStep, ClientStep, Packets

\* The state stays in its types, on both ends (client/relink.py,
\* connection/server.py): a ping that waits for its write has a send before it,
\* and the count of unanswered ones is never above the limit.
THEOREM AttachmentsAreTyped == Spec => []RelinkTypeOK
<1>1. LinkInv => RelinkTypeOK
  BY DEF LinkInv
<1> QED BY LinkInit, LinkStep, <1>1, PTL DEF Spec

\* The same of the whole invariant, to build on.
LEMMA LinkAlways == Spec => []LinkInv
BY LinkInit, LinkStep, PTL DEF Spec

\* A sleep that the client may still notice was over this link.
NapsAreKnown == \A c \in Clients : slept[c] # "no" \/ c \in asleep => c \in napped

\* What makes `HangUpIsFinal` inductive.
HangUpInv == NapsAreKnown /\ HangUpIsFinal

\* Nobody was told to hang up at first.
LEMMA HangUpInit == Init => HangUpInv
BY DEF Init, HangUpInv, NapsAreKnown, HangUpIsFinal

\* Only the end of a link leads to the wait for another, and with a hang-up asked
\* it leads there after a sleep only.
LEMMA HangUpStep == LinkInv /\ HangUpInv /\ [Next]_vars => HangUpInv'
<1> SUFFICES ASSUME LinkInv, HangUpInv, [Next]_vars PROVE HangUpInv'
  OBVIOUS
<1> USE DEF HangUpInv, NapsAreKnown, HangUpIsFinal
<1>t. /\ at \in [Clients -> {"off", "held", "closing", "counting", "trying", "out"}]
      /\ slept \in [Clients -> {"no", "gap", "yes"}]
      /\ hangUp \subseteq Clients
  BY DEF LinkInv, RelinkTypeOK
<1>1. ASSUME NEW l \in Links, Detach(l)
     PROVE  HangUpInv'
  BY <1>1, <1>t DEF Detach, client, sleep, stream, restart
<1>2. ASSUME NEW l \in Links, HangUp(l)
     PROVE  HangUpInv'
  BY <1>2, <1>t DEF HangUp, client, sleep, stream, restart
<1>3. ASSUME NEW l \in Links, Park(l)
     PROVE  HangUpInv'
  BY <1>3, <1>t DEF Park, client, sleep, stream, restart
<1>4. ASSUME NEW l \in Links, Unpark(l)
     PROVE  HangUpInv'
  BY <1>4, <1>t DEF Unpark, client, sleep, stream, restart
<1>5. ASSUME NEW l \in Links, Ping(l)
     PROVE  HangUpInv'
  BY <1>5, <1>t DEF Ping, client, sleep, stream, restart
<1>6. ASSUME NEW l \in Links, Drop(l)
     PROVE  HangUpInv'
  BY <1>6, <1>t DEF Drop, client, sleep, stream, restart
<1>7. ASSUME NEW l \in Links, ReadsTheEnd(l)
     PROVE  HangUpInv'
  BY <1>7, <1>t DEF ReadsTheEnd, client, sleep, stream, restart
<1>8. ASSUME NEW l \in Links, LeftBehind(l)
     PROVE  HangUpInv'
  BY <1>8, <1>t DEF LeftBehind, client, sleep, stream, restart
<1>9. ASSUME NEW l \in Links, Cut(l)
     PROVE  HangUpInv'
  BY <1>9, <1>t DEF Cut, client, sleep, stream, restart
<1>10. ASSUME NEW l \in Links, Tell(l)
      PROVE  HangUpInv'
  BY <1>10, <1>t DEF Tell, client, sleep, stream, restart
<1>11. ASSUME BeginUpgrade
      PROVE  HangUpInv'
  BY <1>11, <1>t DEF BeginUpgrade, client, sleep, stream, restart
<1>12. ASSUME BeginLeaving
      PROVE  HangUpInv'
  BY <1>12, <1>t DEF BeginLeaving, client, sleep, stream, restart
<1>13. ASSUME RollBack
      PROVE  HangUpInv'
  BY <1>13, <1>t DEF RollBack, client, sleep, stream, restart
<1>14. ASSUME Exec
      PROVE  HangUpInv'
  BY <1>14, <1>t DEF Exec, client, sleep, stream, restart
<1>15. ASSUME StopServer
      PROVE  HangUpInv'
  BY <1>15, <1>t DEF StopServer, client, sleep, stream, restart
<1>16. ASSUME Resume
      PROVE  HangUpInv'
  BY <1>16, <1>t DEF Resume, client, sleep, stream, restart
<1>17. ASSUME Crash
      PROVE  HangUpInv'
  BY <1>17, <1>t DEF Crash, client, sleep, stream, restart
<1>18. ASSUME StartServer
      PROVE  HangUpInv'
  BY <1>18, <1>t DEF StartServer, client, sleep, stream, restart
<1>19. ASSUME NEW c \in Clients, NEW l \in Links, DialOpens(c, l)
      PROVE  HangUpInv'
  BY <1>19, <1>t DEF DialOpens, Awake, Go, client, sleep, stream, restart
<1>20. ASSUME NEW c \in Clients, DialRefused(c)
      PROVE  HangUpInv'
  BY <1>20, <1>t DEF DialRefused, Go, Ends, Local, client, sleep, stream, restart
<1>21. ASSUME NEW c \in Clients, DialFails(c)
      PROVE  HangUpInv'
  BY <1>21, <1>t DEF DialFails, Go, Ends, Local, client, sleep, stream, restart
<1>22. ASSUME NEW c \in Clients, FirstDialFails(c)
      PROVE  HangUpInv'
  BY <1>22, <1>t DEF FirstDialFails, Go, Ends, Local, client, sleep, stream, restart
<1>23. ASSUME NEW c \in Clients, Try(c)
      PROVE  HangUpInv'
  BY <1>23, <1>t DEF Try, Go, Ends, Local, client, sleep, stream, restart
<1>24. ASSUME NEW c \in Clients, WindowEnds(c)
      PROVE  HangUpInv'
  BY <1>24, <1>t DEF WindowEnds, Go, Ends, Local, client, sleep, stream, restart
<1>25. ASSUME NEW c \in Clients, Leave(c)
      PROVE  HangUpInv'
  BY <1>25, <1>t DEF Leave, Go, Ends, Local, client, sleep, stream, restart
<1>26. ASSUME NEW c \in Clients, SeeEnd(c)
      PROVE  HangUpInv'
  BY <1>26, <1>t DEF SeeEnd, Go, Ends, Local, client, sleep, stream, restart
<1>27. ASSUME NEW c \in Clients, SeeCut(c)
      PROVE  HangUpInv'
  BY <1>27, <1>t DEF SeeCut, Go, Ends, Local, client, sleep, stream, restart
<1>28. ASSUME NEW c \in Clients, SeeGap(c)
      PROVE  HangUpInv'
  BY <1>28, <1>t DEF SeeGap, Go, Ends, Local, client, sleep, stream, restart
<1>29. ASSUME NEW c \in Clients, Closed(c)
      PROVE  HangUpInv'
  BY <1>29, <1>t DEF Closed, Go, Local, Lost, EndsOnPurpose, client, sleep, stream, restart
<1>30. ASSUME NEW c \in Clients, Nap(c)
      PROVE  HangUpInv'
  BY <1>30, <1>t DEF Nap, Go, Ends, Local, client, sleep, stream, restart
<1>31. ASSUME NEW c \in Clients, WakeUp(c)
      PROVE  HangUpInv'
  BY <1>31, <1>t DEF WakeUp, Go, Ends, Local, client, sleep, stream, restart
<1>32. ASSUME NEW c \in Clients, NEW packet \in Packets, Read(c, packet)
      PROVE  HangUpInv'
  BY <1>32, <1>t DEF Read, client, sleep, stream, restart
<1>33. CASE UNCHANGED vars
  BY <1>33 DEF vars, client, sleep, stream, restart
<1> HIDE DEF LinkInv, RelinkTypeOK, HasLink
<1> QED
  BY <1>1, <1>2, <1>3, <1>4, <1>5, <1>6, <1>7, <1>8, <1>9, <1>10, <1>11, <1>12, <1>13, <1>14,
     <1>15, <1>16, <1>17, <1>18, <1>19, <1>20, <1>21, <1>22, <1>23, <1>24, <1>25, <1>26,
     <1>27, <1>28, <1>29, <1>30, <1>31, <1>32, <1>33
  DEF Next, ServerStep, RestartStep, ClientStep, Packets

\* For any clients: whoever `attach -x` told to hang up never waits for another
\* link, however the old one ends (`hold_one` in client/ssh.py), unless its
\* machine slept over that link.
THEOREM HangUpsAreFinal == Spec => []HangUpIsFinal
<1>1. HangUpInv => HangUpIsFinal
  BY DEF HangUpInv
<1> QED BY HangUpInit, HangUpStep, LinkAlways, <1>1, PTL DEF Spec

\* Once the listener is closed, whoever holds a link that works is on the list of
\* those to tell, or was told.
Leaving == server = "leaves" =>
  \A l \in Open : kind[Owner(l)] # "peer" /\ Holds(Owner(l), l) /\ fin[l] = "up"
                    => l \in toTell \/ ToldOf(l)

\* The list is made after the listener closed, so no connection is added to it, and
\* a connection leaves it by being told.
LEMMA LeavingStep == LinkInv /\ Leaving /\ [Next]_vars => Leaving'
<1> SUFFICES ASSUME LinkInv, Leaving, [Next]_vars, server' = "leaves" PROVE Leaving'
  BY DEF Leaving
<1> USE DEF Leaving, Open, Holds, ToldOf
<1>t. /\ at \in [Clients -> {"off", "held", "closing", "counting", "trying", "out"}]
      /\ conn \in [Links -> {"queued", "open", "closed"}]
      /\ fin \in [Links -> {"up", "eof", "cut"}]
      /\ pipe \in [Links -> SUBSET Packets]
      /\ \A l \in Links : Owner(l) \in Clients
      /\ \A c \in Clients : at[c] = "held" => link[c] \in Links /\ Owner(link[c]) = c
  BY OwnerIsClient DEF LinkInv, HasLink, RelinkTypeOK, Packets
<1>1. ASSUME NEW l \in Links, Detach(l)
     PROVE  Leaving'
  BY <1>1, <1>t DEF Detach, CloseConnections, client, sleep, stream, restart
<1>2. ASSUME NEW l \in Links, HangUp(l)
     PROVE  Leaving'
  BY <1>2, <1>t DEF HangUp, CloseConnections, Send, client, sleep, stream, restart
<1>3. ASSUME NEW l \in Links, Park(l)
     PROVE  Leaving'
  BY <1>3, <1>t DEF Park, client, sleep, stream, restart
<1>4. ASSUME NEW l \in Links, Unpark(l)
     PROVE  Leaving'
  BY <1>4, <1>t DEF Unpark, Send, client, sleep, stream, restart
<1>5. ASSUME NEW l \in Links, Ping(l)
     PROVE  Leaving'
  BY <1>5, <1>t DEF Ping, Send, client, sleep, stream, restart
<1>6. ASSUME NEW l \in Links, Drop(l)
     PROVE  Leaving'
  BY <1>6, <1>t DEF Drop, CloseConnections, client, sleep, stream, restart
<1>7. ASSUME NEW l \in Links, ReadsTheEnd(l)
     PROVE  Leaving'
  BY <1>7, <1>t DEF ReadsTheEnd, CloseConnections, client, sleep, stream, restart
<1>8. ASSUME NEW l \in Links, LeftBehind(l)
     PROVE  Leaving'
  BY <1>8, <1>t DEF LeftBehind, CloseConnections, client, sleep, stream, restart
<1>9. ASSUME NEW l \in Links, Cut(l)
     PROVE  Leaving'
  BY <1>9, <1>t DEF Cut, client, sleep, stream, restart
<1>10. ASSUME NEW l \in Links, Tell(l)
      PROVE  Leaving'
  BY <1>10, <1>t DEF Tell, Send, client, sleep, stream, restart
<1>11. ASSUME BeginUpgrade
      PROVE  Leaving'
  BY <1>11, <1>t DEF BeginUpgrade, client, sleep, stream, restart
<1>12. ASSUME BeginLeaving
      PROVE  Leaving'
  BY <1>12, <1>t DEF BeginLeaving, client, sleep, stream, restart
<1>13. ASSUME RollBack
      PROVE  Leaving'
  BY <1>13, <1>t DEF RollBack, client, sleep, stream, restart
<1>14. ASSUME Exec
      PROVE  Leaving'
  BY <1>14, <1>t DEF Exec, CloseConnections, client, sleep, stream, restart
<1>15. ASSUME StopServer
      PROVE  Leaving'
  BY <1>15, <1>t DEF StopServer, CloseConnections, client, sleep, stream, restart
<1>16. ASSUME Resume
      PROVE  Leaving'
  BY <1>16, <1>t DEF Resume, client, sleep, stream, restart
<1>17. ASSUME Crash
      PROVE  Leaving'
  BY <1>17, <1>t DEF Crash, CloseConnections, client, sleep, stream, restart
<1>18. ASSUME StartServer
      PROVE  Leaving'
  BY <1>18, <1>t DEF StartServer, client, sleep, stream, restart
<1>19. ASSUME NEW c \in Clients, NEW l \in Links, DialOpens(c, l)
      PROVE  Leaving'
  BY <1>19, <1>t DEF DialOpens, Listens, client, sleep, stream, restart
<1>20. ASSUME NEW c \in Clients, DialRefused(c)
      PROVE  Leaving'
  BY <1>20, <1>t DEF DialRefused, Go, Ends, Local, client, sleep, stream, restart
<1>21. ASSUME NEW c \in Clients, DialFails(c)
      PROVE  Leaving'
  BY <1>21, <1>t DEF DialFails, Go, Ends, Local, client, sleep, stream, restart
<1>22. ASSUME NEW c \in Clients, FirstDialFails(c)
      PROVE  Leaving'
  BY <1>22, <1>t DEF FirstDialFails, Go, Ends, Local, client, sleep, stream, restart
<1>23. ASSUME NEW c \in Clients, Try(c)
      PROVE  Leaving'
  BY <1>23, <1>t DEF Try, Go, Ends, Local, client, sleep, stream, restart
<1>24. ASSUME NEW c \in Clients, WindowEnds(c)
      PROVE  Leaving'
  BY <1>24, <1>t DEF WindowEnds, Go, Ends, Local, client, sleep, stream, restart
<1>25. ASSUME NEW c \in Clients, Leave(c)
      PROVE  Leaving'
  BY <1>25, <1>t DEF Leave, Go, Ends, Local, client, sleep, stream, restart
<1>26. ASSUME NEW c \in Clients, SeeEnd(c)
      PROVE  Leaving'
  BY <1>26, <1>t DEF SeeEnd, Go, Ends, Local, client, sleep, stream, restart
<1>27. ASSUME NEW c \in Clients, SeeCut(c)
      PROVE  Leaving'
  BY <1>27, <1>t DEF SeeCut, Go, Ends, Local, client, sleep, stream, restart
<1>28. ASSUME NEW c \in Clients, SeeGap(c)
      PROVE  Leaving'
  <2>1. /\ at' = [at EXCEPT ![c] = "closing"] /\ pipe' = [pipe EXCEPT ![link[c]] = {}]
        /\ at[c] \in {"held", "closing"}
    BY <1>28 DEF SeeGap
  <2>2. UNCHANGED <<kind, link, told, conn, fin, toTell, server>>
    BY <1>28 DEF SeeGap, restart
  <2>3. link[c] \in Links /\ Owner(link[c]) = c
    BY <2>1 DEF LinkInv, HasLink
  <2> QED BY <1>t, <2>1, <2>2, <2>3
<1>29. ASSUME NEW c \in Clients, Closed(c)
      PROVE  Leaving'
  BY <1>29, <1>t DEF Closed, Go, Ends, Local, client, sleep, stream, restart
<1>30. ASSUME NEW c \in Clients, Nap(c)
      PROVE  Leaving'
  BY <1>30, <1>t DEF Nap, Go, Ends, Local, client, sleep, stream, restart
<1>31. ASSUME NEW c \in Clients, WakeUp(c)
      PROVE  Leaving'
  BY <1>31, <1>t DEF WakeUp, Go, Ends, Local, client, sleep, stream, restart
<1>32. ASSUME NEW c \in Clients, NEW packet \in Packets, Read(c, packet)
      PROVE  Leaving'
  BY <1>32, <1>t DEF Read, client, sleep, stream, restart
<1>33. CASE UNCHANGED vars
  BY <1>33 DEF vars, client, sleep, stream, restart
<1> HIDE DEF LinkInv, RelinkTypeOK, HasLink
<1> QED
  BY <1>1, <1>2, <1>3, <1>4, <1>5, <1>6, <1>7, <1>8, <1>9, <1>10, <1>11, <1>12, <1>13, <1>14,
     <1>15, <1>16, <1>17, <1>18, <1>19, <1>20, <1>21, <1>22, <1>23, <1>24, <1>25, <1>26,
     <1>27, <1>28, <1>29, <1>30, <1>31, <1>32, <1>33
  DEF Next, ServerStep, RestartStep, ClientStep, Packets

\* For any clients: when `kill-server -r` stops the server, each client whose link
\* works has read that a server follows, or is about to (commands/kill_server.py).
THEOREM NobodyIsLeftUntold == Spec => LeavesNobodyUntold
<1>1. Init => Leaving
  BY DEF Init, Leaving
<1>2. Leaving /\ [Next]_vars /\ server = "leaves" /\ server' = "stopped" =>
        \A l \in Open : kind[Owner(l)] # "peer" /\ Holds(Owner(l), l) /\ fin[l] = "up" => ToldOf(l)
  <2> SUFFICES ASSUME Leaving, [Next]_vars, server = "leaves", server' = "stopped"
               PROVE  toTell = {}
    BY DEF Leaving
  <2> QED BY DEF Next, ServerStep, RestartStep, ClientStep, vars, client, sleep, stream, restart,
                 Local, Detach, HangUp, Park, Unpark, Ping, Drop, ReadsTheEnd, LeftBehind, Cut,
                 Tell,
                 BeginUpgrade, BeginLeaving, RollBack, Exec, StopServer, Resume, Crash, StartServer,
                 DialOpens, DialRefused, DialFails, FirstDialFails, Try, WindowEnds, Leave, Read,
                 SeeEnd, SeeCut, SeeGap, Closed, Nap, WakeUp
<1> QED BY <1>1, <1>2, LeavingStep, LinkAlways, PTL DEF Spec, LeavesNobodyUntold

=============================================================================
