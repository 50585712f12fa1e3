--------------------------- MODULE PaneLifeProofs ---------------------------
(***************************************************************************)
(* For any sessions, windows, panes and clients: the types; the clients are *)
(* on listed sessions, wherever sessions end; a pane has one place; and     *)
(* what is taken out of every window was hung up. Each has an invariant of  *)
(* its own below, but the last, which is about a step and rests on those of *)
(* the others.                                                              *)
(***************************************************************************)
EXTENDS PaneLife, FiniteSetTheorems, TLAPS

ClientsOK == client = [c \in Clients |-> client[c]]

ListedInv == LookedAtIsListed /\ ClientsOK

-----------------------------------------------------------------------------
\* `last_used_session` answers with one of the sessions that are left.
LEMMA LastUsedIsLeft ==
    ASSUME NEW left PROVE LastUsed(left) \subseteq left
BY DEF LastUsed

\* `remove_session` leaves no client on the session it takes off the list.
LEMMA RemoveSessionMoves ==
    ASSUME NEW s, LookedAtIsListed, ClientsOK, RemoveSession(s), late' = late
    PROVE  LookedAtIsListed' /\ ClientsOK'
<1>1. CASE s \in sessions /\ sessions # {s}
  <2>1. PICK t \in LastUsed(sessions') :
          client' = [c \in Clients |-> IF client[c] = s THEN t ELSE client[c]]
    BY <1>1 DEF RemoveSession
  <2>2. t \in sessions' /\ sessions' = sessions \ {s}
    BY <2>1, LastUsedIsLeft, <1>1 DEF RemoveSession
  <2>3. ClientsOK'
    BY <2>1 DEF ClientsOK
  <2>4. ASSUME NEW c \in Clients
        PROVE  client'[c] \in sessions' \cup {None} \cup late'
    <3>1. client[c] \in sessions \cup {None} \cup late
      BY DEF LookedAtIsListed
    <3>2. client'[c] = IF client[c] = s THEN t ELSE client[c]
      BY <2>1
    <3> QED BY <3>1, <3>2, <2>2
  <2> QED BY <2>3, <2>4 DEF LookedAtIsListed
<1>2. CASE ~(s \in sessions /\ sessions # {s})
  <2>1. UNCHANGED <<sessions, client>>
    BY <1>2 DEF RemoveSession
  <2> QED BY <2>1 DEF LookedAtIsListed, ClientsOK
<1> QED BY <1>1, <1>2

\* What leaves the list and the clients alone leaves them on it.
LEMMA UnlistedKeeps ==
    ASSUME LookedAtIsListed, ClientsOK, UNCHANGED client,
           sessions \subseteq sessions', late \subseteq late'
    PROVE  LookedAtIsListed' /\ ClientsOK'
BY DEF LookedAtIsListed, ClientsOK

\* `end_if_empty` removes the session or does nothing.
LEMMA EndIfEmptyMoves ==
    ASSUME NEW s, LookedAtIsListed, ClientsOK, EndIfEmpty(s), late' = late
    PROVE  LookedAtIsListed' /\ ClientsOK'
<1>1. CASE Emptied(s)
  BY <1>1, RemoveSessionMoves DEF EndIfEmpty
<1>2. CASE ~Emptied(s)
  <2>1. UNCHANGED <<sessions, client>>
    BY <1>2 DEF EndIfEmpty, listing
  <2> QED BY <2>1, UnlistedKeeps
<1> QED BY <1>1, <1>2

-----------------------------------------------------------------------------
LEMMA ListedInit == Init => ListedInv
<1> SUFFICES ASSUME Init PROVE ListedInv
  OBVIOUS
<1> DEFINE first == CHOOSE s \in Sessions : TRUE
<1>1. sessions = {first} /\ client \in [Clients -> {first, None}]
  BY DEF Init
<1> HIDE DEF first
<1> QED BY <1>1 DEF ListedInv, LookedAtIsListed, ClientsOK

\* A program starts: the list only grows.
LEMMA MakingKeeps == ListedInv /\ Making => ListedInv'
<1> SUFFICES ASSUME ListedInv, Making PROVE ListedInv'
  OBVIOUS
<1>1. UNCHANGED <<client, late>> /\ sessions \subseteq sessions'
  BY DEF Making, NewSession, NewWindow, SplitWindow, Respawn, Begin, listing
<1> QED BY <1>1, UnlistedKeeps DEF ListedInv

\* A start is over: its client goes to a session that is listed, or late.
LEMMA FinishKeeps == ASSUME NEW m \in making, ListedInv, Finish(m) PROVE ListedInv'
<1>1. /\ sessions' = sessions
      /\ client' = [c \in Clients |-> IF m.to = "window" /\ c = m.who THEN m.session ELSE client[c]]
  BY DEF Finish
<1>2. late \subseteq late' /\ (m.to = "window" => {m.session} \ sessions \subseteq late')
  BY DEF Finish, PutInNewWindow, PutInSplit, PutInPlaceOf
<1>3. ASSUME NEW c \in Clients
      PROVE  client'[c] \in sessions' \cup {None} \cup late'
  <2>1. CASE m.to = "window" /\ c = m.who
    BY <2>1, <1>1, <1>2
  <2>2. CASE ~(m.to = "window" /\ c = m.who)
    <3>1. client'[c] = client[c]
      BY <2>2, <1>1
    <3> QED BY <3>1, <1>1, <1>2 DEF ListedInv, LookedAtIsListed
  <2> QED BY <2>1, <2>2
<1> QED BY <1>1, <1>3 DEF ListedInv, LookedAtIsListed, ClientsOK

\* Programs end and panes are killed: sessions that empty lose their clients.
LEMMA EndingKeeps == ListedInv /\ Ending => ListedInv'
<1> SUFFICES ASSUME ListedInv, Ending PROVE ListedInv'
  OBVIOUS
<1>0. ASSUME LookedAtIsListed', ClientsOK' PROVE ListedInv'
  BY <1>0 DEF ListedInv
<1>1. ASSUME NEW p \in Panes, ProgramEnds(p) PROVE ListedInv'
  <2>1. late' = late
    BY <1>1 DEF ProgramEnds
  <2>2. CASE UNCHANGED listing
    BY <2>1, <2>2, <1>0, UnlistedKeeps DEF ListedInv, listing
  <2>3. CASE \E s : EndIfEmpty(s)
    BY <2>1, <2>3, <1>0, EndIfEmptyMoves DEF ListedInv
  <2> QED BY <1>1, <2>2, <2>3 DEF ProgramEnds, TakeEndedPane
<1>2. ASSUME NEW p \in Panes, JobEnds(p) \/ KillPaneElsewhere(p) PROVE ListedInv'
  <2>1. UNCHANGED listing /\ late' = late
    BY <1>2 DEF JobEnds, KillPaneElsewhere
  <2> QED BY <2>1, <1>0, UnlistedKeeps DEF ListedInv, listing
<1>3. ASSUME NEW s, NEW gone, NEW last, Kill(s, gone, last) PROVE ListedInv'
  <2>1. late' = late
    BY <1>3 DEF Kill
  <2>2. CASE UNCHANGED listing
    BY <2>1, <2>2, <1>0, UnlistedKeeps DEF ListedInv, listing
  <2>3. CASE EndIfEmpty(s)
    BY <2>1, <2>3, <1>0, EndIfEmptyMoves DEF ListedInv
  <2> QED BY <1>3, <2>2, <2>3 DEF Kill
<1>4. ASSUME NEW s \in Sessions, KillSession(s) PROVE ListedInv'
  <2>1. late' = late /\ RemoveSession(s)
    BY <1>4 DEF KillSession
  <2> QED BY <2>1, <1>0, RemoveSessionMoves DEF ListedInv
<1>5. CASE \E p \in Panes : KillPane(p)
  BY <1>5, <1>3 DEF KillPane
<1>6. CASE \E s \in Sessions, w \in Windows : KillWindow(s, w)
  BY <1>6, <1>3 DEF KillWindow
<1> QED BY <1>1, <1>2, <1>4, <1>5, <1>6 DEF Ending

\* A move leaves the list and the clients alone, and `move-window -k` moves
\* those of the session it empties.
LEMMA MovingKeeps == ListedInv /\ Moving => ListedInv'
<1> SUFFICES ASSUME ListedInv, Moving PROVE ListedInv'
  OBVIOUS
<1>1. late' = late
  BY DEF Moving, Unlink, LinkFromPen, MoveWindow, MoveOnto, MovePane, BreakPane
<1>2. CASE UNCHANGED listing
  BY <1>1, <1>2, UnlistedKeeps DEF ListedInv, listing
<1>3. CASE \E s : RemoveSession(s)
  BY <1>1, <1>3, RemoveSessionMoves DEF ListedInv
<1> QED BY <1>2, <1>3 DEF Moving, Unlink, LinkFromPen, MoveWindow, MoveOnto, MovePane, BreakPane

LEMMA ListedStep == ListedInv /\ [Next]_vars => ListedInv'
<1> SUFFICES ASSUME ListedInv, [Next]_vars PROVE ListedInv'
  OBVIOUS
<1>1. CASE Making
  BY <1>1, MakingKeeps
<1>2. CASE \E m \in making : Finish(m)
  BY <1>2, FinishKeeps
<1>3. CASE Ending
  BY <1>3, EndingKeeps
<1>4. CASE Moving
  BY <1>4, MovingKeeps
<1>5. ASSUME NEW c \in Clients, NEW s \in Sessions \cup {None}, Watch(c, s) PROVE ListedInv'
  <2>1. client' = [client EXCEPT ![c] = s] /\ s \in sessions \cup {None}
    BY <1>5 DEF Watch
  <2>2. UNCHANGED <<sessions, late>>
    BY <1>5 DEF Watch
  <2>3. client' = [d \in Clients |-> IF d = c THEN s ELSE client[d]]
    BY <2>1 DEF ListedInv, ClientsOK
  <2> QED BY <2>1, <2>2, <2>3 DEF ListedInv, LookedAtIsListed, ClientsOK
<1>6. CASE KillServer \/ HangUpAll \/ Stop
  <2>1. UNCHANGED <<sessions, client, late>>
    BY <1>6 DEF KillServer, HangUpAll, Stop, listing
  <2> QED BY <2>1, UnlistedKeeps DEF ListedInv
<1>7. CASE UNCHANGED vars
  <2>1. UNCHANGED <<sessions, client, late>>
    BY <1>7 DEF vars, listing
  <2> QED BY <2>1, UnlistedKeeps DEF ListedInv
<1> QED BY <1>1, <1>2, <1>3, <1>4, <1>5, <1>6, <1>7 DEF Next

\* A client is on a listed session, or on one whose first window was on its
\* way when it was taken off: `remove_session` moves everybody else, however
\* the session came to its end.
THEOREM ClientsAreOnListedSessions == Spec => []LookedAtIsListed
<1>1. ListedInv => LookedAtIsListed
  BY DEF ListedInv
<1> QED BY ListedInit, ListedStep, <1>1, PTL DEF Spec
-----------------------------------------------------------------------------
(* The shape of the state. *)

LEMMA TypeInit == Init => PanesTypeOK
<1> SUFFICES ASSUME Init PROVE PanesTypeOK
  OBVIOUS
<1> DEFINE first == CHOOSE s \in Sessions : TRUE
           one == CHOOSE p \in Panes : p \notin Viewers
           place == CHOOSE w \in Windows : TRUE
<1>1. first \in Sessions /\ one \in Panes /\ one \notin Viewers /\ place \in Windows
  BY PaneLifeAssumption
<1>2. /\ sessions = {first} /\ named = {first} /\ client \in [Clients -> {first, None}]
      /\ program = [q \in Panes |-> IF q = one THEN "starting" ELSE "none"]
      /\ making = {[pane |-> one, to |-> "window", session |-> first, at |-> place, who |-> None]}
  BY DEF Init
<1> HIDE DEF first, one, place
<1>3. making \subseteq Requests
  BY <1>1, <1>2 DEF Requests
<1>4. program \in [Panes -> {"none", "starting", "running", "hungup", "ended"}]
      /\ \A p \in Viewers : program[p] # "hungup"
  BY <1>1, <1>2, PaneLifeAssumption
<1>5. client \in [Clients -> Sessions \cup {None}]
  BY <1>1, <1>2
<1> QED BY <1>1, <1>2, <1>3, <1>4, <1>5 DEF Init, PanesTypeOK

\* A program that is hung up is a program still, and no viewer's.
LEMMA HungUpTyped ==
    ASSUME PanesTypeOK, NEW p \in Panes
    PROVE  /\ HungUp(p) \in {"none", "starting", "running", "hungup", "ended"}
           /\ p \in Viewers => HungUp(p) # "hungup"
           /\ HungUp(p) # "running"
           /\ HungUp(p) \in {"none", "starting"} <=> program[p] \in {"none", "starting"}
           /\ program[p] \in {"none", "starting"} => HungUp(p) = program[p]
BY DEF PanesTypeOK, HungUp, Alive

LEMMA RemovePanesTyped ==
    ASSUME PanesTypeOK, NEW s \in Sessions, NEW gone, RemovePanes(s, gone)
    PROVE  /\ order' \in [Sessions -> SUBSET Windows] /\ pen' \in [Sessions -> SUBSET Windows]
           /\ panes' \in [Windows -> SUBSET Panes]
BY DEF PanesTypeOK, RemovePanes

LEMMA RemoveSessionTyped ==
    ASSUME PanesTypeOK, NEW s, RemoveSession(s)
    PROVE  /\ sessions' \subseteq sessions /\ sessions' # {}
           /\ client' \in [Clients -> Sessions \cup {None}] /\ asked' \in BOOLEAN
<1>1. CASE s \in sessions /\ sessions # {s}
  <2>1. PICK t \in LastUsed(sessions') :
          client' = [c \in Clients |-> IF client[c] = s THEN t ELSE client[c]]
    BY <1>1 DEF RemoveSession
  <2>2. t \in sessions' /\ sessions' = sessions \ {s} /\ asked' = asked
    BY <2>1, LastUsedIsLeft, <1>1 DEF RemoveSession
  <2> QED BY <2>1, <2>2, <1>1 DEF PanesTypeOK
<1>2. CASE ~(s \in sessions /\ sessions # {s})
  BY <1>2 DEF RemoveSession, PanesTypeOK
<1> QED BY <1>1, <1>2

\* What `remove_session` may leave of the listing.
ListingOK ==
    /\ sessions' \subseteq sessions /\ sessions' # {}
    /\ client' \in [Clients -> Sessions \cup {None}] /\ asked' \in BOOLEAN

LEMMA UnchangedListingTyped == PanesTypeOK /\ UNCHANGED listing => ListingOK
BY DEF PanesTypeOK, listing, ListingOK

LEMMA EndIfEmptyTyped == ASSUME PanesTypeOK, NEW s, EndIfEmpty(s) PROVE ListingOK
BY RemoveSessionTyped, UnchangedListingTyped DEF EndIfEmpty, ListingOK

LEMMA MakingTyped == PanesTypeOK /\ Making => PanesTypeOK'
<1> SUFFICES ASSUME PanesTypeOK, Making PROVE PanesTypeOK'
  OBVIOUS
<1>0. ASSUME Fresh # {} PROVE NewOne \in Windows
  BY <1>0 DEF NewOne, Fresh
<1>1. ASSUME NEW s \in Sessions, NEW p \in Panes, NEW c \in Clients \cup {None}, NewSession(s, p, c)
      PROVE PanesTypeOK'
  BY <1>0, <1>1 DEF NewSession, PanesTypeOK, Requests, places
<1>2. ASSUME NEW p \in Panes, NEW to, NEW s, NEW at, NEW c \in Clients \cup {None},
             Begin(p, to, s, at, c),
             \/ to \in {"window", "split"} /\ at \in Windows /\ s \in Sessions
             \/ to = "respawn" /\ at \in Panes /\ s = None
      PROVE  making' \subseteq Requests
  BY <1>2 DEF Begin, PanesTypeOK, Requests
<1>3. ASSUME NEW s \in Sessions, NEW p \in Panes, NewWindow(s, p) PROVE PanesTypeOK'
  <2>1. making' \subseteq Requests
    BY <1>0, <1>2, <1>3 DEF NewWindow
  <2> QED BY <2>1, <1>3 DEF NewWindow, Begin, PanesTypeOK, places, listing
<1>4. ASSUME NEW s \in Sessions, NEW w \in Windows, NEW p \in Panes, SplitWindow(s, w, p)
      PROVE  PanesTypeOK'
  <2>1. making' \subseteq Requests
    BY <1>2, <1>4 DEF SplitWindow
  <2> QED BY <2>1, <1>4 DEF SplitWindow, Begin, PanesTypeOK, places, listing
<1>5. ASSUME NEW c \in Clients \cup {None}, NEW old \in Panes, NEW p \in Panes, Respawn(c, old, p)
      PROVE  PanesTypeOK'
  <2>1. making' \subseteq Requests
    BY <1>2, <1>5 DEF Respawn
  <2>2. /\ program' \in [Panes -> {"none", "starting", "running", "hungup", "ended"}]
        /\ \A q \in Viewers : program'[q] # "hungup"
    BY <1>5, HungUpTyped, PaneLifeAssumption DEF Respawn, PanesTypeOK
  <2> QED BY <2>1, <2>2, <1>5 DEF Respawn, Begin, PanesTypeOK, places, listing
<1> QED BY <1>1, <1>3, <1>4, <1>5 DEF Making

LEMMA FinishTyped == ASSUME NEW m \in making, PanesTypeOK, Finish(m) PROVE PanesTypeOK'
<1>1. /\ m.pane \in Panes
      /\ m.to \in {"window", "split"} => m.at \in Windows /\ m.session \in Sessions
  BY DEF PanesTypeOK, Requests
<1>2. /\ order' \in [Sessions -> SUBSET Windows] /\ panes' \in [Windows -> SUBSET Panes]
      /\ stranded' \subseteq Sessions /\ late' \subseteq Panes \cup Sessions
  <2>1. CASE PutInNewWindow(m)
    BY <1>1, <2>1 DEF PutInNewWindow, PanesTypeOK
  <2>2. CASE PutInSplit(m)
    BY <1>1, <2>2 DEF PutInSplit, PanesTypeOK
  <2>3. CASE PutInPlaceOf(m)
    BY <1>1, <2>3 DEF PutInPlaceOf, PanesTypeOK
  <2> QED BY <2>1, <2>2, <2>3 DEF Finish
<1>3. client' \in [Clients -> Sessions \cup {None}]
  BY <1>1 DEF Finish, PanesTypeOK
<1>4. program' \in [Panes -> {"none", "starting", "running", "hungup", "ended"}]
      /\ \A p \in Viewers : program'[p] # "hungup"
  BY <1>1, PaneLifeAssumption DEF Finish, PanesTypeOK
<1> QED BY <1>2, <1>3, <1>4 DEF Finish, PanesTypeOK
\* What an end of a program leaves behind has the types.
LEMMA EndingTyped == PanesTypeOK /\ Ending => PanesTypeOK'
<1> SUFFICES ASSUME PanesTypeOK, Ending PROVE PanesTypeOK'
  OBVIOUS
<1> DEFINE Programs == {"none", "starting", "running", "hungup", "ended"}
           ProgramsOK == program' \in [Panes -> Programs] /\ \A p \in Viewers : program'[p] # "hungup"
           KilledOK == killedIn' \in [Panes -> Sessions \cup {None}]
           PlacesOK == /\ order' \in [Sessions -> SUBSET Windows] /\ pen' \in [Sessions -> SUBSET Windows]
                       /\ panes' \in [Windows -> SUBSET Panes]
<1>0. ASSUME ProgramsOK, KilledOK, PlacesOK, ListingOK, stranded' \subseteq Sessions,
             UNCHANGED <<named, making, server, late>>
      PROVE  PanesTypeOK'
  BY <1>0 DEF PanesTypeOK, ListingOK
<1>1. ASSUME NEW p \in Panes, ProgramEnds(p) PROVE PanesTypeOK'
  <2>1. ProgramsOK /\ UNCHANGED <<named, making, server, stranded, late>>
    BY <1>1 DEF ProgramEnds, PanesTypeOK
  <2>2. KilledOK
    BY <1>1 DEF ProgramEnds, PanesTypeOK
  <2>3. CASE UNCHANGED places /\ UNCHANGED listing
    BY <2>1, <2>2, <2>3, <1>0, UnchangedListingTyped DEF places, PanesTypeOK
  <2>4. CASE \E s \in Holding(p) \cup ({killedIn[p]} \ {None}) : RemovePanes(s, {p}) /\ EndIfEmpty(s)
    <3>1. Holding(p) \cup ({killedIn[p]} \ {None}) \subseteq Sessions
      BY DEF Holding, PanesTypeOK
    <3>2. PlacesOK /\ ListingOK
      BY <2>4, <3>1, RemovePanesTyped, EndIfEmptyTyped
    <3> QED BY <2>1, <2>2, <3>2, <1>0 DEF PanesTypeOK
  <2> QED BY <1>1, <2>3, <2>4 DEF ProgramEnds, TakeEndedPane
<1>2. ASSUME NEW p \in Panes, JobEnds(p) \/ KillPaneElsewhere(p) PROVE PanesTypeOK'
  <2>1. ProgramsOK
    BY <1>2, HungUpTyped, PaneLifeAssumption DEF JobEnds, KillPaneElsewhere, PanesTypeOK
  <2>2. UNCHANGED <<listing, named, places, killedIn, making, server, stranded, late>>
    BY <1>2 DEF JobEnds, KillPaneElsewhere
  <2> QED BY <2>1, <2>2, <1>0, UnchangedListingTyped DEF places, PanesTypeOK
<1>3. ASSUME NEW s \in Sessions, NEW gone, RemovePanes(s, gone),
             program' = [p \in Panes |-> IF p \in gone THEN HungUp(p) ELSE program[p]],
             killedIn' = [p \in Panes |-> IF p \in gone /\ Alive(p) THEN s ELSE killedIn[p]]
      PROVE  ProgramsOK /\ KilledOK /\ PlacesOK
  <2>1. ProgramsOK
    BY <1>3, HungUpTyped, PaneLifeAssumption DEF PanesTypeOK
  <2>2. KilledOK
    BY <1>3 DEF PanesTypeOK
  <2> QED BY <1>3, <2>1, <2>2, RemovePanesTyped
<1>4. ASSUME NEW s \in Sessions, NEW gone, NEW last, Kill(s, gone, last) PROVE PanesTypeOK'
  <2>1. ProgramsOK /\ KilledOK /\ PlacesOK /\ stranded' \subseteq Sessions
    BY <1>4, <1>3 DEF Kill, KillPanes, PanesTypeOK
  <2>2. ListingOK
    BY <1>4, EndIfEmptyTyped, UnchangedListingTyped DEF Kill
  <2> QED BY <1>4, <2>1, <2>2, <1>0 DEF Kill
<1>5. ASSUME NEW s \in Sessions, KillSession(s) PROVE PanesTypeOK'
  <2>1. ProgramsOK /\ KilledOK /\ PlacesOK
    <3>1. RemovePanes(s, Held(s))
      BY <1>5 DEF KillSession
    <3> DEFINE gone == Held(s)
    <3>2. /\ program' = [p \in Panes |-> IF p \in gone THEN HungUp(p) ELSE program[p]]
          /\ killedIn' = [p \in Panes |-> IF p \in gone /\ Alive(p) THEN s ELSE killedIn[p]]
      BY <1>5 DEF KillSession
    <3> HIDE DEF gone
    <3>3. RemovePanes(s, gone)
      BY <3>1 DEF gone
    <3> QED BY <3>2, <3>3, <1>3
  <2>2. ListingOK
    BY <1>5, RemoveSessionTyped DEF KillSession, ListingOK
  <2> QED BY <1>5, <2>1, <2>2, <1>0 DEF KillSession, PanesTypeOK
<1>6. CASE \E p \in Panes : KillPane(p)
  BY <1>6, <1>4 DEF KillPane, Holding, PanesTypeOK
<1>7. CASE \E s \in Sessions, w \in Windows : KillWindow(s, w)
  BY <1>7, <1>4 DEF KillWindow
<1> QED BY <1>1, <1>2, <1>5, <1>6, <1>7 DEF Ending

\* Windows and panes move between what there is.
LEMMA MovingTyped == PanesTypeOK /\ Moving => PanesTypeOK'
<1> SUFFICES ASSUME PanesTypeOK, Moving PROVE PanesTypeOK'
  OBVIOUS
<1>1. ASSUME NEW s \in Sessions, NEW w \in Windows, Unlink(s, w) PROVE PanesTypeOK'
  BY <1>1 DEF Unlink, PanesTypeOK, listing
<1>2. ASSUME NEW s \in Sessions, NEW dst \in Sessions, NEW w \in Windows, LinkFromPen(s, w, dst)
      PROVE  PanesTypeOK'
  BY <1>2 DEF LinkFromPen, PanesTypeOK, listing
<1>3. ASSUME NEW s \in Sessions, NEW dst \in Sessions, NEW w \in Windows, MoveWindow(s, w, dst)
      PROVE  PanesTypeOK'
  <2>1. order' \in [Sessions -> SUBSET Windows] /\ stranded' \subseteq Sessions
    BY <1>3 DEF MoveWindow, PanesTypeOK
  <2> QED BY <1>3, <2>1 DEF MoveWindow, PanesTypeOK, listing
<1>4. ASSUME NEW s \in Sessions, NEW p \in Panes, NEW w \in Windows, MovePane(s, p, w)
      PROVE  PanesTypeOK'
  <2>1. /\ order' \in [Sessions -> SUBSET Windows] /\ stranded' \subseteq Sessions
        /\ panes' \in [Windows -> SUBSET Panes]
    BY <1>4 DEF MovePane, PanesTypeOK
  <2> QED BY <1>4, <2>1 DEF MovePane, PanesTypeOK, listing
<1>5. ASSUME NEW s \in Sessions, NEW p \in Panes, BreakPane(s, p) PROVE PanesTypeOK'
  <2>1. NewOne \in Windows
    BY <1>5 DEF BreakPane, NewOne, Fresh
  <2>2. order' \in [Sessions -> SUBSET Windows] /\ panes' \in [Windows -> SUBSET Panes]
    BY <1>5, <2>1 DEF BreakPane, PanesTypeOK
  <2> QED BY <1>5, <2>2 DEF BreakPane, PanesTypeOK, listing
<1>6. ASSUME NEW s \in Sessions, NEW dst \in Sessions, NEW w \in Windows, NEW v \in Windows,
             NEW last \in Panes, MoveOnto(s, w, dst, v, last)
      PROVE  PanesTypeOK'
  <2>1. /\ order' \in [Sessions -> SUBSET Windows] /\ stranded' \subseteq Sessions
        /\ panes' \in [Windows -> SUBSET Panes] /\ killedIn' \in [Panes -> Sessions \cup {None}]
    BY <1>6 DEF MoveOnto, PanesTypeOK
  <2>2. /\ program' \in [Panes -> {"none", "starting", "running", "hungup", "ended"}]
        /\ \A q \in Viewers : program'[q] # "hungup"
    BY <1>6, HungUpTyped, PaneLifeAssumption DEF MoveOnto, PanesTypeOK
  <2>3. ListingOK
    BY <1>6, RemoveSessionTyped, UnchangedListingTyped DEF MoveOnto, ListingOK
  <2> QED BY <1>6, <2>1, <2>2, <2>3 DEF MoveOnto, PanesTypeOK, ListingOK
<1> QED BY <1>1, <1>2, <1>3, <1>4, <1>5, <1>6 DEF Moving

LEMMA TypeStep == PanesTypeOK /\ [Next]_vars => PanesTypeOK'
<1> SUFFICES ASSUME PanesTypeOK, [Next]_vars PROVE PanesTypeOK'
  OBVIOUS
<1>1. ASSUME NEW c \in Clients, NEW s \in Sessions \cup {None}, Watch(c, s) PROVE PanesTypeOK'
  <2>1. making' \subseteq Requests
    BY <1>1 DEF Watch, PanesTypeOK, Requests
  <2> QED BY <1>1, <2>1 DEF Watch, PanesTypeOK, places
<1>2. CASE KillServer
  BY <1>2 DEF KillServer, PanesTypeOK, places
<1>3. CASE HangUpAll \/ Stop
  <2>1. /\ program' \in [Panes -> {"none", "starting", "running", "hungup", "ended"}]
        /\ \A p \in Viewers : program'[p] # "hungup"
    BY <1>3, HungUpTyped, PaneLifeAssumption DEF HangUpAll, Stop, PanesTypeOK
  <2> QED BY <1>3, <2>1 DEF HangUpAll, Stop, PanesTypeOK, places, listing
<1>4. CASE UNCHANGED vars
  BY <1>4 DEF vars, PanesTypeOK, places, listing
<1> QED BY <1>1, <1>2, <1>3, <1>4, MakingTyped, FinishTyped, EndingTyped, MovingTyped DEF Next

\* The shape of what `Pymux` keeps of sessions, windows and panes, through
\* every command and callback.
THEOREM PanesAreTyped == Spec => []PanesTypeOK
  BY TypeInit, TypeStep, PTL DEF Spec
-----------------------------------------------------------------------------
(* Where panes and programs are. *)

\* A pane that a command makes has a program that starts, and is in no window
\* before it runs; a window that a command keeps for it is used by nobody; the
\* program it replaces was hung up.
Begun ==
    /\ \A m \in making : program[m.pane] = "starting"
    /\ \A m, n \in making : m.pane = n.pane => m = n
    /\ \A w \in Windows : \A p \in panes[w] : program[p] \notin {"none", "starting"}
    /\ \A m \in making : m.to = "respawn" => program[m.at] \in {"hungup", "ended"}

Kept ==
    \A m \in making : m.to = "window" =>
        /\ panes[m.at] = {}
        /\ \A s \in Sessions : m.at \notin order[s] \cup pen[s]
        /\ \A n \in making : n.to # "respawn" /\ n.at = m.at => n = m

HeldInv == PanesTypeOK /\ Begun /\ Kept

\* The program of a pane goes on, or down from running.
Down(p) == \/ program'[p] = program[p]
           \/ program[p] = "running" /\ program'[p] \in {"hungup", "ended"}
           \/ program[p] = "hungup" /\ program'[p] = "ended"

\* What only takes panes out, and windows out of order and pen, keeps all of it.
LEMMA LessKeeps ==
    ASSUME HeldInv, PanesTypeOK', making' = making,
           \A p \in Panes : Down(p),
           \A w \in Windows : panes'[w] \subseteq panes[w],
           \A s \in Sessions : order'[s] \subseteq order[s] /\ pen'[s] \subseteq pen[s]
    PROVE  HeldInv'
<1>0. \A m \in making : m.pane \in Panes /\ (m.to = "respawn" => m.at \in Panes)
                          /\ (m.to # "respawn" => m.at \in Windows)
  BY DEF HeldInv, PanesTypeOK, Requests
<1>1. Begun'
  <2>1. \A m \in making' : program'[m.pane] = "starting"
    BY <1>0 DEF HeldInv, Begun, Down
  <2>2. \A w \in Windows : \A p \in panes'[w] : program'[p] \notin {"none", "starting"}
    BY DEF HeldInv, Begun, Down, PanesTypeOK
  <2>3. \A m \in making' : m.to = "respawn" => program'[m.at] \in {"hungup", "ended"}
    BY <1>0 DEF HeldInv, Begun, Down
  <2> QED BY <2>1, <2>2, <2>3 DEF HeldInv, Begun
<1>2. Kept'
  <2> SUFFICES ASSUME NEW m \in making, m.to = "window"
               PROVE  /\ panes'[m.at] = {}
                      /\ \A s \in Sessions : m.at \notin order'[s] \cup pen'[s]
                      /\ \A n \in making : n.to # "respawn" /\ n.at = m.at => n = m
    BY DEF Kept
  <2> QED BY <1>0 DEF HeldInv, Kept
<1> QED BY <1>1, <1>2 DEF HeldInv

LEMMA HeldInit == Init => HeldInv
<1> SUFFICES ASSUME Init PROVE HeldInv
  OBVIOUS
<1> DEFINE first == CHOOSE s \in Sessions : TRUE
           one == CHOOSE p \in Panes : p \notin Viewers
           place == CHOOSE w \in Windows : TRUE
<1>1. /\ program = [q \in Panes |-> IF q = one THEN "starting" ELSE "none"]
      /\ making = {[pane |-> one, to |-> "window", session |-> first, at |-> place, who |-> None]}
  BY DEF Init
<1>2. one \in Panes /\ place \in Windows
  BY PaneLifeAssumption
<1> HIDE DEF first, one, place
<1>3. /\ order = [s \in Sessions |-> {}] /\ pen = [s \in Sessions |-> {}]
      /\ panes = [w \in Windows |-> {}]
  BY DEF Init
<1>4. Begun /\ Kept
  BY <1>1, <1>2, <1>3 DEF Begun, Kept
<1> QED BY <1>4, TypeInit DEF HeldInv

\* A program starts: its pane is new, and so is the window it is to have.
LEMMA MakingHolds == HeldInv /\ Making => HeldInv'
<1> SUFFICES ASSUME HeldInv, Making PROVE HeldInv'
  OBVIOUS
<1>0. PanesTypeOK'
  BY MakingTyped DEF HeldInv
<1>a. ASSUME Fresh # {}
      PROVE  /\ NewOne \in Windows /\ panes[NewOne] = {}
             /\ \A s \in Sessions : NewOne \notin order[s] \cup pen[s]
             /\ \A m \in making : m.at # NewOne
  BY <1>a DEF NewOne, Fresh
<1>1. ASSUME NEW m, making' = making \cup {m}, NEW p \in Panes, m.pane = p, program[p] = "none",
             program'[p] = "starting",
             \A q \in Panes \ {p} : Down(q),
             UNCHANGED places,
             m.to = "window" =>
                /\ panes[m.at] = {} /\ \A n \in making : n.at # m.at
                /\ \A s \in Sessions : m.at \notin order[s] \cup pen[s],
             m.to = "split" => \E s \in Sessions : m.at \in order[s],
             m.to = "respawn" => m.at \in Panes \ {p} /\ program'[m.at] \in {"hungup", "ended"},
             m.to \in {"window", "split", "respawn"}
      PROVE  HeldInv'
  <2>0. \A n \in making : n.pane \in Panes /\ (n.to = "respawn" => n.at \in Panes)
                            /\ program[n.pane] = "starting"
    BY DEF HeldInv, PanesTypeOK, Requests, Begun
  <2>1. \A n \in making' : program'[n.pane] = "starting"
    BY <1>1, <2>0 DEF Down
  <2>2. \A n, o \in making' : n.pane = o.pane => n = o
    BY <1>1, <2>0 DEF HeldInv, Begun
  <2>3. \A w \in Windows : \A q \in panes'[w] : program'[q] \notin {"none", "starting"}
    BY <1>1 DEF HeldInv, Begun, Down, PanesTypeOK, places
  <2>4. \A n \in making' : n.to = "respawn" => program'[n.at] \in {"hungup", "ended"}
    BY <1>1, <2>0 DEF HeldInv, Begun, Down
  <2>5. Kept'
    <3> SUFFICES ASSUME NEW n \in making', n.to = "window"
                 PROVE  /\ panes[n.at] = {}
                        /\ \A s \in Sessions : n.at \notin order[s] \cup pen[s]
                        /\ \A o \in making' : o.to # "respawn" /\ o.at = n.at => o = n
      BY <1>1 DEF Kept, places
    <3>1. CASE n = m
      BY <3>1, <1>1
    <3>2. CASE n \in making
      BY <3>2, <1>1 DEF HeldInv, Kept
    <3> QED BY <3>1, <3>2, <1>1
  <2> QED BY <1>0, <2>1, <2>2, <2>3, <2>4, <2>5 DEF HeldInv, Begun
<1>2. ASSUME NEW s \in Sessions, NEW p \in Panes, NEW c \in Clients \cup {None}, NewSession(s, p, c)
      PROVE HeldInv'
  <2> DEFINE m == [pane |-> p, to |-> "window", session |-> s, at |-> NewOne, who |-> c]
  <2>1. /\ making' = making \cup {m} /\ UNCHANGED places
        /\ program[p] = "none" /\ program' = [program EXCEPT ![p] = "starting"] /\ Fresh # {}
    BY <1>2 DEF NewSession
  <2>2. m.pane = p /\ m.to = "window" /\ m.at = NewOne
    OBVIOUS
  <2>3. program'[p] = "starting" /\ \A q \in Panes \ {p} : Down(q)
    BY <2>1 DEF HeldInv, PanesTypeOK, Down
  <2> HIDE DEF m
  <2> QED BY <2>1, <2>2, <2>3, <1>a, <1>1
<1>3. ASSUME NEW p \in Panes, NEW to, NEW s, NEW at, NEW c, Begin(p, to, s, at, c),
             program' = [program EXCEPT ![p] = "starting"],
             \/ to = "window" /\ Fresh # {} /\ at = NewOne
             \/ to = "split" /\ \E t \in Sessions : at \in order[t]
      PROVE  HeldInv'
  <2> DEFINE m == [pane |-> p, to |-> to, session |-> s, at |-> at, who |-> c]
  <2>1. /\ making' = making \cup {m} /\ UNCHANGED places /\ program[p] = "none"
    BY <1>3 DEF Begin
  <2>2. m.pane = p /\ m.to = to /\ m.at = at
    OBVIOUS
  <2>3. program'[p] = "starting" /\ \A q \in Panes \ {p} : Down(q)
    BY <1>3 DEF HeldInv, PanesTypeOK, Down
  <2> HIDE DEF m
  <2> QED BY <1>3, <2>1, <2>2, <2>3, <1>a, <1>1
<1>4. ASSUME NEW c \in Clients \cup {None}, NEW old \in Panes, NEW p \in Panes, Respawn(c, old, p) PROVE HeldInv'
  <2> DEFINE m == [pane |-> p, to |-> "respawn", session |-> None, at |-> old, who |-> c]
  <2>1. /\ making' = making \cup {m} /\ UNCHANGED places /\ program[p] = "none"
    BY <1>4 DEF Respawn, Begin
  <2>2. m.pane = p /\ m.to = "respawn" /\ m.at = old
    OBVIOUS
  <2>3. program[old] \in {"running", "hungup", "ended"}
    BY <1>4 DEF Respawn, Holding, Held, HeldInv, Begun, PanesTypeOK
  <2>4. /\ program' = [program EXCEPT ![old] = HungUp(old), ![p] = "starting"] /\ old # p
    BY <1>4, <2>1, <2>3 DEF Respawn
  <2>5. HungUp(old) \in {"hungup", "ended"} /\ (program[old] = "ended" => HungUp(old) = "ended")
        /\ (program[old] = "hungup" => HungUp(old) \in {"hungup", "ended"})
    BY <2>3 DEF HungUp, Alive
  <2>6. program'[p] = "starting" /\ program'[old] = HungUp(old) /\ \A q \in Panes \ {p, old} : program'[q] = program[q]
    BY <2>4 DEF HeldInv, PanesTypeOK
  <2>7. \A q \in Panes \ {p} : Down(q)
    BY <2>3, <2>5, <2>6 DEF Down
  <2> HIDE DEF m
  <2> QED BY <2>1, <2>2, <2>4, <2>5, <2>6, <2>7, <1>1
<1>5. CASE \E s \in Sessions, p \in Panes : NewWindow(s, p)
  BY <1>5, <1>3 DEF NewWindow
<1>6. CASE \E s \in Sessions, w \in Windows, p \in Panes : SplitWindow(s, w, p)
  BY <1>6, <1>3 DEF SplitWindow
<1> QED BY <1>2, <1>4, <1>5, <1>6 DEF Making
\* A start is over: the pane goes to the place it was begun for, or to none.
LEMMA FinishHolds == ASSUME NEW m \in making, HeldInv, Finish(m) PROVE HeldInv'
<1>0. PanesTypeOK'
  BY FinishTyped DEF HeldInv
<1>1. /\ m.pane \in Panes /\ program[m.pane] = "starting"
      /\ m.to # "respawn" => m.at \in Windows
      /\ m.to = "respawn" => m.at \in Panes /\ program[m.at] \in {"hungup", "ended"}
  BY DEF HeldInv, Begun, PanesTypeOK, Requests
<1>2. /\ making' = making \ {m} /\ program' = [program EXCEPT ![m.pane] = "running"] /\ pen' = pen
  BY DEF Finish
<1>3. program'[m.pane] = "running" /\ \A p \in Panes \ {m.pane} : program'[p] = program[p]
  BY <1>1, <1>2 DEF HeldInv, PanesTypeOK
<1>4. ASSUME NEW n \in making \ {m}
      PROVE  /\ n.pane \in Panes \ {m.pane} /\ program[n.pane] = "starting"
             /\ n.to = "respawn" => n.at \in Panes \ {m.pane} /\ program[n.at] \in {"hungup", "ended"}
  BY <1>1 DEF HeldInv, Begun, PanesTypeOK, Requests
<1>5. ASSUME \A w \in Windows : panes'[w] \subseteq panes[w] \cup {m.pane}
      PROVE  Begun'
  <2>1. \A n \in making' : program'[n.pane] = "starting"
    BY <1>2, <1>3, <1>4
  <2>2. \A w \in Windows : \A p \in panes'[w] : program'[p] \notin {"none", "starting"}
    BY <1>3, <1>5, <1>0 DEF HeldInv, Begun, PanesTypeOK
  <2>3. \A n \in making' : n.to = "respawn" => program'[n.at] \in {"hungup", "ended"}
    BY <1>2, <1>3, <1>4
  <2> QED BY <1>2, <2>1, <2>2, <2>3 DEF HeldInv, Begun
<1>6. ASSUME NEW n \in making \ {m}, n.to = "window"
      PROVE  /\ n.at \in Windows /\ panes[n.at] = {}
             /\ \A s \in Sessions : n.at \notin order[s] \cup pen[s]
             /\ m.to # "respawn" => n.at # m.at
             /\ \A o \in making : o.to # "respawn" /\ o.at = n.at => o = n
  <2>1. n \in making /\ n \in Requests
    BY DEF HeldInv, PanesTypeOK
  <2>2. n.at \in Windows
    BY <2>1, <1>6 DEF Requests
  <2> QED BY <2>1, <2>2, <1>6 DEF HeldInv, Kept
<1>7. CASE PutInNewWindow(m)
  <2>1. /\ m.to = "window" /\ panes' = [panes EXCEPT ![m.at] = {m.pane}]
        /\ order' = [order EXCEPT ![m.session] = @ \cup {m.at}]
    BY <1>7 DEF PutInNewWindow
  <2>2. panes[m.at] = {} /\ m.at \in Windows
    BY <1>1, <2>1 DEF HeldInv, Kept
  <2>3. panes'[m.at] = {m.pane} /\ \A w \in Windows \ {m.at} : panes'[w] = panes[w]
    BY <2>1, <2>2 DEF HeldInv, PanesTypeOK
  <2>4. Begun'
    BY <1>5, <2>2, <2>3
  <2>5. Kept'
    <3>1. \A s \in Sessions : order'[s] \subseteq order[s] \cup {m.at}
      BY <2>1 DEF HeldInv, PanesTypeOK
    <3> QED BY <1>2, <1>6, <2>1, <2>3, <3>1 DEF Kept
  <2> QED BY <1>0, <2>4, <2>5 DEF HeldInv
<1>8. CASE PutInSplit(m)
  <2>1. m.to = "split" /\ panes' = [panes EXCEPT ![m.at] = @ \cup {m.pane}] /\ order' = order
    BY <1>8 DEF PutInSplit
  <2>2. panes'[m.at] = panes[m.at] \cup {m.pane} /\ \A w \in Windows \ {m.at} : panes'[w] = panes[w]
    BY <1>1, <2>1 DEF HeldInv, PanesTypeOK
  <2>3. Begun'
    BY <1>5, <2>2, <1>1, <2>1
  <2>4. Kept'
    BY <1>2, <1>6, <2>1, <2>2 DEF Kept
  <2> QED BY <1>0, <2>3, <2>4 DEF HeldInv
<1>9. CASE PutInPlaceOf(m)
  <2>1. PICK s : panes' = [w \in Windows |-> IF w \in order[s] /\ m.at \in panes[w]
                                            THEN (panes[w] \ {m.at}) \cup {m.pane} ELSE panes[w]]
    BY <1>9 DEF PutInPlaceOf
  <2>2. m.to = "respawn" /\ order' = order
    BY <1>9 DEF PutInPlaceOf
  <2>3. Begun'
    BY <1>5, <2>1
  <2>4. \A n \in making \ {m} : n.to = "window" => panes'[n.at] = {}
    BY <1>6, <2>1
  <2>5. Kept'
    BY <1>2, <1>6, <2>2, <2>4 DEF Kept
  <2> QED BY <1>0, <2>3, <2>5 DEF HeldInv
<1> QED BY <1>7, <1>8, <1>9 DEF Finish

\* Panes are taken out where their programs end or are hung up.
LEMMA EndingHolds == HeldInv /\ Ending => HeldInv'
<1> SUFFICES ASSUME HeldInv, Ending PROVE HeldInv'
  OBVIOUS
<1>0. PanesTypeOK'
  BY EndingTyped DEF HeldInv
<1>b. ASSUME NEW p \in Panes, program'[p] \in {program[p], HungUp(p)}
      PROVE  Down(p)
  BY <1>b DEF Down, HungUp, Alive, HeldInv, PanesTypeOK
<1>1. ASSUME NEW s \in Sessions, NEW gone, RemovePanes(s, gone),
             \A p \in Panes : Down(p), making' = making
      PROVE  HeldInv'
  <2>1. /\ panes' = [w \in Windows |-> IF w \in order[s] THEN panes[w] \ gone ELSE panes[w]]
        /\ order' = [order EXCEPT ![s] = {w \in @ : panes'[w] # {}}] /\ pen' = pen
    BY <1>1 DEF RemovePanes
  <2>2. \A t \in Sessions : order'[t] \subseteq order[t]
    BY <2>1 DEF HeldInv, PanesTypeOK
  <2> QED BY <1>0, <1>1, <2>1, <2>2, LessKeeps
<1>2. ASSUME UNCHANGED places, \A p \in Panes : Down(p), making' = making
      PROVE  HeldInv'
  BY <1>0, <1>2, LessKeeps DEF places
<1>3. ASSUME NEW p \in Panes, ProgramEnds(p) PROVE HeldInv'
  <2>1. /\ program' = [program EXCEPT ![p] = "ended"] /\ program[p] \in {"running", "hungup"}
        /\ making' = making
    BY <1>3 DEF ProgramEnds, Alive
  <2>2. program'[p] = "ended" /\ \A q \in Panes : Down(q)
    BY <2>1 DEF HeldInv, PanesTypeOK, Down
  <2>3. CASE UNCHANGED places
    BY <2>1, <2>2, <2>3, <1>2
  <2>4. CASE \E s \in Holding(p) \cup ({killedIn[p]} \ {None}) : RemovePanes(s, {p})
    <3>1. Holding(p) \cup ({killedIn[p]} \ {None}) \subseteq Sessions
      BY DEF Holding, HeldInv, PanesTypeOK
    <3> QED BY <2>1, <2>2, <2>4, <3>1, <1>1
  <2> QED BY <1>3, <2>3, <2>4 DEF ProgramEnds, TakeEndedPane
<1>4. ASSUME NEW p \in Panes, JobEnds(p) \/ KillPaneElsewhere(p) PROVE HeldInv'
  <2>1. UNCHANGED <<places, making>>
    BY <1>4 DEF JobEnds, KillPaneElsewhere
  <2>2. \A q \in Panes : Down(q)
    BY <1>4, <1>b DEF JobEnds, KillPaneElsewhere, HeldInv, PanesTypeOK, Down
  <2> QED BY <2>1, <2>2, <1>2
<1>5. ASSUME NEW s \in Sessions, NEW gone, RemovePanes(s, gone),
             program' = [p \in Panes |-> IF p \in gone THEN HungUp(p) ELSE program[p]],
             making' = making
      PROVE  HeldInv'
  <2>1. \A p \in Panes : Down(p)
    BY <1>5, <1>b
  <2> QED BY <1>5, <2>1, <1>1
<1>6. ASSUME NEW s \in Sessions, NEW gone, NEW last, Kill(s, gone, last) PROVE HeldInv'
  BY <1>6, <1>5 DEF Kill, KillPanes
<1>7. ASSUME NEW s \in Sessions, KillSession(s) PROVE HeldInv'
  <2> DEFINE gone == Held(s)
  <2>1. /\ program' = [p \in Panes |-> IF p \in gone THEN HungUp(p) ELSE program[p]]
        /\ RemovePanes(s, gone) /\ making' = making
    BY <1>7 DEF KillSession
  <2> HIDE DEF gone
  <2> QED BY <2>1, <1>5
<1>8. CASE \E p \in Panes : KillPane(p)
  BY <1>8, <1>6 DEF KillPane, Holding, HeldInv, PanesTypeOK
<1>9. CASE \E s \in Sessions, w \in Windows : KillWindow(s, w)
  BY <1>9, <1>6 DEF KillWindow
<1> QED BY <1>3, <1>4, <1>7, <1>8, <1>9 DEF Ending

\* A move leaves the windows that are kept alone.
LEMMA ShiftKeeps ==
    ASSUME HeldInv, PanesTypeOK', making' = making, \A p \in Panes : Down(p),
           \A w \in Windows : \A p \in panes'[w] : program[p] \notin {"none", "starting"},
           \A m \in making : m.to = "window" =>
               panes'[m.at] = {} /\ \A s \in Sessions : m.at \notin order'[s] \cup pen'[s]
    PROVE  HeldInv'
<1>0. \A m \in making : m.pane \in Panes /\ (m.to = "respawn" => m.at \in Panes)
  BY DEF HeldInv, PanesTypeOK, Requests
<1>1. \A m \in making' : program'[m.pane] = "starting"
  BY <1>0 DEF HeldInv, Begun, Down
<1>2. \A m \in making' : m.to = "respawn" => program'[m.at] \in {"hungup", "ended"}
  BY <1>0 DEF HeldInv, Begun, Down
<1>3. \A w \in Windows : \A p \in panes'[w] : program'[p] \notin {"none", "starting"}
  BY DEF Down, PanesTypeOK
<1>4. Kept'
  BY DEF HeldInv, Kept
<1> QED BY <1>1, <1>2, <1>3, <1>4 DEF HeldInv, Begun

LEMMA MovingHolds == HeldInv /\ Moving => HeldInv'
<1> SUFFICES ASSUME HeldInv, Moving PROVE HeldInv'
  OBVIOUS
<1>0. PanesTypeOK' /\ PanesTypeOK
  BY MovingTyped DEF HeldInv
<1>1. making' = making /\ \A p \in Panes : Down(p)
  <2>1. making' = making /\ \A p \in Panes : program'[p] \in {program[p], HungUp(p)}
    BY DEF Moving, Unlink, LinkFromPen, MoveWindow, MoveOnto, MovePane, BreakPane, HeldInv, PanesTypeOK
  <2> QED BY <2>1 DEF Down, HungUp, Alive, HeldInv, PanesTypeOK
<1>2. /\ \A w \in Windows : \A p \in panes[w] : program[p] \notin {"none", "starting"}
      /\ \A m \in making : m.to = "window" =>
            panes[m.at] = {} /\ \A s \in Sessions : m.at \notin order[s] \cup pen[s]
  BY DEF HeldInv, Begun, Kept
<1>3. ASSUME UNCHANGED panes,
             \A s \in Sessions : \A w \in order'[s] \cup pen'[s] :
                \E t \in Sessions : w \in order[t] \cup pen[t]
      PROVE  HeldInv'
  BY <1>0, <1>1, <1>2, <1>3, ShiftKeeps
<1>4. ASSUME NEW s \in Sessions, NEW w \in Windows, Unlink(s, w) PROVE HeldInv'
  BY <1>0, <1>3, <1>4 DEF Unlink, PanesTypeOK
<1>5. ASSUME NEW s \in Sessions, NEW dst \in Sessions, NEW w \in Windows, LinkFromPen(s, w, dst)
      PROVE  HeldInv'
  BY <1>0, <1>3, <1>5 DEF LinkFromPen, PanesTypeOK
<1>6. ASSUME NEW s \in Sessions, NEW dst \in Sessions, NEW w \in Windows, MoveWindow(s, w, dst)
      PROVE  HeldInv'
  <2>1. \A t \in Sessions : order'[t] \subseteq order[t] \cup {w}
    BY <1>0, <1>6 DEF MoveWindow, PanesTypeOK
  <2> QED BY <1>3, <1>6, <2>1 DEF MoveWindow
<1>7. ASSUME NEW s \in Sessions, NEW p \in Panes, NEW w \in Windows, MovePane(s, p, w)
      PROVE  HeldInv'
  <2>1. /\ \A v \in Windows : panes'[v] \subseteq panes[v] \cup {p}
        /\ \A v \in Windows \ {w} : panes'[v] \subseteq panes[v]
    BY <1>0, <1>7 DEF MovePane, PanesTypeOK
  <2>2. \A t \in Sessions : order'[t] \subseteq order[t] /\ pen'[t] = pen[t]
    BY <1>0, <1>7 DEF MovePane, PanesTypeOK
  <2>3. program[p] \notin {"none", "starting"}
    BY <1>0, <1>2, <1>7 DEF MovePane, Held, PanesTypeOK
  <2>4. \A m \in making : m.to = "window" => m.at # w
    BY <1>0, <1>2, <1>7 DEF MovePane, PanesTypeOK
  <2>5. \A m \in making : m.to = "window" => m.at \in Windows
    BY <1>0 DEF PanesTypeOK, Requests
  <2>6. \A m \in making : m.to = "window" =>
               panes'[m.at] = {} /\ \A t \in Sessions : m.at \notin order'[t] \cup pen'[t]
    BY <1>2, <2>1, <2>2, <2>4, <2>5
  <2>7. \A v \in Windows : \A q \in panes'[v] : program[q] \notin {"none", "starting"}
    BY <1>2, <2>1, <2>3
  <2> QED BY <1>0, <1>1, <2>6, <2>7, ShiftKeeps
<1>8. ASSUME NEW s \in Sessions, NEW p \in Panes, BreakPane(s, p) PROVE HeldInv'
  <2>1. PICK from \in order[s] : /\ p \in panes[from]
                                 /\ panes' = [panes EXCEPT ![from] = @ \ {p}, ![NewOne] = {p}]
    BY <1>8 DEF BreakPane
  <2>2. /\ NewOne \in Windows /\ panes[NewOne] = {} /\ \A m \in making : m.at # NewOne
        /\ order' = [order EXCEPT ![s] = @ \cup {NewOne}] /\ pen' = pen
    BY <1>8 DEF BreakPane, NewOne, Fresh
  <2>3. from \in Windows /\ from # NewOne
    BY <1>0, <2>1, <2>2 DEF PanesTypeOK
  <2>4. /\ panes'[NewOne] = {p} /\ panes'[from] = panes[from] \ {p}
        /\ \A v \in Windows \ {from, NewOne} : panes'[v] = panes[v]
    BY <1>0, <2>1, <2>2, <2>3 DEF PanesTypeOK
  <2>5. \A t \in Sessions : order'[t] \subseteq order[t] \cup {NewOne}
    BY <1>0, <2>2 DEF PanesTypeOK
  <2>6. \A m \in making : m.to = "window" => m.at \in Windows
    BY <1>0 DEF PanesTypeOK, Requests
  <2>7. \A m \in making : m.to = "window" =>
               panes'[m.at] = {} /\ \A t \in Sessions : m.at \notin order'[t] \cup pen'[t]
    BY <1>2, <2>2, <2>4, <2>5, <2>6
  <2>8. \A v \in Windows : \A q \in panes'[v] : program[q] \notin {"none", "starting"}
    BY <1>2, <2>1, <2>3, <2>4
  <2> QED BY <1>0, <1>1, <2>7, <2>8, ShiftKeeps
<1>9. ASSUME NEW s \in Sessions, NEW dst \in Sessions, NEW w \in Windows, NEW v \in Windows,
             NEW last \in Panes, MoveOnto(s, w, dst, v, last)
      PROVE  HeldInv'
  <2>1. /\ w \in order[s] /\ pen' = pen /\ \A u \in Windows : panes'[u] \subseteq panes[u]
        /\ order' = [order EXCEPT ![s] = @ \ {w}, ![dst] = (@ \ {v}) \cup {w}]
    BY <1>0, <1>9 DEF MoveOnto, PanesTypeOK
  <2>2. \A t \in Sessions : order'[t] \subseteq order[t] \cup {w}
    BY <1>0, <2>1 DEF PanesTypeOK
  <2>3. \A m \in making : m.to = "window" => m.at \in Windows /\ m.at # w
    BY <1>0, <1>2, <2>1 DEF PanesTypeOK, Requests
  <2>4. \A m \in making : m.to = "window" =>
               panes'[m.at] = {} /\ \A t \in Sessions : m.at \notin order'[t] \cup pen'[t]
    BY <1>2, <2>1, <2>2, <2>3
  <2> QED BY <1>0, <1>1, <1>2, <2>1, <2>4, ShiftKeeps
<1> QED BY <1>4, <1>5, <1>6, <1>7, <1>8, <1>9 DEF Moving

LEMMA HeldStep == HeldInv /\ [Next]_vars => HeldInv'
<1> SUFFICES ASSUME HeldInv, [Next]_vars PROVE HeldInv'
  OBVIOUS
<1>0. PanesTypeOK /\ PanesTypeOK'
  BY TypeStep DEF HeldInv
<1>1. ASSUME \A p \in Panes : Down(p), UNCHANGED <<places, making>> PROVE HeldInv'
  BY <1>0, <1>1, LessKeeps DEF places
<1>2. ASSUME NEW c \in Clients, NEW s \in Sessions \cup {None}, Watch(c, s) PROVE HeldInv'
  <2>1. /\ UNCHANGED places /\ program' = program
        /\ making' = {[m EXCEPT !.who = IF s = None /\ @ = c THEN None ELSE @] : m \in making}
    BY <1>2 DEF Watch
  <2>2. \A n \in making' : \E m \in making :
          /\ n.pane = m.pane /\ n.to = m.to /\ n.at = m.at
          /\ n = [m EXCEPT !.who = IF s = None /\ @ = c THEN None ELSE @]
    BY <1>0, <2>1 DEF PanesTypeOK, Requests
  <2>3. Begun'
    BY <2>1, <2>2 DEF HeldInv, Begun, places
  <2>4. Kept'
    BY <2>1, <2>2 DEF HeldInv, Kept, places
  <2> QED BY <1>0, <2>3, <2>4 DEF HeldInv
<1>3. CASE KillServer
  BY <1>1, <1>3 DEF KillServer, Down
<1>4. CASE HangUpAll
  <2>1. \A p \in Panes : Down(p)
    BY <1>0, <1>4 DEF HangUpAll, Down, HungUp, Alive, PanesTypeOK
  <2> QED BY <2>1, <1>1, <1>4 DEF HangUpAll
<1>5. CASE Stop
  <2>1. \A p \in Panes : Down(p)
    BY <1>0, <1>5 DEF Stop, Down, Alive, PanesTypeOK
  <2> QED BY <2>1, <1>1, <1>5 DEF Stop
<1>6. CASE UNCHANGED vars
  BY <1>1, <1>6 DEF vars, Down
<1> QED BY <1>2, <1>3, <1>4, <1>5, <1>6, MakingHolds, FinishHolds, EndingHolds, MovingHolds DEF Next

-----------------------------------------------------------------------------
(* One place for every pane, where no command names panes of other sessions. *)

\* A pane is in one window, a window in one session, in its order or its pen.
Single ==
    /\ \A v, w \in Windows : \A p \in panes[v] \cap panes[w] : v = w
    /\ \A s, t \in Sessions : \A w \in (order[s] \cup pen[s]) \cap (order[t] \cup pen[t]) : s = t
    /\ \A s \in Sessions : order[s] \cap pen[s] = {}

\* A set whose members are all equal has one at the most.
LEMMA AtMostOne ==
    ASSUME NEW S, \A x, y \in S : x = y
    PROVE  Cardinality(S) \in Nat /\ Cardinality(S) <= 1 /\ (S = {} => Cardinality(S) = 0)
<1>1. CASE S = {}
  BY <1>1, FS_EmptySet
<1>2. CASE \E x \in S : S = {x}
  BY <1>2, FS_Singleton
<1> QED BY <1>1, <1>2

\* The counts of `OnePlace` say no more.
LEMMA SingleIsOnePlace == PanesTypeOK /\ Single => OnePlace
<1> SUFFICES ASSUME PanesTypeOK, Single PROVE OnePlace
  OBVIOUS
<1>1. ASSUME NEW p \in Panes PROVE Cardinality({w \in Windows : p \in panes[w]}) <= 1
  <2>1. \A v, w \in {w \in Windows : p \in panes[w]} : v = w
    BY DEF Single
  <2> QED BY <2>1, AtMostOne
<1>2. ASSUME NEW w \in Windows
      PROVE  Cardinality({s \in Sessions : w \in order[s]})
               + Cardinality({s \in Sessions : w \in pen[s]}) <= 1
  <2> DEFINE inOrder == {s \in Sessions : w \in order[s]}
             inPen == {s \in Sessions : w \in pen[s]}
  <2>1. (\A s, t \in inOrder : s = t) /\ (\A s, t \in inPen : s = t)
    BY DEF Single
  <2>2. inOrder = {} \/ inPen = {}
    BY DEF Single
  <2> HIDE DEF inOrder, inPen
  <2>3. /\ Cardinality(inOrder) \in Nat /\ Cardinality(inOrder) <= 1
        /\ inOrder = {} => Cardinality(inOrder) = 0
    BY <2>1, AtMostOne
  <2>4. /\ Cardinality(inPen) \in Nat /\ Cardinality(inPen) <= 1
        /\ inPen = {} => Cardinality(inPen) = 0
    BY <2>1, AtMostOne
  <2>5. Cardinality(inOrder) + Cardinality(inPen) <= 1
    BY <2>2, <2>3, <2>4
  <2> QED BY <2>5 DEF inOrder, inPen
<1> QED BY <1>1, <1>2 DEF OnePlace

\* What only takes panes out of windows, and windows out of orders, keeps it.
LEMMA FewerKeeps ==
    ASSUME PanesTypeOK, Single, \A w \in Windows : panes'[w] \subseteq panes[w],
           \A s \in Sessions : order'[s] \subseteq order[s] /\ pen'[s] \subseteq pen[s]
    PROVE  Single'
BY DEF Single

LEMMA RemovePanesKeepsSingle ==
    ASSUME PanesTypeOK, Single, NEW s \in Sessions, NEW gone, RemovePanes(s, gone)
    PROVE  Single'
<1>1. \A w \in Windows : panes'[w] \subseteq panes[w]
  BY DEF RemovePanes
<1>2. \A t \in Sessions : order'[t] \subseteq order[t] /\ pen'[t] = pen[t]
  BY DEF RemovePanes, PanesTypeOK
<1> QED BY <1>1, <1>2, FewerKeeps

LEMMA FinishSingle == ASSUME NEW m \in making, HeldInv, Single, Finish(m) PROVE Single'
<1>1. /\ m.pane \in Panes /\ program[m.pane] = "starting"
      /\ m.to # "respawn" => m.at \in Windows /\ m.session \in Sessions
  BY DEF HeldInv, Begun, PanesTypeOK, Requests
<1>2. \A w \in Windows : m.pane \notin panes[w]
  BY <1>1 DEF HeldInv, Begun
<1>3. CASE PutInNewWindow(m)
  <2>1. m.at \in Windows /\ panes[m.at] = {} /\ \A s \in Sessions : m.at \notin order[s] \cup pen[s]
    BY <1>1, <1>3 DEF PutInNewWindow, HeldInv, Kept
  <2>2. /\ panes'[m.at] = {m.pane} /\ \A w \in Windows \ {m.at} : panes'[w] = panes[w]
    BY <1>3, <2>1 DEF PutInNewWindow, HeldInv, PanesTypeOK
  <2>3. /\ order'[m.session] = order[m.session] \cup {m.at} /\ pen' = pen
        /\ \A s \in Sessions \ {m.session} : order'[s] = order[s]
    BY <1>1, <1>3 DEF PutInNewWindow, Finish, HeldInv, PanesTypeOK
  <2> QED BY <1>2, <2>1, <2>2, <2>3 DEF Single
<1>4. CASE PutInSplit(m)
  <2>1. /\ panes'[m.at] = panes[m.at] \cup {m.pane} /\ order' = order /\ pen' = pen
        /\ \A w \in Windows \ {m.at} : panes'[w] = panes[w]
    BY <1>1, <1>4 DEF PutInSplit, Finish, HeldInv, PanesTypeOK
  <2> QED BY <1>1, <1>2, <2>1 DEF Single
<1>5. CASE PutInPlaceOf(m)
  <2>1. /\ \A w \in Windows : panes'[w] \subseteq panes[w] \cup {m.pane}
        /\ \A w \in Windows : m.pane \in panes'[w] => m.at \in panes[w]
        /\ order' = order /\ pen' = pen
    BY <1>2, <1>5 DEF PutInPlaceOf, Finish
  <2> QED BY <1>2, <2>1 DEF Single
<1> QED BY <1>3, <1>4, <1>5 DEF Finish

LEMMA MovingSingle == ~AcrossSessions /\ HeldInv /\ Single /\ Moving => Single'
<1> SUFFICES ASSUME ~AcrossSessions, HeldInv, Single, Moving PROVE Single'
  OBVIOUS
<1>0. PanesTypeOK
  BY DEF HeldInv
<1>1. ASSUME NEW s \in Sessions, NEW w \in Windows, Unlink(s, w) PROVE Single'
  <2>1. /\ order'[s] = order[s] \ {w} /\ pen'[s] = pen[s] \cup {w} /\ w \in order[s] /\ panes' = panes
        /\ \A t \in Sessions \ {s} : order'[t] = order[t] /\ pen'[t] = pen[t]
    BY <1>0, <1>1 DEF Unlink, PanesTypeOK
  <2> QED BY <2>1 DEF Single
<1>2. ASSUME NEW s \in Sessions, NEW dst \in Sessions, NEW w \in Windows,
             w \in order[s] \cup pen[s], \A v \in Windows : panes'[v] \subseteq panes[v],
             \A t \in Sessions : /\ order'[t] \subseteq (order[t] \ {w}) \cup (IF t = dst THEN {w} ELSE {})
                                 /\ pen'[t] = pen[t] \ {w}
      PROVE  Single'
  BY <1>2 DEF Single
<1>3. ASSUME NEW s \in Sessions, NEW dst \in Sessions, NEW w \in Windows, LinkFromPen(s, w, dst)
      PROVE  Single'
  <2>1. /\ w \in pen[s] /\ panes' = panes
        /\ pen' = [pen EXCEPT ![s] = @ \ {w}] /\ order' = [order EXCEPT ![dst] = @ \cup {w}]
    BY <1>3 DEF LinkFromPen
  <2>2. \A t \in Sessions : w \notin order[t] /\ (t # s => w \notin pen[t])
    BY <2>1 DEF Single
  <2>3. \A t \in Sessions : /\ order'[t] \subseteq (order[t] \ {w}) \cup (IF t = dst THEN {w} ELSE {})
                            /\ pen'[t] = pen[t] \ {w}
    BY <1>0, <2>1, <2>2 DEF PanesTypeOK
  <2> QED BY <1>2, <2>1, <2>3
<1>4. ASSUME NEW s \in Sessions, NEW dst \in Sessions, NEW w \in Windows, MoveWindow(s, w, dst)
      PROVE  Single'
  <2>1. /\ w \in order[s] /\ panes' = panes /\ pen' = pen /\ s # dst
        /\ order' = [order EXCEPT ![s] = @ \ {w}, ![dst] = @ \cup {w}]
    BY <1>4 DEF MoveWindow
  <2>2. \A t \in Sessions : w \notin pen[t] /\ (t # s => w \notin order[t])
    BY <2>1 DEF Single
  <2>3. \A t \in Sessions : /\ order'[t] \subseteq (order[t] \ {w}) \cup (IF t = dst THEN {w} ELSE {})
                            /\ pen'[t] = pen[t] \ {w}
    BY <1>0, <2>1, <2>2 DEF PanesTypeOK
  <2>4. w \in order[s] \cup pen[s] /\ panes' = panes
    BY <2>1
  <2> QED BY <1>2, <2>3, <2>4
<1>5. ASSUME NEW s \in Sessions, NEW p \in Panes, NEW w \in Windows, MovePane(s, p, w)
      PROVE  Single'
  <2>1. PICK from \in order[s] : p \in panes[from]
    BY <1>5 DEF MovePane, Held
  <2>2. from \in Windows
    BY <1>0 DEF PanesTypeOK
  <2>3. \A v \in Windows : p \in panes[v] => v = from
    BY <2>1, <2>2 DEF Single
  <2>4. /\ panes'[w] \subseteq panes[w] \cup {p}
        /\ \A v \in Windows \ {w} : panes'[v] \subseteq panes[v] \ {p}
    BY <1>0, <1>5, <2>1, <2>3 DEF MovePane, PanesTypeOK
  <2>5. \A t \in Sessions : order'[t] \subseteq order[t] /\ pen'[t] = pen[t]
    BY <1>0, <1>5 DEF MovePane, PanesTypeOK
  <2> QED BY <2>4, <2>5 DEF Single
<1>6. ASSUME NEW s \in Sessions, NEW p \in Panes, BreakPane(s, p) PROVE Single'
  <2>1. PICK from \in order[s] : /\ p \in panes[from]
                                 /\ panes' = [panes EXCEPT ![from] = @ \ {p}, ![NewOne] = {p}]
    BY <1>6 DEF BreakPane
  <2>2. /\ NewOne \in Windows /\ panes[NewOne] = {}
        /\ \A t \in Sessions : NewOne \notin order[t] \cup pen[t]
        /\ order' = [order EXCEPT ![s] = @ \cup {NewOne}] /\ pen' = pen
    BY <1>6 DEF BreakPane, NewOne, Fresh
  <2>3. from \in Windows /\ from # NewOne /\ \A v \in Windows : p \in panes[v] => v = from
    BY <1>0, <2>1, <2>2 DEF PanesTypeOK, Single
  <2>4. /\ panes'[NewOne] = {p} /\ panes'[from] = panes[from] \ {p}
        /\ \A v \in Windows \ {from, NewOne} : panes'[v] = panes[v]
    BY <1>0, <2>1, <2>2, <2>3 DEF PanesTypeOK
  <2>5. /\ order'[s] = order[s] \cup {NewOne}
        /\ \A t \in Sessions \ {s} : order'[t] = order[t]
    BY <1>0, <2>2 DEF PanesTypeOK
  <2>6. \A v, w \in Windows : \A q \in panes'[v] \cap panes'[w] : v = w
    BY <2>3, <2>4 DEF Single
  <2> QED BY <2>2, <2>5, <2>6 DEF Single
<1>7. ASSUME NEW s \in Sessions, NEW dst \in Sessions, NEW w \in Windows, NEW v \in Windows,
             NEW last \in Panes, MoveOnto(s, w, dst, v, last)
      PROVE  Single'
  <2>1. /\ w \in order[s] /\ pen' = pen /\ s # dst /\ \A u \in Windows : panes'[u] \subseteq panes[u]
        /\ order' = [order EXCEPT ![s] = @ \ {w}, ![dst] = (@ \ {v}) \cup {w}]
    BY <1>0, <1>7 DEF MoveOnto, PanesTypeOK
  <2>2. \A t \in Sessions : w \notin pen[t] /\ (t # s => w \notin order[t])
    BY <2>1 DEF Single
  <2>3. \A t \in Sessions : /\ order'[t] \subseteq (order[t] \ {w}) \cup (IF t = dst THEN {w} ELSE {})
                            /\ pen'[t] = pen[t] \ {w}
    BY <1>0, <2>1, <2>2 DEF PanesTypeOK
  <2>4. w \in order[s] \cup pen[s] /\ \A u \in Windows : panes'[u] \subseteq panes[u]
    BY <2>1
  <2> QED BY <1>2, <2>3, <2>4
<1> QED BY <1>1, <1>3, <1>4, <1>5, <1>6, <1>7 DEF Moving

LEMMA SingleStep == ~AcrossSessions /\ HeldInv /\ Single /\ [Next]_vars => Single'
<1> SUFFICES ASSUME ~AcrossSessions, HeldInv, Single, [Next]_vars PROVE Single'
  OBVIOUS
<1>0. PanesTypeOK
  BY DEF HeldInv
<1>1. ASSUME UNCHANGED places PROVE Single'
  BY <1>1 DEF places, Single
<1>2. CASE Making
  BY <1>1, <1>2 DEF Making, NewSession, NewWindow, SplitWindow, Respawn, Begin
<1>3. CASE Ending
  <2>1. ASSUME NEW p \in Panes, ProgramEnds(p) PROVE Single'
    <3>1. Holding(p) \cup ({killedIn[p]} \ {None}) \subseteq Sessions
      BY <1>0 DEF Holding, PanesTypeOK
    <3> QED BY <1>0, <1>1, <2>1, <3>1, RemovePanesKeepsSingle DEF ProgramEnds, TakeEndedPane
  <2>2. ASSUME NEW p \in Panes, JobEnds(p) \/ KillPaneElsewhere(p) PROVE Single'
    BY <1>1, <2>2 DEF JobEnds, KillPaneElsewhere
  <2>3. ASSUME NEW s \in Sessions, NEW gone, NEW last, Kill(s, gone, last) PROVE Single'
    BY <1>0, <2>3, RemovePanesKeepsSingle DEF Kill, KillPanes
  <2>4. ASSUME NEW s \in Sessions, KillSession(s) PROVE Single'
    BY <1>0, <2>4, RemovePanesKeepsSingle DEF KillSession
  <2>5. CASE \E p \in Panes : KillPane(p)
    BY <1>0, <2>3, <2>5 DEF KillPane, Holding, PanesTypeOK
  <2>6. CASE \E s \in Sessions, w \in Windows : KillWindow(s, w)
    BY <2>3, <2>6 DEF KillWindow
  <2> QED BY <1>3, <2>1, <2>2, <2>4, <2>5, <2>6 DEF Ending
<1>4. ASSUME NEW c \in Clients, NEW s \in Sessions \cup {None}, Watch(c, s) PROVE Single'
  BY <1>1, <1>4 DEF Watch
<1>5. CASE KillServer \/ HangUpAll \/ Stop
  BY <1>1, <1>5 DEF KillServer, HangUpAll, Stop
<1>6. CASE UNCHANGED vars
  BY <1>1, <1>6 DEF vars
<1> QED BY <1>2, <1>3, <1>4, <1>5, <1>6, FinishSingle, MovingSingle DEF Next

\* "A pane belongs to one session": it has one place, as long as `move-pane`
\* names only panes of the session it is used in.
THEOREM PanesHaveOnePlace == ASSUME ~AcrossSessions PROVE Spec => []OnePlace
<1>1. Init => Single
  BY DEF Init, Single
<1>2. HeldInv /\ Single => OnePlace
  BY SingleIsOnePlace DEF HeldInv
<1>3. HeldInv /\ Single /\ [Next]_vars => (HeldInv /\ Single)'
  BY HeldStep, SingleStep
<1> QED BY HeldInit, <1>1, <1>2, <1>3, PTL DEF Spec
-----------------------------------------------------------------------------
(* What a step takes out of reach. *)

\* Every window of a session has a pane: the last one takes it with it.
Filled == \A s \in Sessions : \A w \in order[s] \cup pen[s] : panes[w] # {}

OneInv == HeldInv /\ Single /\ Filled

\* Only the windows of the session lose panes, and go with the last.
LEMMA RemovePanesFills ==
    ASSUME PanesTypeOK, Single, Filled, NEW s \in Sessions, NEW gone, RemovePanes(s, gone)
    PROVE  Filled'
<1>1. /\ panes' = [w \in Windows |-> IF w \in order[s] THEN panes[w] \ gone ELSE panes[w]]
      /\ order' = [order EXCEPT ![s] = {w \in @ : panes'[w] # {}}] /\ pen' = pen
  BY DEF RemovePanes
<1>2. ASSUME NEW t \in Sessions, NEW w \in order'[t] \cup pen'[t]
      PROVE  panes'[w] # {}
  <2>1. w \in Windows /\ order[t] \subseteq Windows /\ pen[t] \subseteq Windows
    BY <1>1 DEF PanesTypeOK
  <2>2. CASE t = s /\ w \in order'[s]
    BY <1>1, <2>2 DEF PanesTypeOK
  <2>3. CASE ~(t = s /\ w \in order'[s])
    <3>1. w \in order[t] \cup pen[t] /\ (t = s => w \in pen[s])
      BY <1>1, <1>2, <2>3 DEF PanesTypeOK
    <3>2. w \notin order[s]
      BY <2>1, <3>1 DEF Single
    <3> QED BY <1>1, <2>1, <3>1, <3>2 DEF Filled
  <2> QED BY <2>2, <2>3
<1> QED BY <1>2 DEF Filled

LEMMA FinishFills == ASSUME NEW m \in making, OneInv, Finish(m) PROVE Filled'
<1>0. PanesTypeOK /\ Filled
  BY DEF OneInv, HeldInv
<1>1. m.to # "respawn" => m.at \in Windows /\ m.session \in Sessions
  BY <1>0 DEF PanesTypeOK, Requests
<1>2. CASE PutInNewWindow(m)
  <2>1. panes'[m.at] = {m.pane} /\ \A w \in Windows \ {m.at} : panes'[w] = panes[w]
    BY <1>0, <1>1, <1>2 DEF PutInNewWindow, PanesTypeOK
  <2>2. \A t \in Sessions : order'[t] \subseteq order[t] \cup {m.at} /\ pen'[t] = pen[t]
    BY <1>0, <1>1, <1>2 DEF PutInNewWindow, Finish, PanesTypeOK
  <2> QED BY <1>0, <2>1, <2>2 DEF Filled, PanesTypeOK
<1>3. CASE PutInSplit(m)
  <2>1. \A w \in Windows : panes[w] \subseteq panes'[w]
    BY <1>0, <1>1, <1>3 DEF PutInSplit, PanesTypeOK
  <2>2. order' = order /\ pen' = pen
    BY <1>3 DEF PutInSplit, Finish
  <2> QED BY <1>0, <2>1, <2>2 DEF Filled, PanesTypeOK
<1>4. CASE PutInPlaceOf(m)
  <2>1. \A w \in Windows : panes'[w] = panes[w] \/ m.pane \in panes'[w]
    BY <1>4 DEF PutInPlaceOf
  <2>2. order' = order /\ pen' = pen
    BY <1>4 DEF PutInPlaceOf, Finish
  <2> QED BY <1>0, <2>1, <2>2 DEF Filled, PanesTypeOK
<1> QED BY <1>2, <1>3, <1>4 DEF Finish

LEMMA MovingFills == OneInv /\ Moving => Filled'
<1> SUFFICES ASSUME OneInv, Moving PROVE Filled'
  OBVIOUS
<1>0. PanesTypeOK /\ Filled /\ Single
  BY DEF OneInv, HeldInv
<1>1. ASSUME panes' = panes,
             \A t \in Sessions : \A u \in order'[t] \cup pen'[t] :
                \E o \in Sessions : u \in order[o] \cup pen[o]
      PROVE  Filled'
  BY <1>0, <1>1 DEF Filled
<1>2. ASSUME NEW s \in Sessions, NEW w \in Windows, Unlink(s, w) PROVE Filled'
  BY <1>0, <1>1, <1>2 DEF Unlink, PanesTypeOK
<1>3. ASSUME NEW s \in Sessions, NEW dst \in Sessions, NEW w \in Windows, LinkFromPen(s, w, dst)
      PROVE  Filled'
  BY <1>0, <1>1, <1>3 DEF LinkFromPen, PanesTypeOK
<1>4. ASSUME NEW s \in Sessions, NEW dst \in Sessions, NEW w \in Windows, MoveWindow(s, w, dst)
      PROVE  Filled'
  <2>1. \A t \in Sessions : order'[t] \subseteq order[t] \cup {w}
    BY <1>0, <1>4 DEF MoveWindow, PanesTypeOK
  <2> QED BY <1>1, <1>4, <2>1 DEF MoveWindow
<1>5. ASSUME NEW s \in Sessions, NEW dst \in Sessions, NEW w \in Windows, NEW v \in Windows,
             NEW last \in Panes, MoveOnto(s, w, dst, v, last)
      PROVE  Filled'
  <2>1. /\ w \in order[s] /\ v \in order[dst] /\ s # dst /\ pen' = pen
        /\ \A u \in Windows \ {v} : panes'[u] = panes[u]
        /\ order' = [order EXCEPT ![s] = @ \ {w}, ![dst] = (@ \ {v}) \cup {w}]
    BY <1>0, <1>5 DEF MoveOnto, PanesTypeOK
  <2>2. v # w /\ \A t \in Sessions : v \notin pen[t] /\ (t # dst => v \notin order[t])
    BY <1>0, <2>1 DEF Single
  <2>3. \A t \in Sessions : order'[t] \subseteq (order[t] \ {v}) \cup {w}
    BY <1>0, <2>1, <2>2 DEF PanesTypeOK
  <2> QED BY <1>0, <2>1, <2>2, <2>3 DEF Filled, PanesTypeOK
<1>6. ASSUME NEW s \in Sessions, NEW p \in Panes, NEW w \in Windows, MovePane(s, p, w)
      PROVE  Filled'
  <2> DEFINE left == [v \in Windows |-> IF v \in order[s] THEN panes[v] \ {p} ELSE panes[v]]
  <2>1. /\ panes' = [left EXCEPT ![w] = @ \cup {p}] /\ pen' = pen
        /\ order' = [order EXCEPT ![s] = {v \in @ : left[v] # {}}]
    BY <1>6 DEF MovePane
  <2>2. \A v \in Windows : /\ left[v] \subseteq panes'[v]
                           /\ v \notin order[s] => panes[v] \subseteq panes'[v]
    BY <1>0, <2>1 DEF PanesTypeOK
  <2>3. /\ \A v \in order'[s] : left[v] # {}
        /\ \A t \in Sessions \ {s} : order'[t] = order[t]
    BY <1>0, <2>1 DEF PanesTypeOK
  <2> HIDE DEF left
  <2>4. \A t \in Sessions \ {s} : \A v \in order[t] : v \notin order[s]
    BY <1>0 DEF Single, PanesTypeOK
  <2>5. \A t \in Sessions : \A v \in pen[t] : v \notin order[s]
    BY <1>0 DEF Single, PanesTypeOK
  <2>6. \A t \in Sessions : order[t] \subseteq Windows /\ pen[t] \subseteq Windows /\ order'[t] \subseteq order[t]
    BY <1>0, <2>1 DEF PanesTypeOK
  <2> QED BY <1>0, <2>1, <2>2, <2>3, <2>4, <2>5, <2>6 DEF Filled
<1>7. ASSUME NEW s \in Sessions, NEW p \in Panes, BreakPane(s, p) PROVE Filled'
  <2>1. PICK from \in order[s] : /\ p \in panes[from] /\ panes[from] # {p}
                                 /\ panes' = [panes EXCEPT ![from] = @ \ {p}, ![NewOne] = {p}]
    BY <1>7 DEF BreakPane
  <2>2. /\ NewOne \in Windows /\ panes[NewOne] = {} /\ pen' = pen
        /\ order' = [order EXCEPT ![s] = @ \cup {NewOne}]
    BY <1>7 DEF BreakPane, NewOne, Fresh
  <2>3. from \in Windows /\ from # NewOne
    BY <1>0, <2>1, <2>2 DEF PanesTypeOK
  <2>4. /\ panes'[NewOne] = {p} /\ panes'[from] # {}
        /\ \A v \in Windows \ {from, NewOne} : panes'[v] = panes[v]
    BY <1>0, <2>1, <2>2, <2>3 DEF PanesTypeOK
  <2>5. \A t \in Sessions : order'[t] \subseteq order[t] \cup {NewOne}
    BY <1>0, <2>2 DEF PanesTypeOK
  <2> QED BY <1>0, <2>2, <2>4, <2>5 DEF Filled, PanesTypeOK
<1> QED BY <1>2, <1>3, <1>4, <1>5, <1>6, <1>7 DEF Moving

\* A step leaves the places alone, ends and takes out some panes of one
\* session, finishes a start, or moves something.
LEMMA StepShapes ==
    ASSUME PanesTypeOK, [Next]_vars
    PROVE  \/ UNCHANGED places /\ sessions \subseteq sessions'
           \/ \E s \in Sessions, gone \in SUBSET Panes :
                /\ RemovePanes(s, gone) /\ (\A p \in gone : program'[p] # "running")
                /\ sessions \ {s} \subseteq sessions' /\ (s \in sessions => s \in sessions' \/ Emptied(s))
           \/ \E m \in making : Finish(m)
           \/ Moving
<1> DEFINE Aside == UNCHANGED places /\ sessions \subseteq sessions'
           Out(s, gone) == /\ RemovePanes(s, gone) /\ (\A p \in gone : program'[p] # "running")
                           /\ sessions \ {s} \subseteq sessions' /\ (s \in sessions => s \in sessions' \/ Emptied(s))
           OutOfOne == \E s \in Sessions, gone \in SUBSET Panes : Out(s, gone)
<1>1. CASE Making
  <2>1. Aside
    BY <1>1 DEF Making, NewSession, NewWindow, SplitWindow, Respawn, Begin, listing
  <2> QED BY <2>1
<1>2. ASSUME NEW c \in Clients, NEW s \in Sessions \cup {None}, Watch(c, s) PROVE Aside
  BY <1>2 DEF Watch
<1>3. CASE KillServer \/ HangUpAll \/ Stop \/ UNCHANGED vars
  <2>1. Aside
    BY <1>3 DEF KillServer, HangUpAll, Stop, vars, listing
  <2> QED BY <2>1
<1>4. ASSUME NEW s, RemoveSession(s) PROVE sessions \ {s} \subseteq sessions'
  BY <1>4 DEF RemoveSession
<1>5. ASSUME NEW s, EndIfEmpty(s) \/ UNCHANGED listing
      PROVE  sessions \ {s} \subseteq sessions' /\ (s \in sessions => s \in sessions' \/ Emptied(s))
  BY <1>4, <1>5 DEF EndIfEmpty, listing
<1>6. ASSUME NEW p \in Panes, ProgramEnds(p) PROVE Aside \/ OutOfOne
  <2>1. program'[p] # "running"
    BY <1>6 DEF ProgramEnds, PanesTypeOK
  <2>2. CASE UNCHANGED <<places, listing>>
    BY <2>2 DEF listing
  <2>3. CASE \E s \in Holding(p) \cup ({killedIn[p]} \ {None}) : RemovePanes(s, {p}) /\ EndIfEmpty(s)
    <3>1. Holding(p) \cup ({killedIn[p]} \ {None}) \subseteq Sessions
      BY DEF Holding, PanesTypeOK
    <3>2. PICK s \in Sessions : RemovePanes(s, {p}) /\ EndIfEmpty(s)
      BY <2>3, <3>1
    <3>3. Out(s, {p})
      BY <2>1, <3>2, <1>5
    <3> QED BY <3>3
  <2> QED BY <1>6, <2>2, <2>3 DEF ProgramEnds, TakeEndedPane
<1>7. ASSUME NEW p \in Panes, JobEnds(p) \/ KillPaneElsewhere(p) PROVE Aside
  BY <1>7 DEF JobEnds, KillPaneElsewhere, listing
<1>8. ASSUME NEW s \in Sessions, NEW gone, NEW last, Kill(s, gone, last) PROVE OutOfOne
  <2>1. /\ gone \in SUBSET Panes /\ RemovePanes(s, gone)
        /\ program' = [p \in Panes |-> IF p \in gone THEN HungUp(p) ELSE program[p]]
    BY <1>8 DEF Kill, KillPanes, Held, PanesTypeOK
  <2>2. \A p \in gone : program'[p] # "running"
    BY <2>1, HungUpTyped
  <2>3. Out(s, gone)
    BY <1>5, <1>8, <2>1, <2>2 DEF Kill
  <2> QED BY <2>1, <2>3
<1>9. ASSUME NEW s \in Sessions, KillSession(s) PROVE OutOfOne
  <2> DEFINE gone == Held(s)
  <2>1. /\ gone \in SUBSET Panes /\ RemovePanes(s, gone) /\ RemoveSession(s)
        /\ program' = [p \in Panes |-> IF p \in gone THEN HungUp(p) ELSE program[p]]
    BY <1>9 DEF KillSession, Held, PanesTypeOK
  <2>2. Emptied(s)
    BY <2>1 DEF RemovePanes, Emptied, Held, PanesTypeOK
  <2> HIDE DEF gone
  <2>3. \A p \in gone : program'[p] # "running"
    BY <2>1, HungUpTyped
  <2>4. Out(s, gone)
    BY <1>4, <2>1, <2>2, <2>3
  <2> QED BY <2>1, <2>4
<1>10. CASE Ending
  <2>1. CASE \E p \in Panes : KillPane(p)
    BY <1>8, <2>1 DEF KillPane, Holding, PanesTypeOK
  <2>2. CASE \E s \in Sessions, w \in Windows : KillWindow(s, w)
    BY <1>8, <2>2 DEF KillWindow
  <2> QED BY <1>6, <1>7, <1>9, <1>10, <2>1, <2>2 DEF Ending
<1> QED BY <1>1, <1>2, <1>3, <1>10 DEF Next

LEMMA OneStep == ~AcrossSessions /\ OneInv /\ [Next]_vars => OneInv'
<1> SUFFICES ASSUME ~AcrossSessions, OneInv, [Next]_vars PROVE OneInv'
  OBVIOUS
<1>0. PanesTypeOK /\ Single /\ Filled /\ HeldInv
  BY DEF OneInv, HeldInv
<1>1. HeldInv' /\ Single'
  BY <1>0, HeldStep, SingleStep
<1>2. ASSUME UNCHANGED places PROVE Filled'
  BY <1>0, <1>2 DEF places, Filled
<1>3. Filled'
  BY <1>0, <1>2, StepShapes, RemovePanesFills, FinishFills, MovingFills
<1> QED BY <1>1, <1>3 DEF OneInv

\* A pane in a window of a session that is listed is reached.
LEMMA HeldIsReached ==
    ASSUME NEW p, NEW s \in sessions', NEW w \in order'[s] \cup pen'[s], p \in panes'[w]
    PROVE  Reached(p)'
BY DEF Reached, Current

LEMMA MovingReaches ==
    ASSUME ~OntoTheLast, ~AcrossSessions, OneInv, Moving, NEW p \in Panes, Holding(p) # {}, program'[p] = "running"
    PROVE  Reached(p)'
<1>0. PanesTypeOK /\ Filled /\ Single
  BY DEF OneInv, HeldInv
<1>1. PICK t \in sessions, u \in Windows : u \in order[t] /\ p \in panes[u]
  BY <1>0 DEF Holding, Held, PanesTypeOK
<1>2. t \in Sessions /\ u \in Windows
  BY <1>0, <1>1 DEF PanesTypeOK
<1>3. UNCHANGED listing
  BY DEF Moving, Unlink, LinkFromPen, MoveWindow, MoveOnto, MovePane, BreakPane
<1>4. ASSUME panes' = panes, NEW dst \in Current, u \in order'[dst] \cup pen'[dst]
      PROVE  Reached(p)'
  BY <1>1, <1>3, <1>4 DEF Reached, Current, listing
<1>5. t \in Current
  BY <1>1 DEF Current
<1>6. ASSUME NEW s \in Sessions, NEW w \in Windows, Unlink(s, w) PROVE Reached(p)'
  <2>1. panes' = panes /\ u \in order'[t] \cup pen'[t]
    BY <1>0, <1>1, <1>2, <1>6 DEF Unlink, PanesTypeOK
  <2> QED BY <1>4, <1>5, <2>1
<1>7. ASSUME NEW s \in Sessions, NEW dst \in Sessions, NEW w \in Windows, LinkFromPen(s, w, dst)
      PROVE  Reached(p)'
  <2>1. panes' = panes /\ u \in order'[t]
    BY <1>0, <1>1, <1>2, <1>7 DEF LinkFromPen, PanesTypeOK
  <2> QED BY <1>4, <1>5, <2>1
<1>8. ASSUME NEW s \in Sessions, NEW dst \in Sessions, NEW w \in Windows, MoveWindow(s, w, dst)
      PROVE  Reached(p)'
  <2>1. /\ panes' = panes /\ dst \in Current /\ dst # s
        /\ order' = [order EXCEPT ![s] = @ \ {w}, ![dst] = @ \cup {w}]
    BY <1>8 DEF MoveWindow
  <2>2. u \in order'[dst] \/ u \in order'[t]
    BY <1>0, <1>1, <1>2, <2>1 DEF PanesTypeOK
  <2> QED BY <1>4, <1>5, <2>1, <2>2
<1>9. ASSUME NEW s \in Sessions, NEW dst \in Sessions, NEW w \in Windows, NEW v \in Windows,
             NEW last \in Panes, MoveOnto(s, w, dst, v, last)
      PROVE  Reached(p)'
  <2>1. /\ v \in order[dst] /\ dst \in sessions /\ dst # s
        /\ program' = [q \in Panes |-> IF q \in panes[v] THEN HungUp(q) ELSE program[q]]
        /\ panes' = [panes EXCEPT ![v] = {}]
        /\ order' = [order EXCEPT ![s] = @ \ {w}, ![dst] = (@ \ {v}) \cup {w}]
    BY <1>9 DEF MoveOnto
  <2>2. p \notin panes[v]
    BY <1>0, <2>1, HungUpTyped
  <2>3. p \in panes'[u] /\ u # v
    BY <1>0, <1>1, <1>2, <2>1, <2>2 DEF PanesTypeOK
  <2>4. u \in order'[dst] \/ u \in order'[t]
    BY <1>0, <1>1, <1>2, <2>1, <2>3 DEF PanesTypeOK
  <2>5. sessions' = sessions
    BY <1>3 DEF listing
  <2> QED BY <1>1, <2>1, <2>3, <2>4, <2>5, HeldIsReached
<1>10. ASSUME NEW s \in Sessions, NEW q \in Panes, NEW w \in Windows, MovePane(s, q, w)
      PROVE  Reached(p)'
  <2> DEFINE left == [v \in Windows |-> IF v \in order[s] THEN panes[v] \ {q} ELSE panes[v]]
  <2>1. /\ panes' = [left EXCEPT ![w] = @ \cup {q}] /\ q \notin panes[w]
        /\ order' = [order EXCEPT ![s] = {v \in @ : left[v] # {}}]
    BY <1>10 DEF MovePane
  <2>2. PICK dst \in sessions : w \in order[dst]
    BY <1>10 DEF MovePane
  <2>3. dst \in Sessions /\ sessions' = sessions
    BY <1>0, <1>3, <2>2 DEF PanesTypeOK, listing
  <2>4. CASE p = q
    <3>1. panes[w] # {} /\ left[w] = panes[w]
      BY <1>0, <2>1, <2>2, <2>3 DEF Filled
    <3>2. q \in panes'[w]
      BY <2>1
    <3> HIDE DEF left
    <3>3. w \in order'[dst]
      BY <1>0, <2>1, <2>2, <2>3, <3>1 DEF PanesTypeOK
    <3> QED BY <2>2, <2>3, <2>4, <3>2, <3>3, HeldIsReached
  <2>5. CASE p # q
    <3>1. p \in left[u]
      BY <1>1, <1>2, <2>5
    <3> HIDE DEF left
    <3>2. p \in panes'[u]
      BY <1>2, <2>1, <3>1
    <3>3. u \in order'[t]
      BY <1>0, <1>1, <1>2, <2>1, <3>1 DEF PanesTypeOK
    <3> QED BY <1>1, <2>3, <3>2, <3>3, HeldIsReached
  <2> QED BY <2>4, <2>5
<1>11. ASSUME NEW s \in Sessions, NEW q \in Panes, BreakPane(s, q) PROVE Reached(p)'
  <2>1. PICK from \in order[s] : /\ q \in panes[from]
                                 /\ panes' = [panes EXCEPT ![from] = @ \ {q}, ![NewOne] = {q}]
    BY <1>11 DEF BreakPane
  <2>2. /\ NewOne \in Windows /\ panes[NewOne] = {} /\ s \in Current
        /\ order' = [order EXCEPT ![s] = @ \cup {NewOne}]
    BY <1>11 DEF BreakPane, NewOne, Fresh
  <2>3. CASE p = q
    <3>1. p \in panes'[NewOne] /\ NewOne \in order'[s]
      BY <1>0, <2>1, <2>2, <2>3 DEF PanesTypeOK
    <3> QED BY <1>3, <2>2, <3>1 DEF Reached, Current, listing
  <2>4. CASE p # q
    <3>1. u # NewOne
      BY <1>1, <2>2
    <3>2. p \in panes'[u] /\ u \in order'[t]
      BY <1>0, <1>1, <1>2, <2>1, <2>2, <2>4, <3>1 DEF PanesTypeOK
    <3>3. sessions' = sessions
      BY <1>3 DEF listing
    <3> QED BY <1>1, <3>2, <3>3, HeldIsReached
  <2> QED BY <2>3, <2>4
<1> QED BY <1>6, <1>7, <1>8, <1>9, <1>10, <1>11 DEF Moving

\* What a step takes out of reach was hung up, or has ended.
LEMMA StepTakesOut ==
    ASSUME ~OntoTheLast, ~AcrossSessions, OneInv, [Next]_vars
    PROVE  \A p \in Panes : Holding(p) # {} => (Reached(p) \/ program[p] # "running")'
<1> SUFFICES ASSUME NEW p \in Panes, Holding(p) # {}, program'[p] = "running" PROVE Reached(p)'
  OBVIOUS
<1>0. PanesTypeOK /\ HeldInv
  BY DEF OneInv, HeldInv
<1>1. PICK t \in sessions, u \in Windows : u \in order[t] /\ p \in panes[u]
  BY <1>0 DEF Holding, Held, PanesTypeOK
<1>2. t \in Sessions /\ u \in Windows
  BY <1>0, <1>1 DEF PanesTypeOK
<1>3. CASE UNCHANGED places /\ sessions \subseteq sessions'
  BY <1>1, <1>3, HeldIsReached DEF places
<1>4. ASSUME NEW s \in Sessions, NEW gone \in SUBSET Panes, RemovePanes(s, gone),
             \A q \in gone : program'[q] # "running",
             sessions \ {s} \subseteq sessions', s \in sessions => s \in sessions' \/ Emptied(s)
      PROVE  Reached(p)'
  <2>1. p \in panes'[u] /\ u \in order'[t]
    BY <1>0, <1>1, <1>2, <1>4 DEF RemovePanes, PanesTypeOK
  <2>2. t \in sessions'
    BY <1>1, <1>4, <2>1 DEF Emptied
  <2> QED BY <2>1, <2>2, HeldIsReached
<1>5. ASSUME NEW m \in making, Finish(m) PROVE Reached(p)'
  <2>1. sessions' = sessions /\ program' = [program EXCEPT ![m.pane] = "running"]
    BY <1>5 DEF Finish
  <2>2. /\ m.pane \in Panes /\ program[m.pane] = "starting"
        /\ m.to # "respawn" => m.at \in Windows /\ m.session \in Sessions
        /\ m.to = "respawn" => program[m.at] \in {"hungup", "ended"}
        /\ m.to = "window" => panes[m.at] = {}
    BY <1>0 DEF HeldInv, Begun, Kept, PanesTypeOK, Requests
  <2>3. program[p] \notin {"none", "starting"}
    BY <1>0, <1>1, <1>2 DEF HeldInv, Begun
  <2>4. program[p] = "running"
    BY <1>0, <2>1, <2>2, <2>3 DEF PanesTypeOK
  <2>5. CASE PutInNewWindow(m)
    <3>1. p \in panes'[u] /\ u \in order'[t]
      BY <1>0, <1>1, <1>2, <2>2, <2>5 DEF PutInNewWindow, PanesTypeOK
    <3> QED BY <1>1, <2>1, <3>1, HeldIsReached
  <2>6. CASE PutInSplit(m)
    <3>1. p \in panes'[u] /\ order' = order
      BY <1>0, <1>1, <1>2, <2>2, <2>6 DEF PutInSplit, PanesTypeOK
    <3> QED BY <1>1, <2>1, <3>1, HeldIsReached
  <2>7. CASE PutInPlaceOf(m)
    <3>1. p \in panes'[u] /\ order' = order
      BY <1>1, <1>2, <2>2, <2>4, <2>7 DEF PutInPlaceOf
    <3> QED BY <1>1, <2>1, <3>1, HeldIsReached
  <2> QED BY <1>5, <2>5, <2>6, <2>7 DEF Finish
<1>6. CASE Moving
  BY <1>6, MovingReaches
<1> QED BY <1>0, <1>3, <1>4, <1>5, <1>6, StepShapes

\* No command, end, move or late respawn takes a program out of every window
\* and leaves it running, where `move-pane` names panes of its own session and
\* `move-window -k` does not take what is left of a session that ended.
THEOREM WhatIsTakenOutIsHungUp ==
    ASSUME ~OntoTheLast, ~AcrossSessions PROVE Spec => TakenOutIsHungUp
<1>1. Init => Single /\ Filled
  BY DEF Init, Single, Filled
<1>2. Init => OneInv
  BY <1>1, HeldInit DEF OneInv
<1>3. OneInv /\ [Next]_vars => OneInv'
  BY OneStep
<1>4. OneInv /\ [Next]_vars =>
        [\A p \in Panes : Holding(p) # {} => (Reached(p) \/ program[p] # "running")']_vars
  BY StepTakesOut
<1> QED BY <1>2, <1>3, <1>4, PTL DEF Spec, TakenOutIsHungUp
=============================================================================
