--------------------------- MODULE MCWindowFrames ---------------------------
(* One client and one peer that show a window pane.  With the client alone  *)
(* every switch may come; beside a peer, one of them.                       *)
EXTENDS WindowFrames

MCInit ==
  /\ Init
  /\ switches = IF \E p \in Peers : ~links[p].stopped THEN MaxSwitches - 1 ELSE 0

MCSpec == MCInit /\ [][Next]_vars /\ Fairness
=============================================================================
