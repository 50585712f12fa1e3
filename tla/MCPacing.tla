------------------------------ MODULE MCPacing ------------------------------
(* One client: a command line and one mirrored pane, small limits.          *)
EXTENDS Pacing

MCLimits == {<<1, 0>>, <<0, 3>>}
=============================================================================
