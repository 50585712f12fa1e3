----------------------------- MODULE MCPaneLife -----------------------------
\* Two sessions, two windows and three panes, one of them a job's viewer.
EXTENDS PaneLife, TLC

CONSTANTS s1, s2, w1, w2, p1, p2, p3, c1
=============================================================================
