---------------------------- MODULE MCWindowOrder ----------------------------
\* Three windows, two clients, and one index to spare.
EXTENDS WindowOrder

CONSTANTS w1, w2, w3, c1, c2

\* Neither the windows nor the clients are told apart.
Symmetry == Permutations({w1, w2, w3}) \cup Permutations({c1, c2})
=============================================================================
