CONSTANTS
    Clients = {c1, c2, c3}
    Channels = {a, b}
SPECIFICATION Spec
INVARIANTS
    NobodyWaitsInVain
    OneHolder
