CONSTANTS
    Client = {c1, s1}
    Steady = {s1}
    Name = {tv, desk}
    Key = {k}
    Absent = absent
    Callbacks = {"posts"}
    QueryInterval = 2
    StaleTimeout = 6
    MaxLosses = 1
    MaxStarts = 1
SPECIFICATION FairSpec
INVARIANTS NotifiedOfEveryChange
PROPERTIES CallsReturn SteadyClientKept SilentClientForgotten
