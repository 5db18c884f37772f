SPECIFICATION FairSpec
CONSTANTS
    h1 = h1
    h2 = h2
    x1 = x1
    File = {f1, f2}
    Segment = {s1}
    Cdn = {h1, h2}
    Foreign = {x1}
    NoHost = NoHost
    Located <- LocatedHosts
    Fallback <- FallbackHosts
    Retries = 1
    MaxChanges = 3
INVARIANTS TypeOK RoutesRanked SteadyHostWins
PROPERTIES EveryFetchEnds DeadHostForgotten
CHECK_DEADLOCK FALSE
