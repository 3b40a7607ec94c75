SPECIFICATION FairSpec
CONSTANTS
    MAX_THREADS = 3
    Work = {"a", "b"}
    Traces <- ShortTraces
INVARIANTS TypeOK FrontIsThere CounterBounded FreedUnused
PROPERTIES HandsOut Ends
