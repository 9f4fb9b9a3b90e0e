SPECIFICATION CacheSpec
CONSTANTS
    Refs = {lamp, blind}
    Polled = {lamp, blind}
    Contents = {on, off}
    Readers = {r1}
    Nothing = Nothing
    MaxSeq = 3
SYMMETRY Symmetry
INVARIANTS
    SleepersMissNothing
    ToldUnlessReissued
