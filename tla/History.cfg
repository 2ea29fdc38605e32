SPECIFICATION HistoryLiveSpec
CONSTANTS
    Messages = {m1, m2, m3, m4, m5}
    PageSize = 2
    MaxTime = 3
INVARIANTS
    SkipsOnlyTies
PROPERTIES
    PagesDescend
    PagingEnds
