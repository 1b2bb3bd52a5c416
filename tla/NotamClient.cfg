\* Two callers.  The ticks keep the proportions of the real durations:
\* lateness uses up the margin of the spacing, the queue holds two slots,
\* and the queue, lateness and transit together use up all but one tick of
\* the token's margin.
SPECIFICATION FairUpstreamSpec
CONSTANTS
    Caller = {c1, c2}
    NoCaller = NoCaller
    Spacing = 2
    MaxWait = 3
    MaxRetries = 1
    Life = 11
    Margin = 6
    Limit = 1
    MaxLate = 1
    MaxTransit = 1
INVARIANTS
    NotamTypeOK
    Spaced
    TokenShared
    TokenOutlivesQueue
PROPERTY
    EveryoneAnswered
