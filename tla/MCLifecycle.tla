---------------------------- MODULE MCLifecycle ----------------------------
EXTENDS Lifecycle
\* Enough streams are left, or none.
MCActives == {{0, 2}, 0 .. 3}

\* info_streams_unused() takes the lowest ids that no one has, as many as it
\* is asked for if there are so many.
ASSUME UnusedIsLowest ==
    \A used \in SUBSET (0 .. MaxStreams - 1), max \in 0 .. MaxStreams :
        Unused(used, max) = Lowest(max, (0 .. MaxStreams - 1) \ used)
=============================================================================
