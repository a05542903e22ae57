-------------------------- MODULE MCStreamMonitors --------------------------
EXTENDS StreamMonitors
\* No host buffer, one, and one on each of two adapters.
MCLayouts == {<<>>, <<1>>, <<1, 2>>}
=============================================================================
