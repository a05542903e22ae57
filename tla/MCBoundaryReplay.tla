-------------------------- MODULE MCBoundaryReplay --------------------------
EXTENDS BoundaryReplay
CONSTANT NoValue
Opt(m, s, d, l) == [mod |-> m, start |-> s, delay |-> d, loop |-> l]
\* Each option that matters with and without the others; two that are refused.
MCOptions == {Opt(NoValue, NoValue, 0, 2), Opt(2, NoValue, 1, 0), Opt(1, NoValue, 0, 1),
              Opt(NoValue, 3, 1, 3), Opt(2, 3, 0, 1), Opt(0, NoValue, 0, 1)}
Cap(segs, n, o) == [nano |-> n, nt |-> o, segments |-> segs]
\* Nothing; a full boundary; two segments; a packet too late;
\* one before the first; the last one not the latest; nanoseconds.
MCCaptures == {Cap(<<>>, FALSE, TRUE), Cap(<<<<1, 3>>>>, FALSE, TRUE),
               Cap(<<<<0, 0>>, <<1>>>>, FALSE, FALSE), Cap(<<<<0>>, <<3>>>>, FALSE, TRUE),
               Cap(<<<<1, 0>>>>, FALSE, TRUE), Cap(<<<<0, 2>>, <<1>>>>, FALSE, TRUE),
               Cap(<<<<1, 1>>>>, TRUE, TRUE), Cap(<<<<0, 0>>>>, TRUE, TRUE)}
=============================================================================
