----------------------------- MODULE MCAddrSwap -----------------------------
EXTENDS AddrSwap
\* 6 and 5 are negative as ints of three bits: addresses ending in 128 or more.
New == <<2, 6, 0>>
MCTables == {[i \in 1 .. n |-> [old |-> f[i], new |-> New[i]]] : n \in 0 .. 3,
             f \in [1 .. 3 -> {1, 3, 5}]}
P(s, d, t) == [src |-> s, dst |-> d, ts |-> t]
MCCaptures == {<<>>, <<P(1, 4, 5)>>, <<P(5, 3, 1), P(3, 1, 1), P(0, 5, 3)>>}
=============================================================================
