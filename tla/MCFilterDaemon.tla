--------------------------- MODULE MCFilterDaemon ---------------------------
EXTENDS FilterDaemon
L(a, d, r, v) == [addr |-> a, dir |-> d, mask |-> "", range |-> r, ver |-> v]
A == L("a", {}, "", "v4")           \* 10.0.0.1
AR == L("a", {"src", "dst"}, "z", "v4") \* src dst 10.0.0.1..10.0.0.9
B == L("b", {"src"}, "", "v6")      \* src 2000::2
U == L("u", {}, "", "unknown")      \* a word that is no address
N == L("none", {"dst"}, "", "unknown")  \* dst
MCLines == {A, AR, B, U, N}
MCTexts == {{}, {A, AR, B}, {A, U, N}}
=============================================================================
