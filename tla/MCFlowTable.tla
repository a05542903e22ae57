---------------------------- MODULE MCFlowTable ----------------------------
(***************************************************************************)
(* Small instances of FlowTable for TLC.                                   *)
(***************************************************************************)
EXTENDS FlowTable, TLC

CONSTANTS r1, r2, k1, k2, k3

\* Two flows on the first stream, one on the second.
MCStreamOf == k1 :> r1 @@ k2 :> r1 @@ k3 :> r2

=============================================================================
