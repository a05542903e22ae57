---------------------------- MODULE MCFlowLearn ----------------------------
(***************************************************************************)
(* Small instances of FlowLearn for TLC.                                   *)
(***************************************************************************)
EXTENDS FlowLearn, TLC

\* When learning fails a flow can be listed, and its learning be answered, any
\* number of times: bounds on the counters that then grow.
MaxReferences == 3
Drift == 0 .. 1
CounterBound == \A e \in Flow : rc[e] <= MaxReferences /\ skip[e] \in Drift

\* Nothing tells one flow from another.
Symmetry == Permutations(Flow)

=============================================================================
