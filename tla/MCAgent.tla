------------------------------ MODULE MCAgent ------------------------------
(***************************************************************************)
(* Agent for TLC: encodings of one and of two bytes, so that a buffer can   *)
(* be too full for one result and not for the other.                        *)
(***************************************************************************)
EXTENDS Agent, TLC

\* One test produces all its results, the others one.
MCTicks ==
    [t \in Tests |-> IF t = CHOOSE u \in Tests : TRUE THEN MaxTicks ELSE 1]

MCMsgSize == [r \in Results |-> 1 + (r[2] % 2)]
=============================================================================
