---------------------------- MODULE MCCorrelation ----------------------------
(***************************************************************************)
(* CorrelationEngine for TLC.  The traceroute path agrees with one of the   *)
(* two BGP paths and contradicts the other, so an outdated evaluation shows *)
(* in the gauge.                                                            *)
(***************************************************************************)
EXTENDS CorrelationEngine, TLC

MCBgpPaths == {<<1, 2>>, <<1, 3>>}
MCOneBgpPath == {<<1, 2>>}
MCTrPaths == {<<1, 2>>}
==============================================================================
