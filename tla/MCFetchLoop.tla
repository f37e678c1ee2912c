---------------------------- MODULE MCFetchLoop ----------------------------
(* Instances of FetchLoop for TLC. *)
EXTENDS FetchLoop

\* Weights 1 and 2, from values outside the range, and equal weights.
TwoConfigs == {<<0, 9>>, <<1, 1>>}
=============================================================================
