--------------------------- MODULE MCBsupScanner ---------------------------
(* Instances of BsupScanner for TLC. *)
EXTENDS BsupScanner

T == [kind |-> "types"]
E == [kind |-> "eos"]
C == [kind |-> "control"]
B == [kind |-> "bad"]
V(id, does) == [kind |-> "values", id |-> id, does |-> does]

\* Two streams that give different types to one ID, a control message between
\* batches, batches filtered away, a type entered after a frame was handed out,
\* an ID used before its stream defines it, and each of the ways a scan can fail.
MCFiles ==
    { <<T, V(1, "batch"), E, T, V(1, "batch")>>,
      <<T, V(1, "none"), C, V(1, "batch")>>,
      <<T, V(1, "batch"), T, V(2, "batch")>>,
      <<T, V(1, "badzip"), V(1, "batch")>>,
      <<T, V(1, "badval"), C>>,
      <<T, V(2, "batch"), B>>,
      <<V(1, "batch"), T, V(2, "none")>>,
      <<C, B>> }
=============================================================================
