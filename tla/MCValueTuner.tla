---------------------------- MODULE MCValueTuner ----------------------------
(* Two rules that overlap on a port: the second is met only by packets the  *)
(* first does not take.  Efficiencies on both sides of both thresholds; the *)
(* factors double and halve, so that few fractions are cut off: from 4 it   *)
(* takes 4, 8, 16, 24 up and 24, 12, 6, 4 down.  The overrides are zero,    *)
(* one between the bases and one above the ceiling.                         *)
EXTENDS ValueTuner

MCRules == << [name |-> "voip", ports |-> {5060}, protocols |-> {"udp"}, value |-> 4],
              [name |-> "bulk", ports |-> {5060, 21}, protocols |-> {}, value |-> 1] >>
MCPackets == [src : {9, 21}, dst : {9, 5060}, protocol : {"udp", "tcp"}]
MCEfficiencies == {89, 90, 100}
MCOverrides == {0, 2, 32}
=============================================================================
