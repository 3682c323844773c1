---------------------------- MODULE MCStreamUdp ----------------------------
(* Two sources whose ports differ in the high byte only, and the lengths   *)
(* at which the length field grows.                                        *)
EXTENDS StreamUdp

MCSrcs == {[host |-> [form |-> "ip4", id |-> "x", text |-> 4], port |-> 2],
           [host |-> [form |-> "ip4", id |-> "x", text |-> 4], port |-> 258]}

MCLengths == {0, 1, 127, 128, 129, 16383, 16384, 16385, 65507, 2097151, 2097152}
=============================================================================
