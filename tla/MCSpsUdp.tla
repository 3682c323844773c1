------------------------------ MODULE MCSpsUdp ------------------------------
(* A small instance of SpsUdp: one client that associates, a source on its *)
(* host and one on another host, which only the SS loop may serve.         *)
EXTENDS SpsUdp

CONSTANTS a1, s1, s3

MCAssocs == {a1}
MCSrcs   == {s1, s3}
MCAddrOf == [x \in MCAssocs |-> "here:1"]
MCHostOf == [x \in MCAssocs \cup MCSrcs |-> IF x = s3 THEN "there" ELSE "here"]
=============================================================================
