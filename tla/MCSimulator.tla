----------------------------- MODULE MCSimulator ----------------------------
(* Three partners, one of each format, and two operators who disagree.     *)
EXTENDS Simulator

OfEach == <<"x12", "edifact", "xml">>

Disagree == [o \in Operators |-> IF o = "first" THEN "pause" ELSE "resume"]

Day == "20260215"

Names == {<<"SENDER", "SE">>}
=============================================================================
