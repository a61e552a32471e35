---------------------------- MODULE MCCollector ----------------------------
EXTENDS Collector

MCObj == 1..3

\* Two sizes are enough to see which object was counted.
MCObjectBytes == [t \in ObjType |-> IF t = "string" THEN 2 ELSE 1]
============================================================================
