---------------------------- MODULE MCSiemServer ----------------------------
(* SiemServer for TLC: events of two keys, below, at and above the threshold. *)
EXTENDS SiemServer

CONSTANTS k1, k2

Event(k, n) == [key |-> k, severity |-> n]

MCBatches == {<<Event(k1, 1)>>, <<Event(k2, 0), Event(k1, 1)>>}
=============================================================================
