----------------------------- MODULE MCModbusRtu -----------------------------
(* Small instances of ModbusRtu: two requests to this slave, a broadcast and *)
(* a request to another slave.                                               *)
EXTENDS ModbusRtu

ThreeRequests == {"w", "b", "far"}
ThreeAddr     == [w |-> "us", b |-> "all", far |-> "other"]
TwoWrites     == {"w1", "w2"}
ToUs          == [w1 |-> "us", w2 |-> "us"]
=============================================================================
