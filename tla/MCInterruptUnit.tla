--------------------------- MODULE MCInterruptUnit ---------------------------
(* InterruptUnit with two device threads and a ring of a few slots. *)
EXTENDS InterruptUnit, TLC

CONSTANTS d1, d2, key, divisionByZero, a1, a2

MCThread == {d1, d2}
MCDeviceInterrupt == {key}
MCTriggerInterrupt == {key}
MCCpuFault == {MemoryViolation, divisionByZero}
MCCritical == {MemoryViolation}
MCAddress == {a1, a2}
MCTableLocation == {NoTable, a1}
=============================================================================
