-------------------------- MODULE MCDeviceRegistry --------------------------
(* DeviceRegistry with a motherboard, a drive and a timer at boot. *)
EXTENDS DeviceRegistry

MCBoot == << [size |-> 1, canWrite |-> {},  drive |-> FALSE],
             [size |-> 2, canWrite |-> {1}, drive |-> TRUE],
             [size |-> 1, canWrite |-> {0}, drive |-> FALSE] >>
MCDriveCanWrite == {1}
=============================================================================
