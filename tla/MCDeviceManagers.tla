-------------------------- MODULE MCDeviceManagers --------------------------
(* DeviceManagers with the motherboard's manager and the storage manager,  *)
(* which has the drive manager and one drive.                              *)
EXTENDS DeviceManagers, TLC

MCManagerOf == 0 :> 1 @@ 1 :> 2 @@ 2 :> 2
=============================================================================
