-------------------------- MODULE MCDeviceRecords --------------------------
(* DeviceRecords on small instances. *)
EXTENDS DeviceRecords
=============================================================================
