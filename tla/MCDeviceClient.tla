---------------------------- MODULE MCDeviceClient ----------------------------
(***************************************************************************)
(* Small instances of DeviceClient: its constants suffice.                 *)
(***************************************************************************)
EXTENDS DeviceClient
=============================================================================
