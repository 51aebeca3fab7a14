----------------------------- MODULE MCUsbRead -----------------------------
(* Instances of UsbRead for TLC. *)
EXTENDS UsbRead
=============================================================================
