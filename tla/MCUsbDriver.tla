----------------------------- MODULE MCUsbDriver -----------------------------
(* Instances of UsbDriver for TLC: a long reply, one that ends with an empty *)
(* packet, and control-out transfers with and without data.                  *)
EXTENDS UsbDriver

Setup(bRequest, wValue, in, wLength) ==
  [bRequest |-> bRequest, wValue |-> wValue, in |-> in, wLength |-> wLength]

MCRequests ==
  {Setup("GET_DESCRIPTOR", 256, TRUE, 18), Setup("GET_REPORT", 256, TRUE, 64),
   Setup("SET_ADDRESS", 1, FALSE, 0), Setup("SET_CONFIGURATION", 1, FALSE, 0),
   Setup("SET_REPORT", 512, FALSE, 1)}
=============================================================================
