----------------------------- MODULE MCUsbHost -----------------------------
(***************************************************************************)
(* The firmware with few slots, one key, and a clock that wraps early.     *)
(***************************************************************************)
EXTENDS UsbHost

\* "no key" and a key; a mouse's first byte (the buttons) is neither.
MCKeys    == {0, 4}
MCReports == {1}
=============================================================================
