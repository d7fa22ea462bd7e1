------------------------------ MODULE MCBleLink ------------------------------
(* BleLink for TLC: two centrals.                                          *)
EXTENDS BleLink
CONSTANTS central1, central2
MCCentrals == {central1, central2}
=============================================================================
