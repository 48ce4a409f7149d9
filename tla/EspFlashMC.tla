---------------------------- MODULE EspFlashMC ------------------------------
(***************************************************************************)
(* EspFlash on small instances.                                            *)
(***************************************************************************)
EXTENDS EspFlash

NoneOrAny == {{}, FaultKinds}
Refusals == {{"nak"}}
=============================================================================
