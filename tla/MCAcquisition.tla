---------------------------- MODULE MCAcquisition ----------------------------
(***************************************************************************)
(* Acquisition on small instances; the constants are in the .cfg files.    *)
(***************************************************************************)
EXTENDS Acquisition

=============================================================================
