----------------------------- MODULE MCUhfRadio -----------------------------
(* Instances of UhfRadio: the digits and channels that matter.             *)
EXTENDS UhfRadio

MCFirsts == {"2", "A"}
MCMids   == {"200"}
MCLasts  == {"00", "75"}
=============================================================================
