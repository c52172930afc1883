--------------------------- MODULE MCPhoneSession ---------------------------
(***************************************************************************)
(* A phone, its room and three connections for TLC.                        *)
(***************************************************************************)
EXTENDS PhoneSession
=============================================================================
