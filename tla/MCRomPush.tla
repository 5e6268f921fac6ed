------------------------------ MODULE MCRomPush ------------------------------
(* Small instances of RomPush.                                             *)
EXTENDS RomPush
=============================================================================
