-------------------------------- MODULE Null --------------------------------
(***************************************************************************)
(* The absent value, shared by what the spine holds and by who writes it.  *)
(***************************************************************************)
CONSTANT None   \* null
=============================================================================
