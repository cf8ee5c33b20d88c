-------------------------------- MODULE Server --------------------------------
(***************************************************************************)
(* Who a server process serves: the constants that the modules about its   *)
(* requests share.                                                         *)
(***************************************************************************)
CONSTANTS
    Members,
    Handlers,     \* the members' requests served at once
    Admins        \* the administrators' requests served at once
=============================================================================
