--------------------------- MODULE MCPortalClient ---------------------------
(* A small instance of PortalClient for TLC. *)
EXTENDS PortalClient

CONSTANTS x1, x2
MCStarts == {{}, {x1}}
=============================================================================
