--------------------------- MODULE MCFaxDelivery ---------------------------
(* A small instance of FaxDelivery for TLC. *)
EXTENDS FaxDelivery
=============================================================================
