---------------------------- MODULE MCSessionIO ----------------------------
(* An instance of SessionIO: Notice and None are model values.             *)
EXTENDS SessionIO
=============================================================================
