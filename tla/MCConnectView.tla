--------------------------- MODULE MCConnectView ---------------------------
(* An instance of ConnectView for TLC. *)
EXTENDS ConnectView

CONSTANTS c1, c2

=============================================================================
