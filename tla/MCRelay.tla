------------------------------ MODULE MCRelay ------------------------------
(* An instance of Relay for TLC. *)
EXTENDS Relay

\* The target greets first, with one byte; the application sends two.
MCBytes == [out |-> 2, back |-> 1]

=============================================================================
