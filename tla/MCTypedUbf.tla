----------------------------- MODULE MCTypedUbf -----------------------------
(* Instances of the UBF modules for TLC. *)
EXTENDS Queues

\* No method reads the result of an earlier one, and a queue call is given any
\* of the control blocks.
Unread == <<ub, loc, batch, iter, copy, saved>>
=============================================================================
