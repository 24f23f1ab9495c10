---------------------------- MODULE MCLifecycle ----------------------------
(* A small instance of Lifecycle.                                          *)
EXTENDS Lifecycle
=============================================================================
