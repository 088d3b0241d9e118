--------------------------- MODULE MCIdleTimeout ---------------------------
(* The pool against the server's idle timeout, on small instances.         *)
EXTENDS IdleTimeout, TLC

Symmetry == Permutations(Thread) \cup Permutations(Conn)
=============================================================================
