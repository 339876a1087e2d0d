------------------------------ MODULE MCPoller ------------------------------
(* Four channel objects, two (in turn) on each of two descriptors; one of  *)
(* them belongs to a server that may be destroyed in any handler.          *)
EXTENDS Poller

CONSTANTS a, b, c, d

MCFd == [x \in {a, b, c, d} |-> IF x \in {a, b} THEN 1 ELSE 2]

=============================================================================
