--------------------------- MODULE MCRateLimiter ---------------------------
(* The limiter with calls and clients that are interchangeable.             *)
EXTENDS RateLimiter, TLC

\* Calls are interchangeable until they differ in state; so are clients.
Symmetry == Permutations(Calls) \cup Permutations(Clients)
=============================================================================
