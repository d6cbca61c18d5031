---------------------------- MODULE MCBumpArena ----------------------------
(* Addresses of 6 bits, chunks of at least 4 bytes aligned to 4: requests  *)
(* that fit in the padding, that need more alignment than a chunk has,     *)
(* that are empty, and one whose end passes the end of the address space.  *)
EXTENDS BumpArena

Req(s, a) == [size |-> s, align |-> a]
MCRequests == {Req(0, 1), Req(1, 1), Req(3, 2), Req(3, 8), Req(60, 1)}
MCBases    == {4, 8, 40}
=============================================================================
