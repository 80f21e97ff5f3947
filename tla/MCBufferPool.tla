----------------------------- MODULE MCBufferPool -----------------------------
(* Model checking of BufferPoolManager.  Two frames and three pages: each  *)
(* page can be evicted by the others, pages are freed and reused, and the  *)
(* device can be full.  Two contents, zeroes and something else, are       *)
(* enough to tell a lost write, as a page never mixes contents.            *)
EXTENDS BufferPoolManager
=============================================================================
