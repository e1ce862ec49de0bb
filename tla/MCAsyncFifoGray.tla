-------------------------- MODULE MCAsyncFifoGray --------------------------
(* The Gray-coded FIFO with numbers for its powers of two. *)
EXTENDS AsyncFifoGray

MCPow == [n \in 0 .. ASize + 1 |-> 2 ^ n]
=============================================================================
