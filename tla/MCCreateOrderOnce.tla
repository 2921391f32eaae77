------------------------- MODULE MCCreateOrderOnce --------------------------
(* Two messages of one customer, two calls at a time, three in all.        *)
EXTENDS CreateOrderOnce
=============================================================================
