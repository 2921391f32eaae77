------------------------------ MODULE MCOrderDesk ------------------------------
\* Two orders of one customer, two requests at the same time.
EXTENDS OrderDesk, TLC

Symmetry == Permutations(Order) \cup Permutations(Call)
===============================================================================
