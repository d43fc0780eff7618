--------------------------- MODULE MCLaypipeFactory ---------------------------
EXTENDS LaypipeFactory, TLC

CONSTANTS hookA, hookB, burnerA, burnerB

\* One self-burner for each of two hooks.
HookOf == (burnerA :> hookA) @@ (burnerB :> hookB)
\* No two treasuries, and no two implementations, are told apart.
Interchangeable == Permutations(Treasuries) \cup Permutations(Implementations)
=============================================================================
