------------------------------ MODULE MCMalloc ------------------------------
(* Malloc on small instances. *)
EXTENDS Malloc, TLC

CONSTANTS parent, child

\* Chunks in two processes, with a file that holds three pages of them; blocks
\* of one and two pages, in one process with a file that needs a second table
\* of descriptors, and in two processes; chunks and blocks in one process.
OnlyChunks == [limit |-> 6, chunks |-> 2, blocks |-> 0, sizes |-> {}, forks |-> TRUE]
OnlyBlocks == [limit |-> 10, chunks |-> 0, blocks |-> 7, sizes |-> {1, 2}, forks |-> FALSE]
TwoSharing == [limit |-> 8, chunks |-> 0, blocks |-> 5, sizes |-> {1, 2}, forks |-> TRUE]
SomeOfBoth == [limit |-> 9, chunks |-> 2, blocks |-> 2, sizes |-> {1, 2}, forks |-> FALSE]

AllWorkloads == {OnlyChunks, OnlyBlocks, TwoSharing, SomeOfBoth}
BlocksAlone == {OnlyBlocks}
=============================================================================
