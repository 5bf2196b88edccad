------------------------------- MODULE MCFile -------------------------------
(* Flags for model checking File: create with truncation, exclusive        *)
(* creation for appending, and reading with flags that then mean nothing.  *)
EXTENDS File

MCFlags ==
    {[access |-> "rw", create |-> TRUE, excl |-> FALSE, trunc |-> TRUE, append |-> FALSE],
     [access |-> "w", create |-> TRUE, excl |-> TRUE, trunc |-> FALSE, append |-> TRUE],
     [access |-> "r", create |-> FALSE, excl |-> TRUE, trunc |-> TRUE, append |-> FALSE]}

MCOffsets == {-1, 0}
=============================================================================
