------------------------------ MODULE MCReader ------------------------------
\* Constants for checking Reader: a book longer than the window of its page table,
\* and a shorter one that may have taken its place.
EXTENDS Reader

CONSTANTS Long, Edited

MCPageCount == [b \in {Long, Edited} |-> IF b = Long THEN 4 ELSE 2]

=============================================================================
