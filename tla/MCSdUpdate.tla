----------------------------- MODULE MCSdUpdate -----------------------------
\* Constants for checking SdUpdate: two images, one that ends inside a chunk and
\* one that fills the slot, whose end is not at the end of an erase block.
EXTENDS SdUpdate

CONSTANTS Small, Large

MCSize == [i \in {Small, Large} |-> IF i = Small THEN 3 ELSE 6]

=============================================================================
