-------------------------------- MODULE MCSlob --------------------------------
\* The heap with pages of eight units of two bytes: two sizes of small blocks, of two and
\* of four units, and big blocks of one and of two pages.
EXTENDS Slob

MCSizes == {2, 5, PAGE_SIZE, PAGE_SIZE + 1}
=============================================================================
