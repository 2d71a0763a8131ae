------------------------------ MODULE MCWords ------------------------------
EXTENDS Words

\* Of the 4096 values of four 3 bit digits, those whose digits are zero, the
\* top bit alone or all ones, the small ones (shift amounts, byte indices) and
\* those around 2^12.
Patterns == {FromWords(4, d) : d \in [0 .. 3 -> {0, 4, 7}]}
SomeWords == Patterns \cup 1 .. 13 \cup {2047, 2049, 4094}
SomeThird == {6, 475, 3661}
=============================================================================
