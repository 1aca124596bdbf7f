--------------------------- MODULE MC_FuseDirHandle ---------------------------
EXTENDS FuseDirHandle

CONSTANTS w1, w2

MC_Workers == {w1, w2}

\* Three entries of 16, 8 and 16 bytes read with 24-byte requests: the
\* first READDIR takes two entries, the second the third, the third none.
MC_Listing == <<2, 1, 2>>

=============================================================================
