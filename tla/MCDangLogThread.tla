-------------------------- MODULE MCDangLogThread --------------------------
EXTENDS DangLogThread

\* Six locations in six different 256-byte blocks: no two share the
\* compression prefix, so the partial-match path is never taken.
MCAddrsDistinctBlocks == {256 + 8, 512 + 16, 768 + 8, 1024 + 24, 1280 + 8, 1536 + 16}

\* Three locations of one 256-byte block (adjacent struct fields) and one
\* elsewhere: the partial-match path is taken.
MCAddrsSharedBlock == {256 + 8, 256 + 16, 256 + 24, 512 + 8}

=============================================================================
