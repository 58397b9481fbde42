----------------------------- MODULE MCDangSan -----------------------------
EXTENDS DangSan

CONSTANTS t1, t2, t3, o1, o2

\* Two locations in different 256-byte blocks (no compression prefix in
\* common), and two of one block (adjacent fields of one structure).
MCLocsDistinct == {256 + 8, 512 + 8}
MCLocsSameBlock == {256 + 8, 256 + 16}
MCLocsOne == {256 + 8}

MCThreads2 == {t1, t2}
MCThreads3 == {t1, t2, t3}

=============================================================================
