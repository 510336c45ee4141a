------------------------------ MODULE MCMemcmp ------------------------------
(* The buffers memcmp_avx2_asm is run on by TLC.                             *)
EXTENDS Memcmp

(* Every set of differing bytes for the lengths handled byte by byte; for
   the vector code, no difference, or one at any offset with or without a
   second one next to it, one vector on, or at the end: what lies after the
   first difference can only matter to code that has missed it.            *)
MCDifferSets(k) ==
    IF k < 8 THEN SUBSET (0..(k - 1))
    ELSE {{}} \cup UNION {{{i, j} : j \in {i, i + 1, i + VEC_SIZE, k - 1} \cap (i..(k - 1))}
                             : i \in 0..(k - 1)}
=============================================================================
