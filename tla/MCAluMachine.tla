---------------------------- MODULE MCAluMachine ----------------------------
(* Bytes at the edges of the sign, of a decimal digit and of a nibble, in  *)
(* both halves of a word, and every setting of C, D and M.                 *)
EXTENDS AluMachine

MCBytes == {0, 1, 9, 16, 25, 127, 128, 153, 255}
MCWords == {Word(h, l) : h \in {0, 1, 9, 127, 128, 153, 255}, l \in MCBytes}
MCFlags == SUBSET {"c", "d", "m"}
=============================================================================
