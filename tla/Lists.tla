------------------------------- MODULE Lists --------------------------------
(* Sequences of sequences, as the models of memory and of the bus need     *)
(* them: a recursive function, by the number of sequences joined.          *)
EXTENDS Naturals, Sequences

Flatten(seqs) ==
  LET done[k \in 0 .. Len(seqs)] == IF k = 0 THEN <<>> ELSE done[k - 1] \o seqs[k]
  IN  done[Len(seqs)]

=============================================================================
