------------------------------ MODULE Selection ------------------------------
(***************************************************************************)
(* A loop that walks over a list and keeps what passes a test, as the      *)
(* history of the desktop and the ledger of the text turns are read. It is *)
(* a recursive function, one step per element, so that what it yields can  *)
(* be proved.                                                              *)
(***************************************************************************)
EXTENDS Naturals, Sequences

(* The elements of seq that are in set, in their order.                    *)
Chosen(seq, set) ==
  LET kept[n \in 0..Len(seq)] ==
        IF n = 0 THEN <<>>
        ELSE IF seq[n] \in set THEN Append(kept[n - 1], seq[n])
        ELSE kept[n - 1]
  IN kept[Len(seq)]
=============================================================================
