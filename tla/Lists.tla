------------------------------- MODULE Lists -------------------------------
(***************************************************************************)
(* The lists of the library (sys/queue.h style, used all over server.c and *)
(* event.c) are sequences here.                                            *)
(***************************************************************************)
EXTENDS Naturals, Sequences

(* What is left of a list once the elements that are not in T are unlinked: *)
(* SelectSeq for the test x \in T, as a function that proofs can expand.    *)
Keep(s, T) ==
  LET kept[i \in 0 .. Len(s)] ==
        IF i = 0 THEN <<>>
        ELSE IF s[i] \in T THEN Append(kept[i - 1], s[i]) ELSE kept[i - 1]
  IN kept[Len(s)]
=============================================================================
