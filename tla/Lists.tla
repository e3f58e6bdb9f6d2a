-------------------------------- MODULE Lists --------------------------------
(* Python's list comprehension with a condition: the elements that are in  *)
(* the set `keep`, in their order.                                          *)
EXTENDS Naturals, Sequences

Kept(list, keep) ==
    LET upTo[n \in 0 .. Len(list)] ==
          IF n = 0 THEN <<>>
          ELSE IF list[n] \in keep THEN Append(upTo[n - 1], list[n])
          ELSE upTo[n - 1]
    IN  upTo[Len(list)]
=============================================================================
