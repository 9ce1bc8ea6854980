------------------------------- MODULE Lists -------------------------------
(***************************************************************************)
(* Lists the program keeps in an order: what is left of one when members   *)
(* of it are removed.                                                      *)
(***************************************************************************)
EXTENDS Naturals, Sequences

(* kept[n]: of the first n members of the list those not in the set, in    *)
(* their order.                                                            *)
Without(list, set) ==
    LET kept[n \in 0 .. Len(list)] ==
            IF n = 0 THEN <<>>
            ELSE IF list[n] \in set THEN kept[n - 1] ELSE Append(kept[n - 1], list[n])
    IN  kept[Len(list)]
=============================================================================
