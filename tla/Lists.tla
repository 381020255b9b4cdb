-------------------------------- MODULE Lists --------------------------------
(***************************************************************************)
(* What the code does with its lists, over and over: it goes through one   *)
(* and keeps what belongs to a set, or deletes the first that does.        *)
(***************************************************************************)
EXTENDS Naturals, Sequences

(* The elements of s that are in good, in their order. *)
Keep(s, good) ==
  LET kept[i \in 0..Len(s)] ==
        IF i = 0 THEN <<>>
        ELSE IF s[i] \in good THEN Append(kept[i - 1], s[i]) ELSE kept[i - 1]
  IN  kept[Len(s)]

(* s without its first element that is in bad. *)
DropFirst(s, bad) ==
  LET is == {i \in 1..Len(s) : s[i] \in bad} IN
  IF is = {} THEN s
  ELSE LET first == CHOOSE i \in is : \A j \in is : i <= j IN
       SubSeq(s, 1, first - 1) \o SubSeq(s, first + 1, Len(s))
=============================================================================
