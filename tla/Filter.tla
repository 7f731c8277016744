------------------------------- MODULE Filter -------------------------------
(***************************************************************************)
(* The loop that the scans of a table, the cache and the client library    *)
(* share: go through a sequence and append what passes a test to a second. *)
(***************************************************************************)
EXTENDS Naturals, Sequences

(* The elements of s at the positions I, in order.                         *)
Kept(s, I) ==
  LET upto[n \in 0..Len(s)] ==
        IF n = 0 THEN <<>>
        ELSE IF n \in I THEN Append(upto[n - 1], s[n]) ELSE upto[n - 1]
  IN  upto[Len(s)]
=============================================================================
