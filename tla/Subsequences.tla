---------------------------- MODULE Subsequences ----------------------------
(***************************************************************************)
(* The subsequence of s whose elements are in a set: what a loop over s    *)
(* leaves that skips the others.  It is SelectSeq with a set in the place  *)
(* of the test, written as a recursive function so that the provers can    *)
(* reason about it.                                                        *)
(***************************************************************************)
EXTENDS Naturals, Sequences

Only(s, S) ==
  LET upTo[k \in 0 .. Len(s)] ==
        IF k = 0 THEN <<>>
        ELSE IF s[k] \in S THEN Append(upTo[k - 1], s[k])
        ELSE upTo[k - 1]
  IN  upTo[Len(s)]
=============================================================================
