----------------------------- MODULE MCSending -----------------------------
(***************************************************************************)
(* Instances of Sending: two days of one month.                            *)
(***************************************************************************)
EXTENDS Sending, TLC

TwoDays == {0, 1}

OneMonth == {0}

Symmetric ==
  Permutations(Quotes) \cup Permutations(Tasks) \cup Permutations(Applications)
    \cup Permutations(Reviews)
=============================================================================
