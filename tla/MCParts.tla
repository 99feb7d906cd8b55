------------------------------- MODULE MCParts -------------------------------
(* The instance of the parts that do not act on each other, which TLC checks
   side by side. *)
EXTENDS Parts, TLC

\* Certificates are checked, or not; there is no timeout, or there are retries.
MCOptions ==
    {[verifyCA |-> v, timeout |-> t, retry |-> r] :
        <<v, t, r>> \in {<<TRUE, TRUE, FALSE>>, <<FALSE, TRUE, FALSE>>,
                         <<TRUE, FALSE, FALSE>>, <<TRUE, TRUE, TRUE>>}}

MCShapes == {<<>>, <<10>>, <<40, 10>>}

SlotSymmetry == Permutations(Slots)
=============================================================================
