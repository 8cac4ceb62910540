------------------------- MODULE MCFailedDownloads -------------------------
(***************************************************************************)
(* For TLC: a release of two episodes that two providers offer, and one of *)
(* the first episode alone.                                                *)
(***************************************************************************)
EXTENDS FailedDownloads, TLC

CONSTANTS e1, e2, p1, p2, x, rel, relx, north, south, west

MCEpsOf    == (p1 :> {e1, e2}) @@ (p2 :> {e1, e2}) @@ (x :> {e1})
MCRelease  == (p1 :> rel) @@ (p2 :> rel) @@ (x :> relx)
MCProvider == (p1 :> north) @@ (p2 :> south) @@ (x :> west)
MCSize     == [o \in Offer |-> 1]

\* p1 and p2 differ in name only
Twins == Permutations({p1, p2})
=============================================================================
