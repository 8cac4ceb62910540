--------------------------- MODULE MCMediaProcess ---------------------------
(***************************************************************************)
(* For TLC: a video of two episodes and one of the first of them, in a     *)
(* folder each; the scheduled processor and a client's.                    *)
(***************************************************************************)
EXTENDS MediaProcess, TLC

CONSTANTS e1, e2, one, both, d1, d2, place1, place2, place12, auto, client

MCOf      == (one :> {e1}) @@ (both :> {e1, e2})
MCFirst   == [eps \in (SUBSET Episodes) \ {{}} |-> IF e1 \in eps THEN e1 ELSE e2]
MCQuality == [f \in Files |-> 1]
MCSize    == (one :> 2) @@ (both :> 1)
MCFolder  == (one :> d1) @@ (both :> d2)
MCNamed   == (place1 :> {e1}) @@ (place2 :> {e2}) @@ (place12 :> {e1, e2})
MCPath    == [f \in Files |-> [eps \in (SUBSET Episodes) \ {{}} |->
                CHOOSE place \in Places : MCNamed[place] = eps]]

Scheduled == [method |-> "move", tidy |-> TRUE, force |-> FALSE, replace |-> FALSE,
              folders |-> {d1, d2}]
ByClient  == {[method |-> "copy", tidy |-> FALSE, force |-> TRUE, replace |-> FALSE,
               folders |-> {d1}]}
MCCalls   == (auto :> {Scheduled}) @@ (client :> ByClient)
=============================================================================
