--------------------------- MODULE MCManagerQueue ---------------------------
(* Model-checking instances of ManagerQueue: which jobs belong to which    *)
(* chat, and which events each run allows.                                 *)
EXTENDS ManagerQueue, TLC

CONSTANTS a, b, d, home, away

OneChat == {home}
TwoChats == {home, away}
MCThreeJobs == {a, b, d}
AllHome == [j \in MCThreeJobs |-> home]
OneAway == [j \in MCThreeJobs |-> IF j = a THEN away ELSE home]
OnlyD == {d}

Quiet == [k \in Kinds |-> 0]
LaneEvents == ("cancel" :> 1) @@ ("direct" :> 1) @@ ("fail" :> 1) @@ Quiet
BoardEvents == ("edit" :> 2) @@ ("claim" :> 1) @@ ("remove" :> 1) @@ Quiet
WorldEvents == ("direct" :> 1) @@ ("reorder" :> 1) @@ ("crash" :> 1) @@ Quiet
=============================================================================
