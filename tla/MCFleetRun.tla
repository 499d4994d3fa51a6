----------------------------- MODULE MCFleetRun -----------------------------
(* Model-checking instances of FleetRun: the steering messages are what    *)
(* the user may say and the notifications the fleet may post.              *)
EXTENDS FleetRun

CONSTANTS hello, redirect, a, b

MCUserMessages == {hello, redirect}
MCOneMessage == {redirect}
MCRedirections == {redirect}
MCTwoTasks == {a, b}
MCOneTask == {a}
MCMessagesTwoTasks == MCOneMessage \cup (MCTwoTasks \X (1..2))
MCMessagesOneTask == MCUserMessages \cup (MCOneTask \X (1..3))
=============================================================================
