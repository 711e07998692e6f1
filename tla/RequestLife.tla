---------------------------- MODULE RequestLife ----------------------------
(***************************************************************************)
(* What a collective request promises: while it is in progress its parts   *)
(* end one by one, each once; it is seen as complete when all have ended,  *)
(* and only then can it be posted again.                                   *)
(***************************************************************************)
VARIABLES parts, phase, todo

Init == phase = "ready" /\ todo = {}

Post == /\ phase \in {"ready", "complete"}
        /\ phase' = "active"
        /\ todo' = parts
        /\ UNCHANGED parts

End(x) == /\ phase = "active"
          /\ x \in todo
          /\ todo' = todo \ {x}
          /\ UNCHANGED <<parts, phase>>

Complete == /\ phase = "active"
            /\ todo = {}
            /\ phase' = "complete"
            /\ UNCHANGED <<parts, todo>>

Next == Post \/ (\E x \in parts : End(x)) \/ Complete

Spec == Init /\ [][Next]_<<parts, phase, todo>>
=============================================================================
