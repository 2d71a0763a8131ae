----------------------------- MODULE MapValues -----------------------------
(***************************************************************************)
(* What Chain.State promises its users: every handle is a value.  A clone  *)
(* starts as a copy and then lives alone, a locked handle keeps its value, *)
(* a write changes the handle it names and no other.                       *)
(***************************************************************************)
CONSTANTS Map, Val, Empty, Missing

VARIABLES val, frozen

vars == <<val, frozen>>

Init ==
    /\ val = [m \in Map |-> Missing]
    /\ frozen = [m \in Map |-> FALSE]

Create(m, v) ==
    /\ val[m] = Missing
    /\ val' = [val EXCEPT ![m] = v]
    /\ frozen' = [frozen EXCEPT ![m] = FALSE]

New(m) == Create(m, Empty)

Clone(m, new) == val[m] # Missing /\ Create(new, val[m])

Write(m, v) ==
    /\ val[m] # Missing
    /\ ~frozen[m]
    /\ val' = [val EXCEPT ![m] = v]
    /\ UNCHANGED frozen

Lock(m) ==
    /\ val[m] # Missing
    /\ frozen' = [frozen EXCEPT ![m] = TRUE]
    /\ UNCHANGED val

Drop(m) ==
    /\ val[m] # Missing
    /\ val' = [val EXCEPT ![m] = Missing]
    /\ frozen' = [frozen EXCEPT ![m] = FALSE]

Next ==
    \E m \in Map :
        \/ New(m)
        \/ \E new \in Map : Clone(m, new)
        \/ \E v \in Val : Write(m, v)
        \/ Lock(m)
        \/ Drop(m)

Spec == Init /\ [][Next]_vars
=============================================================================
