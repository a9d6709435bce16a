-------------------------- MODULE MCApplyTransaction --------------------------
(***************************************************************************)
(* What ends and what is answered, checked on inputs that TLC can hold:    *)
(* one apply beside a disconnect and a network reset, or two deliveries.   *)
(***************************************************************************)
EXTENDS ApplyTransaction

\* The second delivery comes only where neither a disconnect nor a reset does.
InputsApart == cuts + nets = 0 \/ \A d \in Deliveries \ {1} : aPc[d] = "new"

SettlesSpec ==
    /\ ApplyInit
    /\ [][ApplyNext /\ InputsApart']_allVars
    /\ ApplyFairness
===============================================================================
