---------------------------- MODULE OverlayStore ----------------------------
(***************************************************************************)
(* What a fork-aware store promises a reader at the head of the chain.     *)
(*                                                                         *)
(* Every key has a final value, which no fork can take back, and a visible *)
(* one.  {} stands for no value.  ForkAwareStore implements this module.   *)
(***************************************************************************)
EXTENDS Functions

CONSTANTS Keys, Values

VARIABLES view, final

Contents == [Keys -> {{}} \cup {{v} : v \in Values}]

Init == view = [k \in Keys |-> {}] /\ final = view

\* Some keys take a new value and the rest keep theirs.  New values may become
\* final at once.
Write ==
    \E batch \in UNION {[D -> Values] : D \in SUBSET Keys} :
        /\ view' = [k \in Keys |-> IF k \in DOMAIN batch THEN {batch[k]} ELSE view[k]]
        /\ \E S \in SUBSET DOMAIN batch :
              final' = [k \in Keys |-> IF k \in S THEN view'[k] ELSE final[k]]

\* Some visible values become final: nothing visible changes.
Finalize ==
    \E S \in SUBSET Keys :
        /\ final' = [k \in Keys |-> IF k \in S THEN view[k] ELSE final[k]]
        /\ UNCHANGED view

\* Some keys fall back to their final value: nothing final changes.
Undo ==
    \E S \in SUBSET Keys :
        /\ view' = [k \in Keys |-> IF k \in S THEN final[k] ELSE view[k]]
        /\ UNCHANGED final

Next == Write \/ Finalize \/ Undo

Spec == Init /\ [][Next]_<<view, final>>
=============================================================================
