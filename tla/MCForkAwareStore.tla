-------------------------- MODULE MCForkAwareStore --------------------------
(* Instance of ForkAwareStore for TLC: keys of which none extends another.   *)
EXTENDS ForkAwareStore, TLC

MCExtensions == [k \in Keys |-> {k}]
MCRank == [k \in Keys |-> 0]

=============================================================================
