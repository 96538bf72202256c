------------------------------ MODULE MCEntities ------------------------------
(***************************************************************************)
(* Entities on a small instance.  What builds do meets the components only *)
(* in DeleteImage, so one instance serves both: two components, or two     *)
(* builds, or one of each.  States with more are checked but not explored. *)
(***************************************************************************)
EXTENDS Entities, Naturals, TLC

Symmetry == Permutations(Component) \cup Permutations(Build)

FewAtOnce ==
    Cardinality({b \in Build : builds[b] # Idle})
        + Cardinality({c \in Component : findComponent(c)}) =< 2

===============================================================================
