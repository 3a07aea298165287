---------------------------- MODULE MCCartDrafting ----------------------------
(* CartDrafting on small instances.  The editors are interchangeable.       *)
EXTENDS CartDrafting

EditorSymmetry == Permutations(Editors)

=============================================================================
