----------------------- MODULE MCArtifactPublication -----------------------
(***************************************************************************)
(* Small instances of artifact publication.                                *)
(***************************************************************************)
EXTENDS ArtifactPublication, TLC

FinalizerSymmetry == Permutations(Finalizers)
=============================================================================
