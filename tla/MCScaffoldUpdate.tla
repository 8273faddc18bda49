-------------------------- MODULE MCScaffoldUpdate --------------------------
(* Instance of ScaffoldUpdate for TLC.  Texts are interchangeable, and so  *)
(* are the files of the tree.                                              *)
EXTENDS ScaffoldUpdate, TLC

UpdateSymmetry == Permutations(Texts) \union Permutations(TreeFiles)
=============================================================================
