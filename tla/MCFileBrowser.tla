--------------------------- MODULE MCFileBrowser ---------------------------
(* Instances of FileBrowser for TLC: the project of MCProject. *)
EXTENDS FileBrowser, MCProject
=============================================================================
