-------------------------- MODULE MCMultiFileEdit --------------------------
(* Instantiates the editor with three server files: one file can be        *)
(* selected while another is dirty or mirrored, and generateLinks' stripe  *)
(* toggle runs both of its branches (rows 1 and 2).  Pages with fewer      *)
(* files, down to the empty (sentinel) page, are reached too.              *)
EXTENDS MultiFileEdit, TLC

CONSTANTS p1, p2, p3

MCPaths == {p1, p2, p3}

MCMaxVersion == 2

\* Nothing in the widget tells one path from another.
Symmetry == Permutations(MCPaths)
=============================================================================
