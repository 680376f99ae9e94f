---------------------------- MODULE MCSystemFile ----------------------------
(* Two saves of the program and one of another file, in bodies of a few     *)
(* pieces of which some are program and the rest variables.               *)
EXTENDS SystemFile
MCFileOf == [u \in Uploads |-> IF u = "project" THEN "project.txt" ELSE "bytecode.txt"]
=============================================================================
