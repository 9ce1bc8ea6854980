--------------------------- MODULE MCDiffWorkflow ---------------------------
(* Instances of DiffWorkflow for TLC: main.py has no directory in its      *)
(* path, lib/core.py has one, test_main.py is a test file.                 *)
EXTENDS DiffWorkflow

CONSTANTS main, core, testmain, ann, bob

MCFile == {main, core, testmain}
MCFlat == {main, testmain}
MCTest == {testmain}
MCProc == {ann, bob}
One    == {ann}

(* What a directory listing finds: every file under its own name, and      *)
(* main.py also in the name of test_main.py.                               *)
Apart  == {<<f, f>> : f \in MCFile}
Inside == Apart \cup {<<main, testmain>>}
=============================================================================
