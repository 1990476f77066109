----------------------------- MODULE MCFilesPage -----------------------------
\* Instances of FilesPage for TLC.
EXTENDS FilesPage, TLC
CONSTANTS f1, f2, p1, p2
MCHome == (f1 :> p1) @@ (f2 :> p2)
=============================================================================
