---- MODULE MCFileViews ----
EXTENDS FileViews

CONSTANTS A, B

\* One file that A has created and everybody has received.
OneFile == {[NewVersion(A, 1, <<1>>, 0, MainPath) EXCEPT !.seq = 1]}

Empty    == {{}}
NotEmpty == {OneFile}
Either   == {{}, OneFile}
====
