------------------------------- MODULE MCTree -------------------------------
(* Instances of TreeRestore for TLC: a directory with a file and a         *)
(* directory that holds a file of its own.                                 *)
EXTENDS TreeRestore

CONSTANTS top, sub, f, g

MCParent == [n \in {f, g, sub} |-> IF n = g THEN sub ELSE top]

\* Every name is valid UTF-8: each node has a place of its own.
MCPlace == [n \in Nodes |-> n]

\* An empty file and one that takes two reads or three.
MCContents == {<<>>, <<0, 1, 0>>}

\* A file that may not be written again, or a directory that may not be filled.
MCModes == {{g}, {top}}

\* Nothing, or another chunk that is stored.
MCRot == {Garbled, <<0>>}

MCEarlier == {<<0>>}

=============================================================================
