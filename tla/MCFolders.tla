----------------------------- MODULE MCFolders -----------------------------
(* Folders for TLC.                                                           *)
EXTENDS Folders

Symmetry == Permutations(Threads)

HomeDir == <<"a">>

Tree == {<<>>, HomeDir, <<"a", "b">>}

\* Plain names, one that climbs, and one with a separator.
Typed == {<<"a">>, <<"b">>, <<"..">>, <<"a", "b">>}

=============================================================================
