--------------------------------- MODULE MCFs ---------------------------------
(* A disk of a few blocks.  The directory cuts the name long to cut, which *)
(* no user types.                                                          *)
EXTENDS Fs, TLC

CONSTANTS alpha, beta, long, cut

MCNames == {alpha, beta, long}
MCStored == [n \in MCNames |-> IF n = long THEN cut ELSE n]
MCTexts == {<<1>>, <<2, 2, 2, 2, 2>>}

(* Names that are stored as typed are interchangeable.                     *)
MCSymmetry == Permutations({alpha, beta})

(* docs/RELEASE_v0.9.0.md, "Display file contents": "cat hello.txt" prints *)
(* what "write hello.txt Hello, World!" stored.  So cat shows the contents *)
(* of every file that is no directory.                                     *)
CatShowsFiles ==
  AtPrompt =>
    \A n \in Names :
      (Exists(n) /\ FS_TYPE_FILE \subseteq inodes[Lookup(n)].mode)
        => Cat(n) = [shown |-> TRUE, text |-> ReadFile(Lookup(n))]
=============================================================================
