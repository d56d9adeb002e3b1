---------------------------- MODULE MCTurnRecovery ----------------------------
(***************************************************************************)
(* An instance of TurnRecovery: an edit of two files, another edit of      *)
(* them, and a parallel batch of two reads, each in a turn of its own, and *)
(* a turn without tools that finds what the batch has left.                *)
(***************************************************************************)
EXTENDS TurnRecovery, TLC

CONSTANTS module, notes

EditTurnOf == <<1, 2, 3, 3>>
EditFilesOf == <<{module, notes}, {module, notes}, {}, {}>>

\* Both edits are of both files, and nothing tells the files apart.
FileSymmetry == Permutations(File)

\* The reads edit no file: the last turns are explored only where the
\* turns before them edited none.
Apart ==
  journal[3] # "none" =>
    \A c \in {1, 2} : ~calls[c].asked /\ c \notin acted
                     /\ \A h \in File : marks[c][h].at = "none"
==============================================================================
