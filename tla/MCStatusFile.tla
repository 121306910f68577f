----------------------------- MODULE MCStatusFile -----------------------------
(* Three runs of ifdhandler over a table of two records. *)
EXTENDS StatusFile, TLC

CONSTANTS h1, h2, h3

ThreeStarts == {h1, h2, h3}

BeforeFork == {"link", "scan", "unlock", "reserve", "fork"}

=============================================================================
