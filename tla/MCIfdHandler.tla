----------------------------- MODULE MCIfdHandler -----------------------------
(* Two or three clients at a reader with one slot. *)
EXTENDS IfdHandler, TLC

CONSTANTS s1, s2, s3, u1, u2

TwoSocks == {s1, s2}
ThreeSocks == {s1, s2, s3}
TwoUsers == {u1, u2}
OnlyFirst == {s1}
NobodyFair == {}
OneUser == {u1}

LockCmds == {"LOCK", "UNLOCK", "unknown"}
CurrentCmds == {"LOCK", "TRANSACT"}
CardCmd == {"TRANSACT_OLD"}

\* Clients (and users) are interchangeable where no fairness tells them apart.
Symmetry == Permutations(Socks) \cup Permutations(Uids)
=============================================================================
