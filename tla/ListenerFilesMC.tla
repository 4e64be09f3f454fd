-------------------------- MODULE ListenerFilesMC --------------------------
(* Small instances of ListenerFiles for TLC. *)
EXTENDS ListenerFiles, TLC

CONSTANTS p1, p2, p3, h1, h2, a, b, i1, i2, i3, i4

\* Two listeners of one host session and one of another, and a helper of the
\* first; or a helper of a session that has no listener.
KeysHere == (p1 :> a) @@ (p2 :> a) @@ (p3 :> b) @@ (h1 :> a) @@ (h2 :> b)

InodeSymmetry == Permutations(Inodes)
=============================================================================
