--------------------------- MODULE MCAtomicWrite ---------------------------
(* AtomicWrite for TLC.                                                    *)
EXTENDS AtomicWrite, TLC

CONSTANTS w1, w2, w3, p1, p2

\* Two threads of the server and the command line.
MCWriters == {w1, w2, w3}
MCProcess == w1 :> p1 @@ w2 :> p1 @@ w3 :> p2

\* Inodes are interchangeable.
Symmetry == Permutations(Inodes)

\* Two threads of the server.
TwoThreads == {w1, w2}
SameProcess == w1 :> p1 @@ w2 :> p1
=============================================================================
