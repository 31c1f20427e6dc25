---------------------------- MODULE MCMemoryStore ----------------------------
(* Two identity anchors for a core of one, and a pet, which is told in words *)
(* near those for home: one anchor fills the cap, and an ingest of the two   *)
(* other facts overflows it. Two threads ingest at the same time.            *)
EXTENDS MemoryStore, TLC

CONSTANTS job, home, pet

MCSimilar == {<<home, pet>>}
ThreadSymmetry == Permutations(Threads)
=============================================================================
