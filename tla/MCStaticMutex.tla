---------------------------- MODULE MCStaticMutex ----------------------------
(***************************************************************************)
(* Instances of StaticMutex for TLC.  Native mutexes are interchangeable,  *)
(* and so are the threads other than Main: no definition tells them apart. *)
(***************************************************************************)
EXTENDS StaticMutex, TLC

MCSymmetry == Permutations(Native) \cup Permutations(Thread \ {Main})
=============================================================================
