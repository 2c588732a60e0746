\* The first use of the mutex precedes the other threads, or any may meet it.
CONSTANTS
  Thread = {main, t1, t2}
  NoThread = none
  Main = main
  Native = {m1, m2, m3}
  MaxDepth = 2
SPECIFICATION Spec
INVARIANTS MutualExclusion NeverWaitsForItself RaceHeals
PROPERTIES KeepsPromise
SYMMETRY MCSymmetry
