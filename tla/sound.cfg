\* The numbers of the device: nothing is scaled down.  The program ends.
SPECIFICATION MCSpec
CONSTANTS
  InputFrames = 768
  CausticFrames = 256
  QueueSize = 2048
  InRate = 48000
  OutRate = 44100
  NoArray = NoArray
INVARIANTS MicInv LifeInv SoundAfterSetup
PROPERTIES StreamSmooth EveryBufferRecorded LoopsAreEntered LifeGoesOn
CHECK_DEADLOCK FALSE
