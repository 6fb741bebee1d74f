CONSTANTS
  t1 = t1
  t2 = t2
  v1 = v1
  v2 = v2
  p1 = p1
  p2 = p2
  NoPcm = NoPcm
  Nobody = Nobody
  Threads <- MCThreads
  Voices <- MCVoices
  Pcms <- MCPcms
  Frames = 2
  MaxRefs = 2
  MaxDepth = 3
  FrameTicks = 1
  Devices = {"stream"}
  Liberties = {}
SPECIFICATION Spec
INVARIANT HolderGetsTurn
CHECK_DEADLOCK FALSE
