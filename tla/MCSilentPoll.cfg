CONSTANTS
  t1 = t1
  t2 = t2
  v1 = v1
  v2 = v2
  p1 = p1
  p2 = p2
  NoPcm = NoPcm
  Nobody = Nobody
  Threads <- MCOne
  Voices <- MCVoices
  Pcms <- MCPcms
  Frames = 2
  MaxRefs = 2
  MaxDepth = 3
  FrameTicks = 2
  Devices = {"silent"}
  Liberties = {}
SPECIFICATION FairSpec
PROPERTIES
  CursorMoves
