\* One user, one stream of either kind.
SPECIFICATION FairSpec
CONSTANTS
  Ctl = {u1}
  Mon = mon
  Aud = aud
  Free = free
  MaxStart = 1
  RingCap = 1
  Dec = {d1}
  Inputs = {"mp3", "hls"}
  Codecs = {aac}
  NoCodec = noCodec
PROPERTIES
  WorkerEnds
  BringUpHappens
  TakeoverCompletes
