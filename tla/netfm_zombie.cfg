SPECIFICATION FairSpec
CONSTANTS
  Ctl = {u1}
  Mon = mon
  Aud = aud
  Free = free
  MaxStart = 2
  RingCap = 1
  Dec = {d1, d2}
  Inputs = {"mp3"}
  Codecs = {aac}
  NoCodec = noCodec
PROPERTY
  DecoderWindsDown
