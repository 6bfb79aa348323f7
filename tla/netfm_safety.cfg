\* Two users who start and stop, two streams, two decoders that may overlap.
SPECIFICATION Spec
CONSTANTS
  Ctl = {u1, u2}
  Mon = mon
  Aud = aud
  Free = free
  MaxStart = 2
  RingCap = 1
  Dec = {d1, d2}
  Inputs = {"mp3", "hls"}
  Codecs = {aac}
  NoCodec = noCodec
SYMMETRY Symmetry
INVARIANTS
  ControlSound
  RingIsCurrent
  NoLostWakeup
  MonitorDuties
  DecoderClaimed
