SPECIFICATION FairSpec
CONSTANTS
  i1 = i1  i2 = i2  c1 = c1  c2 = c2  c3 = c3
  NoInstrument = NoInstrument
  Instruments <- MCInstruments
  Channels <- MCChannels
  Dictionary <- MCDictionary
  MaxStarts = 2
  MaxPings = 1
INVARIANTS
  AllAsked
PROPERTIES
  SilenceNoticed
CHECK_DEADLOCK FALSE
