\* One device, two handlers, a queue that fills up and goes round; a second fetch
\* may begin while the clean-ups of the first are running.
SPECIFICATION Spec
CONSTANTS
  d1 = d1
  nil = nil
  Elements <- ThreeSamples
  Devices <- OneDevice
  DeviceOf <- SamplesOfOne
  Handlers = {h1, h2}
  Fetchers = {f1}
  Cap = 3
  ChanLength = 1
  MaxFetches = 2
INVARIANTS Consistent SamplesKeepOrder StoredIsSeen
PROPERTY QueueIsFifo
\* The three samples and the two fetches come to an end.
CHECK_DEADLOCK FALSE
