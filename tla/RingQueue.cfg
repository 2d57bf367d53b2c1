\* Two byte values, so that the order of bytes shows; four slots, so that
\* both indices wrap around in every fill state.
SPECIFICATION RingSpec
CONSTANTS
  Byte = {b0, b1}
  Size = 4
PROPERTY
  ImplementsFifo
