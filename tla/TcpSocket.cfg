\* Two connections, so that an old one can linger while a new one is used; a
\* reply of up to three bytes that lwip takes two at a time.  Once the
\* processor has been reset nothing more happens.
SPECIFICATION FairSpec
CONSTANTS
  Conn = {c0, c1}
  SndBuf = 2
  BufferSize = 3
  UnackedBound = 2
INVARIANTS PcbAlive SendingDriven InOrder
PROPERTIES RequestsEnd BridgeForwardsOrStuck
CHECK_DEADLOCK FALSE
