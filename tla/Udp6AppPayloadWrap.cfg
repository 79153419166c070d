\* Sizes scaled: header 2, first packet 2, growth 3, ceiling 4, uint32_t
\* as modulo 8.  The third Send wraps m_realSize to 0.
CONSTANTS
  Count = 3
  PacketSize = 2
  Incremental = 3
  HeaderSize = 2
  TxAvailable = 4
  SizeModulus = 8
  ServerRcvBuf = 4
SPECIFICATION Spec
\* The simulation ends when no event is pending.
CHECK_DEADLOCK FALSE
INVARIANT PayloadNotWrapped
