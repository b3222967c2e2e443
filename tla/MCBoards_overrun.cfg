SPECIFICATION Spec
CONSTANTS
  Capacity = 28
  Header = 8
  Align = 4
  tick = tick
  rx = rx
  frame = frame
  Events = {tick, rx, frame}
  NoEvent = NoEvent
  TimerCount = 2
  Periods = {0, 2}
  Other = Other
  MaxOther = 1
  ETH_RXBUFNB = 3
  ETH_TXBUFNB = 3
  RX_BUFFER_COUNT = 3
  TX_BUFFER_COUNT = 3
  rx_buffer_count = 2
  tx_buffer_count = 3
  rx_desc_count = 3
  tx_desc_count = 3
  Frames = {f, g}
  NoFrame = NoFrame
  Errors = {"TR"}
  Ports = {1, 2}
  MaxFrames = 1
  Stations = {1}
  Modulus = 512
  PollPeriod = 4
  TickPeriod = 12
  MaxPass = 2
  MaxTime = 250

INVARIANT PushFindsSpace
