CONSTANTS
  MaxBackoff = 2
  MaxLost = 0
  Inbound <- MCInbound
  Outbound <- MCOutbound
  Configs <- MCConfigs
SPECIFICATION Spec
INVARIANTS
  ByeOnShutdown
