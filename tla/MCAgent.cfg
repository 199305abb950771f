CONSTANTS
  MaxBackoff = 2
  MaxLost = 0
  Inbound <- MCInbound
  Outbound <- MCOutbound
  Configs <- MCConfigs
SPECIFICATION FairSpec
INVARIANTS
  TypeOK
  NothingLeftOpen
  ConversationReported
PROPERTIES
  CallsWindDown
