CONSTANTS
  c1 = c1
  c2 = c2
  sdn = sdn
  relay = relay
  incoming = incoming
  plain = plain
  proxy = proxy
  second = second
  Conn = {c1, c2}
  Endpoint = {sdn, relay, incoming, plain, proxy, second}
  NodeId = {"s", "r", "p"}
  Ip = {"a", "b"}
  ConnectionType <- MCConnectionType
  NoConn = NoConn
  NoId = NoId
  IpOf <- MCIpOf
  Outbound <- MCOutbound
  CommandLine = {sdn}
  Networks <- MCNetworks
  PeerOf <- MCPeerOf
  AuthType <- MCAuthType
  BuildType <- MCBuildType
  IsSsl <- MCIsSsl
  SDN <- MCSDN
  RELAY_PROXY <- MCProxy
  MAX_CONNECT_RETRIES = 1
  MAX_BAD_MESSAGES = 1
  RetryCap = 1
  MaxAlarms = 1
SPECIFICATION Spec
SYMMETRY Symmetry
INVARIANTS TypeOK IndexesAgree MarksAreLive AlarmsOwned
