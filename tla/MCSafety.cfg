SPECIFICATION Spec
CONSTANTS
  Senders = {p, q}
  Channels = {c, d}
  Sizes = {0, 2, 3}
  Messages = 3
  ClientMax = 0
  ServerMax = 10
  Buffer = 1
  MaxPublished = 4
  ClientHeartbeat = 0
  ServerHeartbeat = 5
  DialDeadline = 30
  MaxGap = 14
  Leader = "leader"
  Offspring = {"tmux: server"}
  Spaced = {"tmux: server"}
  Samplers = {router, ticker}
  MaxWork = 1
  MaxSamples = 3
  Strings = {"uri"}
  Parsed = {"timeout", "version", "debug", "nowarn"}
  Pipes = {u, v}
  WriteRates = {2, 4}
  WriteLens = {3}
  ReadRates = {4}
  ReadLens = {1, 3}
  Batches = 2
  Resolution = 1
  Urls <- MCUrls
  Later <- MCLater
  Configs <- MCConfigs
  Hosts <- MCHosts
  Replaced = {"redhat-release", "oracle-release", "SuSE-release", "debian_version", "lsb-release"}
SYMMETRY Symmetric
INVARIANTS
  MessagesArrive ConfirmsHold HeartbeatHolds  CommandLineOverrides RateKept  HostDescribed
