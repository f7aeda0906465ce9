SPECIFICATION Spec
CONSTANTS
  None = None
  n1 = n1
  n2 = n2
  n3 = n3
  hex = hex
  owner = owner
  word = word
  TextMax = 7
  Settings <- SomeSettings
  Wide = 3
  Default = 10
  Floor = 10
  Ceiling = 12
  MaxChunks = 6
  Punctuation = 1
  PrefixBudget = 7
  MinCapacity = 3
  Radix = 2
  Databases <- SomeDatabases
  Recipients <- TwoRecipients
  DmRadios = 3
  Reads <- OneReads
  Tables <- SomeTables
  Specs <- SomeSpecs
  ChannelRadios = 2
  ObservationMax = 3
  Packets <- SomePackets
  NodeLimit = 2
  HexIds <- TwoHexIds
  Envelopes <- SomeEnvelopes
  Configs <- SomeConfigs
  Words <- OneWord
  Chars <- HostChars
  HostMax = 5
  DigitSet <- OneDigit
  Ports <- SomePorts
  DefaultPort <- NoPort
CHECK_DEADLOCK FALSE
INVARIANTS
  ChunksRight
  TargetsRight
  FreshnessRight
  IntakeRight
  RoundTrip
