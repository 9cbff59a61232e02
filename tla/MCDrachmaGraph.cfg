\* Invocations of the program on one wallet, killed and interleaved with edits.
SPECIFICATION Spec
CONSTANTS
  NoArg = NoArg
  Word = Word
  NoDocument = NoDocument
  NaN = NaN
  GarbageSpeeds <- MCGarbageSpeeds
  UShortRange = 8
  UIntRange = 32
  SizeRange = 64
  FileNames <- MCFileNames
  Contents <- MCContents
  Absent = Absent
  LinesOf <- MCLinesOf
  DocumentOf <- MCDocumentOf
  IsGraph <- MCIsGraph
  Commands <- MCCommands
  NoFile = NoFile
  MayContain <- MCMayContain
  Wallets <- MCWallets
  InitialDisk <- MCInitialDisk
  NoDevice = NoDevice
  NoListing = NoListing
  MaxLines = 3
INVARIANT AcceptedGraphLoads
