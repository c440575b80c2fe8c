SPECIFICATION FairSpec
CONSTANTS
  Nobody = "nobody"
  Person <- MCPerson
  Named <- MCNamed
  Padding <- MCPadding
  Minted <- MCMinted
  Count <- MCCount
  Design <- MCDesign
  MaxWrites = 3
  MaxFailures = 1
  MaxDowngrades = 1
INVARIANTS
  TypeOK
  WholeRevisions
  HistoryAccounts
PROPERTIES
  CardsKeepTheirIssuers
  OnlyHalfDoneRaises
  NumbersGoOn
  BackfillTellsLastChange
  RetriesReachLatest
  ImplementsReleases
