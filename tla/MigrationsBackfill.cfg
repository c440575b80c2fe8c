SPECIFICATION Spec
CONSTANTS
  Nobody = "nobody"
  Person <- MCPerson
  Named <- MCLastNamed
  Padding <- MCPadding
  Minted <- MCMinted
  Count <- MCCount
  Design <- MCDesign
  MaxWrites = 4
  MaxFailures = 0
  MaxDowngrades = 0
PROPERTY BackfillIsExact
