SPECIFICATION FairSpec
CONSTANTS
  Typed <- MCTyped
  MaxTyped = 5
  BankDigits = 2
  MaxName = 3
  MaxBatch = 11
  Fields <- MCFields
  Width <- MCWidth
INVARIANTS
  TypeOK
  NumbersMeanThemselves
  SearchFindsCard
  DrawnInsideTheBox
  DrawnAsLargeAsCanBe
PROPERTY
  EveryValueIsDrawn
