SPECIFICATION Spec
CHECK_DEADLOCK FALSE
CONSTANTS
  Ids = {"a", "b", "c"}
  Variants <- MCVariants
  Subject = "16 Pro 256"
  Pages <- MCPages
  Limit = 2
  OtherSamples <- MCOtherSamples
  MaxCollections = 2
  Prices = {4, 9, 10, 11, 40}
  MinSample = 3
  MinFiltered = 8
  Liquidity <- MCLiquidity
  Fee = 12
INVARIANTS
  Polite
  ValuedFromThree
  HighIsAThirdOff
