SPECIFICATION CatalogFairSpec
CONSTANTS
  RecheckTTL = 2
  Askers <- MCAskers
  Models <- MCModels
PROPERTY OneRecheckPerTTL
PROPERTY RecheckComes
