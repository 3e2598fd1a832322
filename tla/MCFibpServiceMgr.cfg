SPECIFICATION FairSpec
CONSTANTS
  Names <- MCNames
  Clusters <- MCClusters
  Dev <- MCDev
  ServiceType <- MCServiceType
  Answers <- MCAnswers
  Consuls = 2
  MaxEvents = 3
INVARIANTS
  AddressesFollow

  
