SPECIFICATION ServiceSpec
CONSTANTS
  Cases <- MCCases
  GlobalParams <- MCGlobalParams
  LocalParams <- MCLocalParams
  Daemons <- MCDaemons
  Conns <- MCConns
  Scenarios <- MCScenarios
  Configs <- MCConfigs
  Addresses <- MCAddresses
  MaxFail = 1
INVARIANTS
  
  OneDaemon
  
  
CHECK_DEADLOCK FALSE
