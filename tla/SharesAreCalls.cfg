SPECIFICATION PerformanceSpec
CONSTANTS
  main = main
  owner = owner
  w1 = w1
  w2 = w2
  Nobody = nobody
  Main = main
  Owner = owner
  Thread <- MCThread
  Caller <- MCCaller
  Workers <- MCWorkers
  FileMode <- MCFileMode
  ClientModes <- MCClientModes
  Calls <- MCCalls
  Arguments <- MCArguments
  MaxCalls = 3
  MaxClients = 8
  Times = {1}
INVARIANT SharesAreCalls
CHECK_DEADLOCK FALSE
