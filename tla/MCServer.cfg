CONSTANTS
  udp = udp
  tcp = tcp
  http = http
  q1 = q1
  q2 = q2
  q3 = q3
  LogChanCap = 1
  BulkSize = 2
  Queries = {q1, q2, q3}
  DnsServers <- MCDnsServers
  Http = http
  Via <- MCVia
SPECIFICATION ServerFairSpec
INVARIANTS
  LogAccounted
  StopsGracefully

  
  
CHECK_DEADLOCK FALSE
