SPECIFICATION FairSpec
CONSTANTS
  s1 = s1  s2 = s2  s3 = s3  k1 = k1  t1 = t1  a1 = a1  a2 = a2
  Sockets = {s1, s2, s3}
  Keys = {k1}
  Tickets = {t1}
  TicketKey <- MCTicketKeyOne
  Expiry <- MCExpiryOne
  Addresses = {a1, a2}
  AddressOf <- MCAddressOf
  MaxConnections = 2
  MaxConnectionsPerIp = 2
  MaxPendingPairs = 1
  MaxConsumedTickets = 1
  MaxTime = 1
  MaxRestarts = 1
  Observed = {"ready"}
  None = None
INVARIANTS Consistent SingleUse
PROPERTIES ReadyTogether PairsSettle
CHECK_DEADLOCK FALSE
