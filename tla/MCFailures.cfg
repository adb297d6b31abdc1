CONSTANTS
  DCELL_K = 1
  DCELL_N = 3
  LIMIT = 8
  Sources <- FirstCell
  BadSets <- AnyCrossLinks
  \* leases: a client and a host that wants one address
  Clients = {c1}
  OtherHosts = {h1}
  Count = 2
  Own = 0
  AutoAccept = FALSE
  Opinions <- NoneOrReject
  TotalTimeout = 3
  DiscoverTimeout = 1
  OfferTimeout = 1
  RequestTimeout = 1
  MaxOffers = 2
  MaxFaults = 1
  MaxAsked = 2
SPECIFICATION FailuresSpec
\* A packet arrives, and a client may have nothing left to do.
CHECK_DEADLOCK FALSE
INVARIANTS GapMeansUnreachable AddressesKept
PROPERTIES DeliveredAroundFailures ClientsFinish
