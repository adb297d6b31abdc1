CONSTANTS
  DCELL_K = 1
  DCELL_N = 3
  LIMIT = 8
  Sources <- FirstCell
  BadSets <- AnyCrossLinks
  \* a client, and a host that requests, discovers, releases and requests
  Clients = {c1}
  OtherHosts = {h1}
  Count = 2
  Own = 0
  AutoAccept = FALSE
  Opinions <- NoneOrReject
  TotalTimeout = 3
  DiscoverTimeout = 1
  OfferTimeout = 1
  RequestTimeout = 1
  MaxOffers = 2
  MaxFaults = 0
  MaxAsked = 3
SPECIFICATION FailuresSpec
CHECK_DEADLOCK FALSE
INVARIANT AddressesApart
