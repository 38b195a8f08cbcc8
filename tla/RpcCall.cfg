CONSTANTS
  Services = {"svc", "other"}
  Methods <- AllMethods
  Servers <- AllServers
  NoServer = NoServer
  Calls = {c1}
  MaxAttempts = 3
SPECIFICATION Spec
INVARIANTS TypeOK InvokedAsCalled SameDescriptorSupported
  RouteOnlyLostByChannelRetry ChannelInvokedOnce TraceNotStale
