SPECIFICATION Spec
CONSTANTS
  r1 = r1
  r2 = r2
  Relays = {r1, r2}
  Events = {1, 2}
  MaxFaults = 3
INVARIANTS PublishedWasDelivered CopiesWithinAttempts LatestClaimInForce
PROPERTIES PublishedIsFinal EventuallyPublished ImplementsChannel
