\* Every pair of paths of at most four hops over three AS numbers, every pair of
\* prefixes of two families, every attribute of at most four parts and up to two
\* ROAs of each of two prefixes; DNS tests of two resolvers that together can take
\* twice the deadline, sites on both sides of every limit of redirects, up to a
\* hundred of mtr's probes, and nine units of a limiter that refills every two.
SPECIFICATION MCSpec
CONSTANTS
    ASNs = {1, 2, 3}
    MaxLen = 4
    Holders = {1, 2}
    Expiries <- MCExpiries
    Thresholds <- MCThresholds
    MaxROAs = 2
    NoDate = NoDate
    BadDate = BadDate
    Junk = Junk
    Width <- MCWidth
    Values <- MCValues
    MaxResolvers = 2
    Deadline = 3
    Redirects = {0, 1, 2, 3, 10, 11}
    RedirectLimits = {0, 1, 2}
    MaxSent = 100
    MaxProbes = 3
    Numbers = {1, 2}
    MaxHops = 5
    Rate = 2
    Interval = 2
    Burst = 3
    Cutoff = 4
    MaxTime = 9
INVARIANTS
    MismatchIsOrigin
    ExactIsTail
    PrefixesAreSets
    PrependingIgnored
    ExpiriesShown
    DNSVerdict
    HTTPVerdict
    AcceptedCanSucceed
    HopStatistics
    PathsNormalisedAlike
    AdmittedWithinRate
    RefusedOnlyAtRate
CHECK_DEADLOCK FALSE
