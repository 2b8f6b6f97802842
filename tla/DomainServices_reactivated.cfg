SPECIFICATION DsSpec
CONSTANTS
    DomainID = {d1}
    ServiceID = {s1, s2}
    ItemName = {n1, n2}
    EventType = {e}
    EndpointURL <- MCURL
    DsRequest = {q1, q2}
    MaxFanOut = 1
    AllowHTTP = FALSE
    MaxDsCalls = 4
SYMMETRY Symmetry
CHECK_DEADLOCK FALSE
PROPERTIES DisabledStaysDisabled
