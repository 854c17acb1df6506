SPECIFICATION Spec
CONSTANTS
    c1 = c1
    c2 = c2
    lan = lan
    Conn <- MCConn
    Ip <- MCIp
    IpOf <- MCIpOf
    Private <- MCIp
    RequirePrivateLan = TRUE
    AllowPublicPairing = FALSE
    MaxAttempts = 1
    Window = 1
    MaxRequests <- MCMaxRequests
    MaxTime = 3
    MaxFaults = 1
INVARIANTS OneReplyPerRequest GrantedAsTold AttemptsAreLimited
PROPERTIES RefusedForCause RequestsAreAnswered
CHECK_DEADLOCK FALSE
