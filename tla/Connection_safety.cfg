SPECIFICATION Spec
CONSTANTS
    Conn = {c1, c2}
    Talker = {c1}
    Ip = {ip1, ip2}
    NoIp = NoIp
    MaxConnections = 2
    MaxPerIp = 1
    MaxBody = 1
    MaxWrites = 2
INVARIANTS
    TypeOK
    
    ClosedOnce

    
    
