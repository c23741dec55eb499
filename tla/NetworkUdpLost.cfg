CONSTANTS
    c1 = c1
    c2 = c2
    s1 = s1
    s2 = s2
    i1 = i1
    i2 = i2
    h1 = h1
    h2 = h2
    None = None
    Cores = {c1, c2}
    Servers = {s1, s2}
    Ips = {i1, i2}
    Hosts = {h1, h2}
    UserPorts = {5}
    Peers = {h1}
    EPHEMERAL_START = 4
    LastPort = 5
    CLIENT_PORT = 2
    N_RETRIES = 2
    RingSize = 1
    MaxBoots = 2
SPECIFICATION FairSpec
PROPERTY DatagramReachesBind
