SPECIFICATION Spec
CONSTANTS
    t1 = t1
    t2 = t2
    h1 = h1
    h2 = h2
    x = x
    y = y
    z = z
    None = None
    Broken = Broken
    Tasks = {t1, t2}
    Hosts = {h1, h2}
    Urls = {x, y, z}
    UrlOf <- MCUrlOf
    HostOf <- MCHostOf
    Robots <- MCRobots
    Responses <- MCResponses
    MaxBody = 2
    MaxDecompressed = 4
    MaxRedirects = 1
    Retries = 1
PROPERTY DisallowHonored
