SPECIFICATION AnnounceSpec
CONSTANTS
    Owners = {o1, o2}
    NoOwner = NoOwner
    RepoNames = {n1, n2, n3}
    Handlers = {h1, h2}
    MaxRepos = 1
    MaxAnnouncements = 3
PROPERTIES
    ReleaseIsSafe
CHECK_DEADLOCK FALSE
