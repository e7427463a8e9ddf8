SPECIFICATION Spec
CONSTANTS
    Memes <- ThreeMemes
    Uploads = {3}
    Ads = {2}
    Loaders = {l}
    Handlers = {h}
    Pipelines = {p}
    Describers = {b}
    Reviewers = {r}
    Posters = {}
    Senders = {}
    MaxBusy = 2
    None = None
INVARIANTS
    LinksFlat
    AdsStayOut
PROPERTIES
    DescribeKeepsACopy
CHECK_DEADLOCK FALSE
