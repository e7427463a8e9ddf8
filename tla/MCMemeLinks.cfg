SPECIFICATION Spec
CONSTANTS
    Memes <- TwoMemes
    Uploads = {}
    Ads = {}
    Loaders = {l}
    Handlers = {}
    Pipelines = {p}
    Describers = {}
    Reviewers = {}
    Posters = {x}
    Senders = {s}
    MaxBusy = 2
    None = None
INVARIANTS
    NoOppositeLinks
CHECK_DEADLOCK FALSE
