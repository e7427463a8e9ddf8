SPECIFICATION Spec
CONSTANTS
    Memes <- TwoMemes
    Uploads = {2}
    Ads = {}
    Loaders = {l}
    Handlers = {h}
    Pipelines = {p}
    Describers = {}
    Reviewers = {}
    Posters = {x}
    Senders = {s}
    MaxBusy = 2
    None = None
INVARIANTS
    TypeOK
    MergedNotServed
    ReactionsKept
    LinksSound
CHECK_DEADLOCK FALSE
