SPECIFICATION Spec
CONSTANTS
    small1 = small1
    small2 = small2
    large = large
    Elements = {small1, small2, large}
    Marked = {small2}
    Bytes <- Sizes
    Entries = 2
    MaxBytes = 2
    Budget = 3
    Candidates = {private, public, openrouter}
    Public = {public, openrouter}
    Decorating = {openrouter}
    Caching = {openrouter}
    PrivateModel = private
    MaxRetries = 1
INVARIANTS EgressDecorated
