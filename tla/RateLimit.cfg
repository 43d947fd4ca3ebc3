\* Two actions, a default limit of two calls in a window.
SPECIFICATION LimitSpec
CONSTANTS
    Actions = {"content_generation", "image_generation"}
    ActionLimit = 1
    DefaultLimit = 2
INVARIANTS
    CallsWithinLimit
