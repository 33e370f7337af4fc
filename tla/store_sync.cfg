SPECIFICATION Spec
CONSTANTS
    Edits = {a1, a2}
    OtherEdits = {o1}
    Clash = {a2, o1}
    Writers = {server, cli}
    Background = {server}
    None = none
    MaxFaults = 1
    MaxRewrites = 1
INVARIANTS NoEditLost PayloadGone
PROPERTY Published
