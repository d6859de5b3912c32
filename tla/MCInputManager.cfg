\* The poller's choice among overlapping chords.
CONSTANTS
    Keys <- MCKeys
    Buttons <- MCButtons
    Binds <- MCBinds
SPECIFICATION Spec
PROPERTY SendsSpecInput
