\* A write that leaves out a callback is not told to it.
SPECIFICATION Spec
CONSTANTS
    MaxCallbacks = 1
    MaxVersion = 3
CHECK_DEADLOCK FALSE
PROPERTY SuppressedNotTold
