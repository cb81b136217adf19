\* The values set in the source and those commented out: only with both of the
\* longer ones does the buffer grow.
CONSTANTS
    GROW_SIZE = 1024
    ConnectionSizes = {28, 110}
    ClientExeSizes = {0, 92}
    MemSize = 983071
SPECIFICATION Spec
INVARIANTS TypeOK InAllocation RoundTrip
CHECK_DEADLOCK FALSE
