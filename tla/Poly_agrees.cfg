\* Degrees 15 to 19 meet every remainder; 101 is a prime above them.
SPECIFICATION PolySpec
CONSTANTS
    P = 101
    MaxDegree = 19
INVARIANT PolyAgrees
CHECK_DEADLOCK FALSE
