SPECIFICATION EvictSpec
CONSTANTS
    c1 = c1
    c2 = c2
    c3 = c3
    b1 = b1
    b2 = b2
    b3 = b3
    t1 = t1
    Checksum = {c1, c2, c3}
    Buffer = {b1, b2, b3}
    ContentOf <- ThreeContent
    Length <- ThreeLength
    Thread = {t1}
    SoftCap = 1
    MaxRefs = 1
    NoBuffer = NoBuffer
PROPERTY
    PressureRelieved
