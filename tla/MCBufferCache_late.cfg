SPECIFICATION Spec
CONSTANTS
    c1 = c1
    c2 = c2
    c3 = c3
    b1 = b1
    b2 = b2
    b3 = b3
    t1 = t1
    Checksum = {c1}
    Buffer = {b1, b2}
    ContentOf <- OneContent
    Length <- OneLength
    Thread = {t1, t2}
    SoftCap = 0
    MaxRefs = 2
    NoBuffer = NoBuffer
INVARIANT LateBufferPublished
