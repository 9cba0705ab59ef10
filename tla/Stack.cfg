CONSTANTS
    NULL = NULL
    otherlladdr = gw
    LinkLocal = {gw, ll}
    Global = {c}
    Mac = {m1, m2}
    Drivers = {"tun", "tap", "tap_bsd", "uml_sw", "802ip"}
    PacketLen = {60, 1280}
    MaxHanded = 3
SPECIFICATION Spec
INVARIANTS TypeOK InOrder WaitsForAnswer FramesAddressed HeadersFit SegmentsWhole
SYMMETRY MCSymmetry
