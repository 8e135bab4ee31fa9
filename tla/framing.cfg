SPECIFICATION FramingFairSpec
CONSTANTS
    Writers = {1, 2}
    Frames <- TestFrames
    HeaderLen = 2
    CrcLen = 1
    MaxPayload = 2
    ReadSize = 3
    WireCapacity = 4
    MaxFrames = 3
INVARIANTS
    FramingTypeOK
    DeliveredInOrder
    ReceiveAgreesWithDecode
    OverflowNeedsLargeFrame
PROPERTIES
    MalformedSticks
    WrittenIsDelivered
CHECK_DEADLOCK FALSE
