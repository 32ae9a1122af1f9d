SPECIFICATION Spec
CONSTANTS
    Event = {1, 2, 3, 4, 5}
    NoEvent = NoEvent
    k_max_events = 2
    MaxEvents = 5
CHECK_DEADLOCK FALSE
INVARIANTS
    TypeOK
    DeliveredOnceInOrder
    WindowOutlivesRenderThread
PROPERTIES
    IsEventFrames
    CloseReturns
    AcceptedIsHandled
