CONSTANTS
    Events = {e1}
    Passes = {i1, i2}
    MaxAttempts = 2
    MaxRestarts = 0
    StatusCodes = {200, 404, 429}
SPECIFICATION FairDeliverySpec
PROPERTIES
    DeliveredStays
CHECK_DEADLOCK FALSE
