SPECIFICATION Spec
CONSTANTS
    PageSize = 1
    Old = 1
    MaxMessages = 2
PROPERTIES
    LiveMessagesStay
CHECK_DEADLOCK FALSE
