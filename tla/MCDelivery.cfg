CONSTANTS
    DJobs = {j1, j2}
    Sections = {a, b}
    Days = {1, 2}
    LastDay = 3
    MaxLessons = 1
    NoTarget = NoTarget
SPECIFICATION DeliverySpec
 
PROPERTY DueIsPublished
CHECK_DEADLOCK FALSE
