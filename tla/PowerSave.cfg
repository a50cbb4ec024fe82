SPECIFICATION Spec
CONSTANTS
    HasSram = TRUE
    MaxProgress = 3
INVARIANT ResumedOnce
PROPERTY SavedStaysSaved
PROPERTY ResumesWhereItSlept
