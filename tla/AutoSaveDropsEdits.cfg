CONSTANTS
    MaxEdits = 2
    AnswerIsGrid = TRUE
SPECIFICATION AutoSaveSpec
PROPERTIES
    EditsStayInTheGrid
CHECK_DEADLOCK FALSE
