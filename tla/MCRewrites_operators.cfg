\* Validation, then two rewrites in a row; and up to eight answers of a model,
\* with eight values for the integers that count them.
SPECIFICATION MCSpec
CONSTANTS
    Authored <- MCAuthored
    Skills <- MCSkills
    MaxSteps = 2
    MaxNodes = 6
    Width = 8
    AskedFor = {0, 1, 2, 7}
    Documents <- MCDocuments
INVARIANTS WorkflowsSound AuthorSound
PROPERTY RewritesHonest
\* A rejected workflow is not touched; an outcome is final.
CHECK_DEADLOCK FALSE
