\* Two items, two attempts; one public and one private address.
SPECIFICATION Spec
CONSTANTS
    p1 = p1
    q1 = q1
    MaxItems = 2
    MaxAttempts = 2
    Cap = 2
    Public <- MCPublic
    Private <- MCPrivate
INVARIANT CallsSound
PROPERTIES SentAsChecked CallsEnd
\* An execution that is over is over.
CHECK_DEADLOCK FALSE
