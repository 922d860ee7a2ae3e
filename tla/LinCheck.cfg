SPECIFICATION Spec
CONSTANTS
    MaxOps = 3
    MaxKeys = 2
    WordBits = 2
INVARIANTS TypeOK ListSound CallsSound Verdict
PROPERTIES Answers
CHECK_DEADLOCK FALSE
