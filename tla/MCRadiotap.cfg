SPECIFICATION Spec
CONSTANT Header <- MCHeader
INVARIANTS WalkTypeOK ReadInPlace ReadsAllItCan OwnHeaderUnderstood
CHECK_DEADLOCK FALSE
