SPECIFICATION Spec
CONSTANT Header <- MCExtended
INVARIANT ExtendedWordsRead
CHECK_DEADLOCK FALSE
