CONSTANT Lines <- MCLines
SPECIFICATION Spec
PROPERTY VersionParsed
CHECK_DEADLOCK FALSE
