\* main.go's promise about late Go calls, against the code.
SPECIFICATION Spec
CONSTANT Handler = {h1}
INVARIANT NoTaskWithoutDb
CHECK_DEADLOCK FALSE
