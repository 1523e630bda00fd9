CONSTANTS
  EXIT_SUCCESS = 0
  EXIT_FAILURE = 1

SPECIFICATION Spec
INVARIANT NoUninitialisedDelete
