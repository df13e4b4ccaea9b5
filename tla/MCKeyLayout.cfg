\* A text that is typed is typed: nothing more happens.
CHECK_DEADLOCK FALSE
SPECIFICATION Spec
CONSTANTS
  Passwords <- MCPasswords
  StrayOutput <- MCStrayOutput
  BeyondTable <- MCBeyondTable
INVARIANTS TypeOK TypedAsStored NoStrayAccent
