\* One call of a handler that derives clients and contexts from one another and
\* scribbles over every slice it is handed.
CONSTANTS
  read = read  edit = edit  star = star  blank = blank
  Grants = {read, edit, star}
  Star = star
  Blank = blank
  Arguments <- Passed
  Ink = {read}
  MaxArrays = 6
SPECIFICATION Spec
INVARIANTS TypeOK PermissionsAgree
PROPERTIES ImplementsSelections
\* The handler returns, with its clients and contexts as they are.
CHECK_DEADLOCK FALSE
