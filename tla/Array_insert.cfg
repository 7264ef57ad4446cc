CONSTANTS
  IsString = FALSE
  Item = {"a", "b"}
  Given = {}
  MaxItems = 3
  Capacities = {0, 2}
  Anywhere = TRUE
SPECIFICATION Spec
PROPERTY ItemsFollow
CHECK_DEADLOCK FALSE
