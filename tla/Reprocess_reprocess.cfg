SPECIFICATION Spec
CONSTANTS
  message = message
  import = import
  Free = Free
  Executors = {message}
  Activators = {import}
  nMaxBlocks = 2
  nTimeout = 1
  QUEUE = 1
  InitHeight = 3
  MaxHeight = 5
  MaxTime = 2
CHECK_DEADLOCK FALSE
PROPERTIES
  QueueDrains
