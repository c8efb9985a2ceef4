CONSTANTS
  MAX_PAYLOAD = 20
  MPI_HEADER = 2
  Datatypes = {"MPI_CHAR", "MPI_C_BOOL", "MPI_SHORT", "MPI_INT", "MPI_DOUBLE", "MPI_LONG_DOUBLE"}
  Counts = {1, 2, 3, 4, 8, 15, 16, 17, 18, 19, 35, 36, 37, 54, 55}
  MaxFailures = 2
SPECIFICATION Spec
INVARIANTS
  Delivered
  AllOrNothing
  NotRefused
  WithinBounds
PROPERTIES
  EndsOrAsks
CHECK_DEADLOCK FALSE
