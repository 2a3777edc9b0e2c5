CONSTANTS
  server = server
  client = client
  Programs = {server, client}
  KindOf <- Kinds
  Messages <- Statements
  BufferSize = 2
  MaxLines <- Lines
SPECIFICATION Spec
INVARIANTS
  LookupAgrees
  LinesReadable
  DefinedUnlessInterrupted
  FileHasLines
CHECK_DEADLOCK FALSE
