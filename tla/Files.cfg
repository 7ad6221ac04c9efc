SPECIFICATION MCLiveSpec
CONSTANTS
  Clients = {"c1", "c2"}
  Paths = {"p", "q"}
  Backends = {"local", "ssh", "node"}
  Kinds = {"save", "run", "form", "stream", "create", "rename", "delete", "collect",
           "archive", "zip"}
  Troubles = 1
INVARIANTS
  TypeOK
  NoLostSave
  NoClobber
  NothingHalfDone
  AnswerIsTrue
PROPERTIES
  RequestsEnd
CHECK_DEADLOCK FALSE
