\* Both servers, two children for three clients.  Lines of one or two characters,
\* five in all, every way to cut the streams.
SPECIFICATION MCSpec
CONSTANTS
  Client = {a, b, c}
  MaxChildren = 2
  Char = {x, y}
  Garbage = Garbage
  Limit = 3
  MaxTyped = 5
CHECK_DEADLOCK FALSE
PROPERTIES
  NobodyWaitsForAnother
  StreamEnds
  RequestsAnswered
  StreamSpec
  MessagesAnswered
  ChildEnds
