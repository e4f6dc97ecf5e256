SPECIFICATION Spec
CONSTANT Streams <- MCStreams
INVARIANTS
  TypeOK
  SplitIndependent
PROPERTY Drains
CHECK_DEADLOCK FALSE
