\* Every task over five descriptors that names descriptor 0, files, both ends
\* of a pipe and aliases: four of them always have room to be moved, five do not.
SPECIFICATION Spec
CONSTANTS
  MaxFd = 8
  Targets = {0, 1, 2, 3, 4}
  Always = {0}
  NPipes = 1
INVARIANTS
  TypeOK
  NoStreamLost
  StreamsArrive
  SetUpSucceeds
