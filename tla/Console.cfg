\* A line of three characters, two arguments, a write buffer for two bytes that wraps,
\* a command with a plain task and a schedulable one, the latter also started by main.
CONSTANTS
  con = con
  disp = disp
  cmd = cmd
  app = app
  sub = sub
  Frame = {con, disp, cmd, app, sub}
  Plain = {sub}
  App = App
  NoFrame = NoFrame
  Calls <- MCCalls
  Letter = {"a"}
  Command <- MCCommand
  LineSize = 4
  MaxArgs = 2
  WriteBufferSize = 3
  PrintSize = 4
  ChunkSize = 2
  Message = {4}
  Stamps = 3
SPECIFICATION ConsoleFairSpec
INVARIANTS
  NothingDangles
  ArgumentsAsTyped
PROPERTIES
  OutputInOrder
  ImplementsThreads
  OutputDrains
