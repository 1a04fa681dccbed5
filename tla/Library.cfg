SPECIFICATION LibrarySpec
CONSTANTS
  p1 = p1
  p2 = p2
  q1 = q1
  q2 = q2
  prompt = prompt
  snippet = snippet
  Ids = {q1, q2}
  Types = {prompt, snippet}
  Writers = {p1, p2}
  MaxCommits = 2
  BrokenKinds = {"invalid_metadata"}
  MaxErrors = 1
  Isolates = {p1, p2}
  Clients = {q1, q2}
  Freshness = 1
  MaxTime = 1
  MaxCommit = 2
  MaxFaults = 1
SYMMETRY LibrarySymmetry
INVARIANTS
  
  AnswersAreFresh
PROPERTIES
  ImplementsLibrary
CHECK_DEADLOCK FALSE
