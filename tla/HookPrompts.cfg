\* Two calls of one turn: one of the main thread, one of the main thread or of a
\* subagent, whose input a hook rewrites after its PreToolUse.
SPECIFICATION Spec
CONSTANTS
  c1 = c1
  c2 = c2
  a1 = a1
  Main = Main
  NoCall = NoCall
  Calls = {c1, c2}
  Makers <- MCMakers
  PreKey <- MCPreKey
  AskKey <- MCAskKey
  MaxTurns = 1
INVARIANTS
  OnlyOver
  EndedIsWithdrawn
  EdgeIsKept
  InterruptIsMet
CHECK_DEADLOCK FALSE
