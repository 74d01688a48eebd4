\* Any edit of the file, any number of rewrites and restarts.
SPECIFICATION Spec
CONSTANTS
  text = text
  on = on
  ArgNames = {text, on}
  Words = {on}
  NoName = NoName
  NoSchema = NoSchema
  NoEntry = NoEntry
  Entries <- Written
  Confirms <- Lists
INVARIANTS ServedAsAdvertised RewriteKeepsContract
