SPECIFICATION Spec
CONSTANTS
  Rows = 8
  Cols = 3
  BlankCell = "_"
  Glyphs <- MCGlyphs
  Letters = {"a", "b"}
  MaxText = 5
  Recalls <- MCRecalls
  Words <- MCWords
  Prompt <- MCPrompt
  Modes <- MCModes
  MaxTop = 2
CHECK_DEADLOCK FALSE
INVARIANTS ScreenShowsLine CursorOnPos AboveUntouched
