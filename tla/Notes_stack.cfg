SPECIFICATION NotesFairSpec
CONSTANTS
  Codes = {main, handler}
  Handler = handler
  SysFlags = {user, raised}
  UserFlags = user
  NNOTE = 2
  MaxNotes = 3
  NoFrame = NoFrame
  Gone = Gone
INVARIANT NotesTypeOK
PROPERTIES IsNoteStack NotesAreDelivered
CHECK_DEADLOCK FALSE
