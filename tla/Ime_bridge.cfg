CONSTANTS
  Pieces <- Words
  RemoteText <- There
  NoPreview = NoPreview
  IME_BRIDGE_MAX_LEN = 3
  EndAfterOverflow = FALSE
  MaxText = 6
SPECIFICATION ImeSpec
INVARIANTS ImeTypeOK RemoteIsMeant CompositionIsHarmless
CHECK_DEADLOCK FALSE
