CONSTANTS
  Exact <- MCExact
  Entity = "file"
  Columns <- MCColumns
  Eager <- MCEager
  Strings <- MCStrings
  EnumLists <- MCEnumLists
  DateRanges <- MCDateRanges
  IntRanges <- MCIntRanges
  AndFields = 1
  OrFields = 2
  NestedFields = 1
  Base <- MCBase
  Row <- MCRow
  Contains <- MCContains
  None = None
  doc = doc
  image = image
SPECIFICATION Spec
INVARIANT FindsWhatIsAsked
CHECK_DEADLOCK FALSE
