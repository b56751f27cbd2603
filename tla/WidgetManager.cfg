\* Two overlapping ops on two widgets, every failure of every connection.
CONSTANTS
  Ops = {o1, o2}
  Widgets = {w1, w2}
  Existing = {w1}
  content = content
  Inputs <- MCInputs
  Filters <- MCFilters
  Unfit = Unfit
  None = None
SPECIFICATION FairSpec
INVARIANTS
  TypeOK
  FormIsOfEdited
  SaveOwnsForm
  ListFollowsFilter
PROPERTIES
  ClosedMeansStored
  PageSettles
