SPECIFICATION Spec
CONSTANTS
  h1 = h1
  h2 = h2
  d1 = d1
  small = small
  large = large
  Host = {h1, h2}
  DraftIds = {d1}
  Dims = {small, large}
  Created = small
  None = None
  Operations = {"historical-edit"}
  MaxLog = 5
SYMMETRY MCSymmetry
INVARIANTS
  DraftsAreFaithful
  EventsFollowTheirBase
  BrepIsOfTheRevision
