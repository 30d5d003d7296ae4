SPECIFICATION Spec
CONSTANTS
  Classes = {"ArrayList"}
  NElems = 2
  NVars = 1
  Word = 16
  Indices = {0, 1}
  Arrays <- Pairs
  MaxShort = 2
  MaxLen = 2
  MaxShared = 2
  InBounds <- Buildable
  Measure <- MeasureTreeListSize
  MEmpty = 0
  MAppend <- Sum
  MKids <- NoKids
  Pred <- PredTreeListSize
  fromArray <- vtable_fromArray
  concat <- vtable_concat
  mappend <- pfds_mappend
  pushFront <- pfds_sequence_pushFront
  pushBack <- pfds_sequence_pushBack
  popFront <- DefaultPopFront
  popBack <- DefaultPopBack
  split <- pfds_sequence_split
  reverse <- pfds_sequence_reverse
  insertBefore <- pfds_sequence_insertBefore
  insertAfter <- DefaultInsertAfter
  updateAt <- pfds_sequence_updateAt
  deleteAt <- pfds_sequence_deleteAt
  size <- pfds_sequence_size
  isEmpty <- pfds_sequence_isEmpty
  get <- pfds_sequence_get
  front <- pfds_sequence_front
  back <- pfds_sequence_back
  compare <- pfds_cmp
  reduceLeft <- pfds_sequence_reduceLeft
  reduceRight <- pfds_sequence_reduceRight
  Contents <- ContentsOf
  WellFormed <- RepresentationOK
INVARIANTS
  NoUseAfterFree
CHECK_DEADLOCK FALSE
