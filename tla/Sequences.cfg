SPECIFICATION ClientSpec
CONSTANTS
  Classes = {"LinkedList", "ArrayList", "TreeList"}
  NElems = 2
  NVars = 2
  Word = 64
  Indices = {0, 1, 2, 3, 4, 5, 6, 7, 8, 9, 10, 11, 12, 13, 14, 15, 16, 17, 18, 19, 20, 21, 22, 63}
  Arrays <- PairsAndLong
  MaxShort = 4
  MaxLen = 9
  MaxShared = 3
  InBounds <- Buildable
  Measure <- MeasureTreeListSize
  MEmpty = 0
  MAppend <- Sum
  MKids <- NoKids
  Pred <- PredTreeListSize
  fromArray <- vtable_fromArray
  concat <- vtable_concat
  mappend <- pfds_mappend
  pushFront <- pfds_sequence_pushFront
  pushBack <- pfds_sequence_pushBack
  popFront <- DefaultPopFront
  popBack <- DefaultPopBack
  split <- pfds_sequence_split
  reverse <- pfds_sequence_reverse
  insertBefore <- pfds_sequence_insertBefore
  insertAfter <- DefaultInsertAfter
  updateAt <- pfds_sequence_updateAt
  deleteAt <- pfds_sequence_deleteAt
  size <- pfds_sequence_size
  isEmpty <- pfds_sequence_isEmpty
  get <- pfds_sequence_get
  front <- pfds_sequence_front
  back <- pfds_sequence_back
  compare <- pfds_cmp
  reduceLeft <- pfds_sequence_reduceLeft
  reduceRight <- pfds_sequence_reduceRight
  Contents <- ContentsOf
  WellFormed <- RepresentationOK
INVARIANTS
  Counted
  Representation
  Queries
  Comparison
  Reductions
PROPERTIES
  ImplementsLists
CHECK_DEADLOCK FALSE
