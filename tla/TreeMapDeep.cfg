SPECIFICATION GrowSpec
CONSTANTS
  Classes = {"TreeMap"}
  KeyNums <- EightKeys
  NValues = 8
  NVars = 1
  Arrays <- NoArrays
  MaxSize = 8
  InBounds <- Diagonal
  Number <- NumberOf
  Measure <- TreeMap_measure
  MEmpty <- TreeMapMeasure_mempty
  MAppend <- TreeMapMeasure_mappend
  MKids <- MeasureKeys
  Pred <- pred_TreeMap_findKey
  empty <- vtable_empty
  singleton <- vtable_singleton
  fromArray <- vtable_fromArray
  isEmpty <- pfds_mapping_isEmpty
  size <- pfds_mapping_size
  lookup <- pfds_mapping_lookup
  insert <- pfds_mapping_insert
  erase <- pfds_mapping_erase
  popMin <- pfds_mapping_popMin
  compare <- pfds_cmp
  Items <- ItemsOf
  WellFormed <- RepresentationOK
INVARIANTS
  Representation
  Queries
PROPERTIES
  ImplementsMaps
VIEW Shape
CHECK_DEADLOCK FALSE
