SPECIFICATION CarefulSpec
CONSTANTS
  Classes = {"TreeMap", "ArrayMap"}
  KeyNums <- ThreeKeys
  NValues = 2
  NVars = 2
  Arrays <- PairsUpTo2
  MaxSize = 3
  InBounds <- OneOther
  Number <- NumberOf
  Measure <- TreeMap_measure
  MEmpty <- TreeMapMeasure_mempty
  MAppend <- TreeMapMeasure_mappend
  MKids <- MeasureKeys
  Pred <- pred_TreeMap_findKey
  empty <- vtable_empty
  singleton <- vtable_singleton
  fromArray <- vtable_fromArray
  isEmpty <- pfds_mapping_isEmpty
  size <- pfds_mapping_size
  lookup <- pfds_mapping_lookup
  insert <- pfds_mapping_insert
  erase <- pfds_mapping_erase
  popMin <- pfds_mapping_popMin
  compare <- pfds_cmp
  Items <- ItemsOf
  WellFormed <- RepresentationOK
INVARIANTS
  Counted
  Representation
  Queries
  Ordering
  ByPosition
PROPERTIES
  ImplementsMaps
CHECK_DEADLOCK FALSE
