--------------------------- MODULE MappingVtables ---------------------------
(***************************************************************************)
(* TreeMap and ArrayMap behind one interface: each function                *)
(* pfds_mapping_... of src/src/pfds.c calls the method in the vtable of    *)
(* the object it is given.  The functions that make a mapping out of       *)
(* nothing are called through a vtable that the caller has: h.vt.          *)
(***************************************************************************)
EXTENDS TreeMap, ArrayMap

IsTreeMap(h, m) == Kind(h, m) = "TreeMap"

vtable_empty(h) ==
  IF h.vt = "TreeMap" THEN TreeMap_empty(h) ELSE ArrayMap_empty(h)

vtable_singleton(h, k, x) ==
  IF h.vt = "TreeMap" THEN TreeMap_singleton(h, k, x) ELSE ArrayMap_singleton(h, k, x)

vtable_fromArray(h, ps) ==
  IF h.vt = "TreeMap" THEN TreeMap_fromArray(h, ps) ELSE ArrayMap_fromArray(h, ps)

pfds_mapping_isEmpty(h, m) ==
  IF IsTreeMap(h, m) THEN TreeMap_isEmpty(h, m) ELSE ArrayMap_isEmpty(h, m)

pfds_mapping_size(h, m) ==
  IF IsTreeMap(h, m) THEN TreeMap_size(h, m) ELSE ArrayMap_size(h, m)

pfds_mapping_lookup(h, m, k) ==
  IF IsTreeMap(h, m) THEN TreeMap_lookup(h, m, k) ELSE ArrayMap_lookup(h, m, k)

pfds_mapping_insert(h, m, k, x) ==
  IF IsTreeMap(h, m) THEN TreeMap_insert(h, m, k, x) ELSE ArrayMap_insert(h, m, k, x)

pfds_mapping_erase(h, m, k) ==
  IF IsTreeMap(h, m) THEN TreeMap_erase(h, m, k) ELSE ArrayMap_erase(h, m, k)

pfds_mapping_popMin(h, m, wi, wr) ==
  IF IsTreeMap(h, m) THEN TreeMap_popMin(h, m, wi, wr) ELSE ArrayMap_popMin(h, m, wi, wr)

pfds_cmp(h, l, r) ==
  IF IsTreeMap(h, l) THEN DefaultCmp(h, l, r) ELSE ArrayMap_compare(h, l, r)
-----------------------------------------------------------------------------
(* The pairs of a mapping of either type, and what its methods rely on.    *)
ItemsOf(h, m) == IF IsTreeMap(h, m) THEN TreeMap_Items(h, m) ELSE ArrayMap_Items(h, m)

RepresentationOK(h, m) ==
  IF IsTreeMap(h, m) THEN TreeMap_WellFormed(h, m) ELSE ArrayMap_WellFormed(h, m)
=============================================================================
