------------------------------ MODULE JsonMerge ------------------------------
(***************************************************************************)
(* Deep merging of rows: merge_row_into (src/src/log_queue/merge.rs) over  *)
(* deep_merge (src/src/json_merge.rs).                                     *)
(*                                                                         *)
(* The content of a row is a function from the paths of its leaves to      *)
(* their values: <<"input", "a">> is a leaf of the object `input`, and     *)
(* <<"input">> is `input` when that is no object.  Empty objects are left  *)
(* out.  No path of a row is a prefix of another one.  A leaf that is      *)
(* united is a set.  What is inserted whole, an entry of the maps in Whole,*)
(* is a leaf whatever it holds.                                            *)
(***************************************************************************)
EXTENDS SequencesExt

Conflict(p, q) == IsPrefix(p, q) \/ IsPrefix(q, p)

Whole == {"scores", "metrics", "span_attributes"}

(* SET_UNION_FIELDS, of the row and at the top level of a merged field. *)
United(p) == Last(p) = "tags" /\ (Len(p) = 1 \/ (Len(p) = 2 /\ p[1] \notin Whole))

(* Mutant: an object does not replace what is no object. *)
MergeRowIntoKeepingScalars(target, source) ==
  LET kept  == DOMAIN target \ {p \in DOMAIN target : \E q \in DOMAIN source : IsPrefix(q, p)}
      taken == {q \in DOMAIN source : \A p \in kept : ~Conflict(p, q)}
  IN [p \in kept \cup taken |-> IF p \in taken THEN source[p] ELSE target[p]]

(* The fields of a row follow one rule: the source wins, tags are united.  *)
MergedValue(target, source, p) ==
  IF p \in DOMAIN target \cap DOMAIN source /\ United(p) THEN target[p] \cup source[p]
  ELSE IF p \in DOMAIN source THEN source[p] ELSE target[p]

(* A leaf of the source replaces what the target has at its path, below it *)
(* or, when an object replaces a value that is none, above it; the leaves  *)
(* of united fields are united.  The identity of the row and its is_merge  *)
(* stay.                                                                   *)
MergeRowInto(target, source) ==
  LET kept == {p \in DOMAIN target : \A q \in DOMAIN source : ~Conflict(p, q)}
  IN [p \in kept \cup DOMAIN source |-> MergedValue(target, source, p)]
=============================================================================
