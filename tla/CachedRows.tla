----------------------------- MODULE CachedRows -----------------------------
(***************************************************************************)
(* What becomes of a batch of rows on its way into a Parquet file of the   *)
(* dataset cache and back: every column gets one type, and values that do  *)
(* not fit it change or are lost.  DatasetCache is about the files;        *)
(* ScoredRun is where rows are read twice.                                 *)
(*                                                                         *)
(* A row is a record of values; a value has its kind in "is", a scalar its *)
(* text, a number whether it is a 64-bit integer.  FloatText maps the text *)
(* of a number to that of the nearest double.                              *)
(***************************************************************************)
EXTENDS Naturals, Sequences

CONSTANT FloatText

Absent == [is |-> "null", text |-> "none"]
IsNested(value) == value.is \in {"array", "object"}

Columns(batch) == UNION {DOMAIN batch[i] : i \in DOMAIN batch}
Column(batch, key) == [i \in DOMAIN batch |-> IF key \in DOMAIN batch[i] THEN batch[i][key] ELSE Absent]

InferType(values) ==
    LET kinds == {IF values[i].is = "number" /\ ~values[i].int THEN "float" ELSE values[i].is : i \in DOMAIN values}
                     \ {"null"}
    IN  CASE kinds \cap {"string", "array", "object"} # {} -> "Utf8"
          [] kinds = {"bool"} -> "Boolean"
          [] kinds = {"number"} -> "Int64"
          [] kinds = {} -> "Utf8"
          [] OTHER -> "Float64"

JsonEncoded(values) == \E i \in DOMAIN values : IsNested(values[i])

(* Mutant: nested values are written as the text of their JSON and read as strings. *)
CellUnencoded(value, type, encoded) ==
    IF value.is = "null" THEN Absent
    ELSE IF type = "Utf8" /\ IsNested(value) THEN [is |-> "string", text |-> "...", json |-> value]
    ELSE value

(* A value as it is read from a column of the type.  In a column that is encoded as
   JSON every value survives; text made of a number or a truth value holds no choices. *)
Cell(value, type, encoded) ==
    IF value.is = "null" THEN Absent ELSE
    CASE type = "Boolean" -> value
      [] type = "Int64" -> value
      [] type = "Float64" -> IF value.is = "number"
                             THEN [is |-> "number", text |-> FloatText[value.text], int |-> FALSE] ELSE Absent
      [] type = "Utf8" -> IF encoded \/ value.is = "string" THEN value
                          ELSE [is |-> "string", text |-> value.text, json |-> value]

(* write_batch, then read_batch. *)
ThroughCache(batch) ==
    [i \in DOMAIN batch |-> [key \in Columns(batch) |->
        LET values == Column(batch, key) IN Cell(values[i], InferType(values), JsonEncoded(values))]]
=============================================================================
