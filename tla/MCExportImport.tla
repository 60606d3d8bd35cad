--------------------------- MODULE MCExportImport ---------------------------
(* ExportImport on a bundle of three small files. *)
EXTENDS ExportImport

Row(k, v) == [key |-> k, variant |-> v]

(* Orders, one of them in both files and contradicted, one of the rows     *)
(* rejected; a file of another dataset.                                    *)
ThreeFiles ==
  << [dataset |-> "orders", batches |-> << <<Row("a", "v"), Row("b", "v")>> >>],
     [dataset |-> "orders",
      batches |-> << <<Row("b", "bad")>>, <<Row("a", "w")>> >>],
     [dataset |-> "other", batches |-> << <<Row("a", "v")>> >>] >>

LiveOrder == [k \in {"b"} |-> "w"]
=============================================================================
