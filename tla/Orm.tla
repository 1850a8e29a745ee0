-------------------------------- MODULE Orm --------------------------------
(***************************************************************************)
(* What session.commit() writes for a modified object.                     *)
(*                                                                         *)
(* A handler loads a row, works on its own copy, and commits.  The unit of *)
(* work of SQLAlchemy emits an UPDATE that sets only the columns whose     *)
(* value differs from the one loaded, so a column the handler did not      *)
(* change keeps whatever another transaction committed meanwhile, and a    *)
(* column it did change overwrites it.  Under READ COMMITTED nothing else  *)
(* compares the row with the copy.                                         *)
(***************************************************************************)

(* The whole-row write of a mapper without column tracking: never what the *)
(* program does, used to show which properties rest on the difference.     *)
FlushWholeRow(row, loaded, target) == target

Flush(row, loaded, target) ==
    [col \in DOMAIN row |->
        IF target[col] = loaded[col] THEN row[col] ELSE target[col]]
=============================================================================
