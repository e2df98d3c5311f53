-------------------------------- MODULE Nothing --------------------------------
(* A value unlike any other: null in the database and the UI, None in Python and Rust. *)
CONSTANT None
================================================================================
