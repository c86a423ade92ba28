------------------------------- MODULE NoValue -------------------------------
(* The None of the Python code, for the components that one run puts together. *)
CONSTANT None
=============================================================================
