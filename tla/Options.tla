------------------------------- MODULE Options -------------------------------
(* Rust's Option::None, for the modules that leave a field, a map entry or a *)
(* result absent and are instantiated together.                              *)
CONSTANT None
==============================================================================
