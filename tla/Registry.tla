------------------------------ MODULE Registry ------------------------------
(* What the AT-SPI registry may hold, as the close observer and the search  *)
(* for controls read it.                                                    *)

CONSTANTS
  Apps,       \* applications that may register with AT-SPI
  Owned,      \* those whose process belongs to the launch
  Windows     \* top-level windows they may publish

=============================================================================
