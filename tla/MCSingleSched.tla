--------------------------- MODULE MCSingleSched ---------------------------
(* SingleSched for a kernel that is called several times.                  *)
EXTENDS SingleSched
=============================================================================
