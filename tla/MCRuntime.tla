----------------------------- MODULE MCRuntime -----------------------------
(***************************************************************************)
(* The extension's methods, with few levels and a small recursion limit.   *)
(***************************************************************************)
EXTENDS Runtime
=============================================================================
