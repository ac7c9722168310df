----------------------------- MODULE MCHostLink -----------------------------
(***************************************************************************)
(* HostLink for TLC, and the mutants of its properties.                    *)
(***************************************************************************)
EXTENDS HostLink
=============================================================================
