----------------------------- MODULE MCRuntime -----------------------------
(***************************************************************************)
(* Instance of Runtime for TLC.                                            *)
(***************************************************************************)
EXTENDS Runtime, TLC

CONSTANTS c1, c2, d1, d2

\* The first call has the first id, the second that one or another.
FirstIds == (c1 :> {d1}) @@ (c2 :> {d1, d2})

=============================================================================
