---------------------------- MODULE MCWebSearch ----------------------------
(***************************************************************************)
(* An instance of WebSearch for TLC: two cloud providers and a host model. *)
(***************************************************************************)
EXTENDS WebSearch, WebChecks

CONSTANTS p, q, h, o1, o2, s1

\* A pool of two clouds and a host model; one whose only cloud is disabled, but
\* was used last; the first with a cloud provider that has moved to the phone.
Whole    == [members |-> <<p, q, h>>, enabled |-> {p, q, h}, host |-> {h},
             keyed |-> {p, q}, hosted |-> {p, q}]
Disabled == [Whole EXCEPT !.members = <<p, h>>, !.enabled = {h}]
Moved    == [Whole EXCEPT !.host = {q, h}, !.keyed = {p}, !.hosted = {p}]

MCRoutings == {Whole, Disabled, Moved}
=============================================================================
