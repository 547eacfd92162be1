----------------------------- MODULE MCAdapter ------------------------------
(***************************************************************************)
(* Instances of Adapter: two connections that share a query, one           *)
(* connection with two queries, and each style with and without            *)
(* validation.  OnlyExplicit and OnlyValidated are the instances that      *)
(* refute AlwaysNoticed and AllDecided.                                    *)
(***************************************************************************)
EXTENDS Adapter, TLC

CONSTANTS c1, c2, q1, q2

MCConns == {c1, c2}
MCQueries == {q1, q2}

Deployment(how, validate, fail, conns, queries, most) ==
  [style |-> how, validate_queries |-> validate, fail_invalidated_queries |-> fail,
   conns |-> conns, queries |-> queries, requests |-> most]

MCDeployments ==
  {Deployment("InRequestPath", FALSE, FALSE, {c1, c2}, {q1}, 3),
   Deployment("InRequestPath", FALSE, FALSE, {c1}, {q1, q2}, 3),
   Deployment("InRequestPath", TRUE, FALSE, {c1}, {q1}, 3),
   Deployment("InRequestPath", TRUE, TRUE, {c1}, {q1}, 2),
   Deployment("Async", FALSE, FALSE, {c1}, {q1}, 3),
   Deployment("Async", TRUE, FALSE, {c1}, {q1}, 2),
   Deployment("Explicit", FALSE, FALSE, {c1}, {q1}, 3)}

OnlyExplicit == {Deployment("Explicit", FALSE, FALSE, {c1}, {q1}, 3)}
OnlyValidated == {Deployment("Async", TRUE, FALSE, {c1}, {q1}, 2)}
=============================================================================
