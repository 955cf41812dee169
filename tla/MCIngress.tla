----------------------------- MODULE MCIngress -----------------------------
(* Ingress with one endpoint, rows of both strategies and one nobody knows.  *)
EXTENDS Ingress, TLC

CONSTANTS p1, s1, k1, k2

SomeRows == {
  [status |-> "ACTIVE", provider |-> "slack", strategy |-> "slack_signature", ref |-> s1],
  [status |-> "INACTIVE", provider |-> "slack", strategy |-> "slack_signature", ref |-> s1],
  [status |-> "ACTIVE", provider |-> "github", strategy |-> "github_hmac", ref |-> s1],
  [status |-> "ACTIVE", provider |-> "github", strategy |-> "sha1", ref |-> s1] }

Symmetric == Permutations({k1, k2})
=============================================================================
