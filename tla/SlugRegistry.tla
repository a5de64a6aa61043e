---------------------------- MODULE SlugRegistry ----------------------------
(***************************************************************************)
(* What tenants and everybody who keeps a link rely on: a slug is claimed  *)
(* once, by one tenant, and for good.                                      *)
(***************************************************************************)
CONSTANTS
  Slugs,    \* the names to be claimed
  Tenants   \* those who may claim them

VARIABLE claims   \* pairs <<s, t>>: t has claimed s

Free(s) == \A t \in Tenants : <<s, t>> \notin claims
Unnamed(t) == \A s \in Slugs : <<s, t>> \notin claims

Claim(s, t) ==
  /\ Free(s) /\ Unnamed(t)
  /\ claims' = claims \cup {<<s, t>>}

Init == claims = {}
Next == \E s \in Slugs, t \in Tenants : Claim(s, t)

Spec == Init /\ [][Next]_claims
=============================================================================
