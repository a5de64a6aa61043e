----------------------------- MODULE LateWrites -----------------------------
(***************************************************************************)
(* What is left of a stored thing when its handlers read it, change their  *)
(* copy and write all of it back without a version check: writes get lost, *)
(* but a value that is stored is always the change of a value the thing    *)
(* has had.  What every change preserves is thus never lost.               *)
(***************************************************************************)
CONSTANTS Things,    \* identities of the stored things
          Initials,  \* the values a thing may be created with
          After      \* After[v]: what the requests of the service make of v

VARIABLES value,     \* value[t], of no meaning until t is created
          had        \* had[t]: the values t has had, none until t is created

lateVars == <<value, had>>

LateInit == had = [t \in Things |-> {}]

Put(t, v) ==
  /\ value' = [value EXCEPT ![t] = v]
  /\ had' = [had EXCEPT ![t] = @ \cup {v}]

Create(t) ==
  /\ had[t] = {}
  /\ \E v \in Initials : Put(t, v)

Rewrite(t) == \E old \in had[t] : \E v \in After[old] : Put(t, v)

LateNext == \E t \in Things : Create(t) \/ Rewrite(t)

LateSpec == LateInit /\ [][LateNext]_lateVars
=============================================================================
