--------------------------- MODULE CaseLifecycle ---------------------------
(***************************************************************************)
(* What the workflow service promises about the status of a case.  A case  *)
(* starts as "new".  A transition takes it from a status it has held to a  *)
(* new one, along an edge of its workflow template when the template was   *)
(* consulted.  Because handlers save whole rows they read earlier, a save  *)
(* may also take the case back to any status it has held before.           *)
(***************************************************************************)
CONSTANTS Cases,     \* case identities
          Statuses,  \* the values a status column may take
          Edges      \* the transitions of the workflow template

VARIABLES status,    \* status[c], "absent" until the case is created
          held,      \* held[c]: the statuses c has had
          unchecked  \* cases with a transition the template was not asked about

lifecycleVars == <<status, held, unchecked>>

LifecycleInit ==
  /\ status = [c \in Cases |-> "absent"]
  /\ held = [c \in Cases |-> {}]
  /\ unchecked = {}

Open(c) ==
  /\ status[c] = "absent"
  /\ status' = [status EXCEPT ![c] = "new"]
  /\ held' = [held EXCEPT ![c] = {"new"}]
  /\ UNCHANGED unchecked

Move(c, from, to) ==
  /\ from \in held[c]
  /\ status' = [status EXCEPT ![c] = to]
  /\ held' = [held EXCEPT ![c] = @ \cup {to}]
  /\ IF <<from, to>> \in Edges
     THEN unchecked' = unchecked \/ unchecked' = unchecked \cup {c}
     ELSE unchecked' = unchecked \cup {c}

FallBack(c, old) ==
  /\ old \in held[c]
  /\ status' = [status EXCEPT ![c] = old]
  /\ UNCHANGED <<held, unchecked>>

LifecycleNext ==
  \E c \in Cases :
    \/ Open(c)
    \/ \E from, to \in Statuses : Move(c, from, to)
    \/ \E old \in Statuses : FallBack(c, old)

LifecycleSpec == LifecycleInit /\ [][LifecycleNext]_lifecycleVars
=============================================================================
