------------------------------- MODULE Signals -------------------------------
(***************************************************************************)
(* The action labels of the generated automata (dft2lntc/automata/         *)
(* signals.h).  A label is a tuple whose head is the gate name; index 0    *)
(* stands for the automaton itself and index i > 0 for its i-th child.     *)
(* Direction TRUE is a command that the automaton sends to a child, FALSE  *)
(* one that it receives.                                                   *)
(***************************************************************************)
EXTENDS Naturals

FAIL(i)            == <<"FAIL", i>>
ONLINE(i)          == <<"ONLINE", i>>
ACTIVATE(i, dir)   == <<"ACTIVATE", i, dir>>
DEACTIVATE(i, dir) == <<"DEACTIVATE", i, dir>>
RATE_FAIL(phase, kind) == <<"RATE_FAIL", phase, kind>>
RATE_REPAIR        == <<"RATE_REPAIR">>
INSPECT(i)         == <<"INSPECT", i>>
REPAIR_CMD(dir)    == <<"REPAIR_CMD", dir>>    \* REPAIR(bool direction)
REPAIRING(i)       == <<"REPAIRING", i>>
REPAIRED(i)        == <<"REPAIRED", i>>
IMPOSSIBLE         == <<"IMPOSSIBLE">>
TAU                == <<"">>                   \* collapsed before output

(***************************************************************************)
(* add_transition under a condition: the transitions a handler offers.     *)
(***************************************************************************)
Offer(guard, label, target) == IF guard THEN {<<label, target>>} ELSE {}
==============================================================================
