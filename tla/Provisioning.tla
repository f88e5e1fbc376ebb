---------------------------- MODULE Provisioning ----------------------------
(***************************************************************************)
(* What a one-shot control plane promises.  Nodes ask.  One of those that  *)
(* asked is chosen, for good, and its configuration is made once.  Each    *)
(* type that is handed out is noted; only clients of the chosen node ever  *)
(* run one, and none that is not noted.  It succeeds when every type has   *)
(* been handed out: that a client accepted is not part of it.  How the     *)
(* types reach a client, and how often, is left open.                      *)
(***************************************************************************)
CONSTANTS
  Nodes, NoNode,
  Clients, NodeOf,  \* the node of each client
  Types             \* what a configuration consists of

VARIABLES
  phase,    \* "open", "configured", "done", "failed"
  asked,    \* nodes
  chosen,   \* a node, or NoNode
  noted,    \* types
  running   \* pairs of a client and a type

vars == <<phase, asked, chosen, noted, running>>

Init ==
  /\ phase = "open" /\ chosen = NoNode
  /\ asked = {} /\ noted = {} /\ running = {}

Going == phase \in {"open", "configured"}

Ask(n) ==
  /\ Going /\ asked' = asked \cup {n}
  /\ UNCHANGED <<phase, chosen, noted, running>>

Choose(n) ==
  /\ phase = "open" /\ chosen = NoNode
  /\ n \in asked /\ chosen' = n
  /\ UNCHANGED <<phase, asked, noted, running>>

Configure ==
  /\ phase = "open" /\ chosen # NoNode
  /\ phase' = "configured"
  /\ UNCHANGED <<asked, chosen, noted, running>>

HandOut(t) ==
  /\ phase = "configured"
  /\ noted' = noted \cup {t}
  /\ UNCHANGED <<phase, asked, chosen, running>>

Run(c, t) ==
  /\ phase = "configured" /\ NodeOf[c] = chosen /\ t \in noted
  /\ running' = running \cup {<<c, t>>}
  /\ UNCHANGED <<phase, asked, chosen, noted>>

Succeed ==
  /\ phase = "configured" /\ noted = Types
  /\ phase' = "done"
  /\ UNCHANGED <<asked, chosen, noted, running>>

Fail ==
  /\ Going /\ phase' = "failed"
  /\ UNCHANGED <<asked, chosen, noted, running>>

Next ==
  \/ \E n \in Nodes : Ask(n) \/ Choose(n)
  \/ Configure \/ Succeed \/ Fail
  \/ \E t \in Types : HandOut(t) \/ \E c \in Clients : Run(c, t)

Spec == Init /\ [][Next]_vars
=============================================================================
