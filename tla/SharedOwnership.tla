--------------------------- MODULE SharedOwnership ---------------------------
(***************************************************************************)
(* What the reference counts of exception.cc promise: an exception object  *)
(* has a set of owners, and is destroyed when the last one leaves, once.   *)
(* Nobody becomes an owner of an object that is being destroyed or is not  *)
(* there.                                                                  *)
(*                                                                         *)
(* A step of the program may concern several objects: a thread that ends   *)
(* leaves all exceptions it handles. Each object takes one of the steps    *)
(* below.                                                                  *)
(***************************************************************************)
CONSTANTS Objects, Owners

VARIABLES life,   \* of each object: "none", "live", or "dying" in its destructor
          owners  \* of each object

vars == <<life, owners>>

Init ==
    /\ life = [o \in Objects |-> "none"]
    /\ owners = [o \in Objects |-> {}]

\* The object o, and what owns it, change to l and h.
Becomes(o, l, h) == life'[o] = l /\ owners'[o] = h

Create(o) ==
    life[o] = "none" /\ \E x \in Owners : Becomes(o, "live", {x})

Join(o) ==
    life[o] = "live" /\ \E x \in Owners \ owners[o] : Becomes(o, "live", owners[o] \cup {x})

Leave(o) ==
    life[o] = "live" /\ \E x \in owners[o] : owners[o] # {x} /\ Becomes(o, "live", owners[o] \ {x})

\* The destructor runs from here to Destroyed, or within the step.
LastLeaves(o) ==
    /\ life[o] = "live"
    /\ \E x \in Owners : owners[o] = {x}
    /\ Becomes(o, "dying", {}) \/ Becomes(o, "none", {})

Destroyed(o) ==
    life[o] = "dying" /\ Becomes(o, "none", {})

Stays(o) == Becomes(o, life[o], owners[o])

Next ==
    /\ life' \in [Objects -> {"none", "live", "dying"}]
    /\ owners' \in [Objects -> SUBSET Owners]
    /\ \A o \in Objects :
          Stays(o) \/ Create(o) \/ Join(o) \/ Leave(o) \/ LastLeaves(o) \/ Destroyed(o)

Spec == Init /\ [][Next]_vars
==============================================================================
