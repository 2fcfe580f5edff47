---------------------------- MODULE SessionSpec ----------------------------
(***************************************************************************)
(* What establishing a session promises.  The responder accepts sessions;  *)
(* the requester adopts one that the responder accepted, each at most      *)
(* once, and has at most one at a time.                                    *)
(***************************************************************************)
VARIABLES
  accepted,  \* sessions the responder accepted, ever
  adopted,   \* sessions the requester adopted, ever
  current    \* the requester's session: a set of at most one

vars == <<accepted, adopted, current>>

Init == accepted = {} /\ adopted = {} /\ current = {}

Accept == /\ \E s \in accepted' : /\ s \notin accepted
                                  /\ accepted' = accepted \union {s}
          /\ UNCHANGED <<adopted, current>>

Adopt == \E s \in accepted \ adopted :
           /\ current = {} /\ current' = {s}
           /\ adopted' = adopted \union {s}
           /\ UNCHANGED accepted

Leave == /\ current # {} /\ current' = {}
         /\ UNCHANGED <<accepted, adopted>>

Next == Accept \/ Adopt \/ Leave

Spec == Init /\ [][Next]_vars
=============================================================================
