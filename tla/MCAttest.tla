------------------------------ MODULE MCAttest ------------------------------
(***************************************************************************)
(* A responder with a chain, its renewal for the same key, and a chain of  *)
(* another root, which signs measurements in 1.2 and 1.3 or only in 1.2.   *)
(***************************************************************************)
EXTENDS Attest

MCOffers == {[version |-> 12, caps |-> "SIG"], [version |-> 13, caps |-> "SIG"],
             [version |-> 13, caps |-> "NO_SIG"]}
MCFirstChain == [id |-> 1, key |-> "L1", trusted |-> TRUE]
MCChains == {[id |-> 2, key |-> "L1", trusted |-> TRUE],
             [id |-> 3, key |-> "L2", trusted |-> FALSE]}

=============================================================================
