----------------------------- MODULE MCPreKeys -----------------------------
(* Instances of PreKeys for TLC. *)
EXTENDS PreKeys, TLC

CONSTANTS phone, laptop, pub1, pub2, pub3, top, rot, get1, get2, get3

MCKind == [r \in Requests |->
    CASE r \in {pub1, pub2, pub3} -> "publish"
      [] r = top -> "topup"
      [] r = rot -> "rotate"
      [] OTHER -> "fetch"]

\* The phone publishes twice, at a login and at a later visit.
MCDeviceOf == [r \in Requests |->
    IF r \in {pub2, rot} THEN laptop ELSE phone]

MCSymmetry == Permutations({get1, get2, get3})

\* Two scenarios in one run, one request of three peers and one of two devices:
\* the requests that come are all of one of them.
Scenarios == {{pub1, pub3, get1, get2, get3}}
             \cup {{pub1, pub2, top, rot, g} : g \in {get1, get2, get3}}
OneScenario == \E S \in Scenarios : {r \in Requests : pc[r] # "new"} \subseteq S
=============================================================================
