-------------------------------- MODULE MCE2EE --------------------------------
(* Instances of E2EE for TLC. *)
EXTENDS E2EE, TLC

CONSTANTS me, ann, bob, desk, phone, tablet, pc2, x1, x2, m1, m2, a1, a2, a3,
          withAnn, withBob, group

\* ann has a phone, and a tablet she turns to when she cleared the phone.
MCUserOf == (desk :> me) @@ (phone :> ann) @@ (tablet :> ann) @@ (pc2 :> bob)
MCRunIn == (m1 :> desk) @@ (m2 :> desk) @@ (a1 :> phone) @@ (a2 :> phone) @@ (a3 :> tablet)
MCPeerOf == (withAnn :> ann) @@ (withBob :> bob) @@ (group :> Nil)

On(f, S) == [x \in S |-> f[x]]
UserOfBrowser == On(MCUserOf, Browsers)
BrowserOfRun == On(MCRunIn, Runs)
PeerOfChat == On(MCPeerOf, Chats)

\* Four scenarios in one run: the sender mounts twice, or the peer does, while
\* a message is sent; two messages while the peer turns to another browser; and
\* a message while the chats are opened in turn, one of a peer without keys.
Started == {r \in Runs : stage[r] # "new"}
OneMessage == msg[x2].at = "new"
OneChat == switches = 0 /\ open \in {Nil, withAnn}
OneScenario ==
    \/ Started \subseteq {m1, m2, a1} /\ gone = {} /\ OneMessage /\ OneChat
    \/ Started \subseteq {m1, a1, a2} /\ gone = {} /\ OneMessage /\ OneChat
    \/ Started \subseteq {m1, a1, a3} /\ OneChat
    \/ Started \subseteq {m1, a1} /\ gone = {} /\ OneMessage
=============================================================================
