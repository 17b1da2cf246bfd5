---------------------------- MODULE MCLinkState ----------------------------
(***************************************************************************)
(* The instances of LinkState that TLC checks.                             *)
(***************************************************************************)
EXTENDS LinkState, TLC

SessionData(p2p) == [kind |-> "k", p2p |-> p2p, lateJoin |-> TRUE, maxClients |-> 3]

BothArchs == {SessionData(TRUE), SessionData(FALSE)}

\* One search, which finds any session.
AnySession == {[kind |-> "k", p2p |-> TRUE, cs |-> TRUE, minPlayers |-> 0, maxPlayers |-> 3]}

Peers == Permutations(Links)
=============================================================================
