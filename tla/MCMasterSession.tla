-------------------------- MODULE MCMasterSession --------------------------
(***************************************************************************)
(* The instances of MasterSession that TLC checks.                         *)
(***************************************************************************)
EXTENDS MasterSession, TLC

\* Sessions of both architectures, with and without late join.
MCDatas ==
    {[kind |-> "k", p2p |-> p, lateJoin |-> j, maxClients |-> 2] : p \in BOOLEAN, j \in BOOLEAN}

\* A search for either architecture or for one, for sessions that have two players, and one
\* whose bound on players no session meets.
MCFilters ==
    {[kind |-> "k", p2p |-> TRUE, cs |-> c, minPlayers |-> 0, maxPlayers |-> 2] : c \in BOOLEAN}
      \cup {[kind |-> "k", p2p |-> FALSE, cs |-> TRUE, minPlayers |-> 2, maxPlayers |-> 2],
            [kind |-> "k", p2p |-> TRUE, cs |-> TRUE, minPlayers |-> 0, maxPlayers |-> 1]}

Clients == Permutations(Links)
=============================================================================
