--------------------------- MODULE MCRemediation ----------------------------
(***************************************************************************)
(* Small instances of Remediation.tla for TLC.                             *)
(***************************************************************************)
EXTENDS Remediation, TLC

CONSTANTS p1, p2, a1, a2, a3, e1, t1, t2, s1, s2

OneProposal    == {p1}
TwoProposals   == {p1, p2}
OneApproval    == {a1}
TwoApprovals   == {a1, a2}
ThreeApprovals == {a1, a2, a3}
OneEdit        == {e1}
NoEdit         == {}
OneTarget      == {t1}
TwoTargets     == {t1, t2}
OneServer      == {s1}
TwoServers     == {s1, s2}

LossRestart == {"loss", "restart"}
NoFaults    == {}
Disconnects == {"disconnect"}

(* Approvals are interchangeable, and so are targets and servers.          *)
Symmetry ==
  Permutations(Approvals) \cup Permutations(Targets) \cup Permutations(Servers)
=============================================================================
