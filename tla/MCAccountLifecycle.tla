------------------------- MODULE MCAccountLifecycle -------------------------
(* AccountLifecycle on a small fleet.  Serial runs have one session, the       *)
(* concurrent ones two: an API request beside a worker task.                   *)
EXTENDS AccountLifecycle, TLC

CONSTANTS a1, a2, c1, c2, s1, s2

TwoAccounts == {a1, a2}
OneAccount == {a1}
TwoCampaigns == {c1, c2}
OneCampaign == {c1}
OneSession == {s1}
TwoSessions == {s1, s2}

Symmetry == Permutations(Accounts) \cup Permutations(Campaigns) \cup Permutations(Sessions)
=============================================================================
