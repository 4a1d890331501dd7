------------------------------ MODULE MCAccounts ------------------------------
(* Small instances of Accounts for TLC. *)
EXTENDS Accounts, TLC

CONSTANTS alice, bob, bot, r1, r2, r3

TwoUsers == {alice, bob}
EmptyOrBoth == {{}, {alice, bob}}

OneAccount == {bot}
NoAccounts == {}

TwoRequests == {r1, r2}
ThreeRequests == {r1, r2, r3}

AllKinds == {"register", "login", "use", "block", "unblock",
             "createAccount", "revokeAccount"}
Registration == {"register"}

\* Users differ only in who registers first, requests in what they ask.
Symmetry2 == Permutations(TwoUsers) \cup Permutations(TwoRequests)
Symmetry3 == Permutations(TwoUsers) \cup Permutations(ThreeRequests)
==============================================================================
