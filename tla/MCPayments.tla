----------------------------- MODULE MCPayments -----------------------------
(* Payments for TLC: two or three payments, two sessions (an API request and   *)
(* the cron or the bot).  Payment ids stay numbers, they are ordered.          *)
EXTENDS Payments, TLC

CONSTANTS u1, u2, i1, i2, i3, s1, s2

OneUser == {u1}
TwoUsers == {u1, u2}
OnePayment == {1}
TwoPayments == 1..2
OneInvoice == {i1}
ThreeInvoices == {i1, i2, i3}
OneSession == {s1}
TwoSessions == {s1, s2}

Symmetry == Permutations(Users) \cup Permutations(Invoices) \cup Permutations(Sessions)
=============================================================================
