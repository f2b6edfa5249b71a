----------------------------- MODULE MCProvider -----------------------------
(* Two threads that share a provider: the calls, and what they log. *)
EXTENDS Provider, TLC

CONSTANTS t1, t2, alice, pw1, pw2

MCThreads   == {t1, t2}
MCNames     == {alice}
MCPasswords == {pw1, pw2}

\* Nothing tells the threads apart, nor the passwords.
MCSymmetry == Permutations(MCThreads) \cup Permutations(MCPasswords)
=============================================================================
