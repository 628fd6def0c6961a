----------------------------- MODULE MCKeyStore -----------------------------
(* KeyStore on a few accounts.  Accounts are interchangeable.              *)
EXTENDS KeyStoreModes, TLC

CONSTANTS u1, u2, u3

TwoUsers   == {u1, u2}
ThreeUsers == {u1, u2, u3}
Symmetry   == Permutations(ThreeUsers)
=============================================================================
