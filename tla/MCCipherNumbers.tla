-------------------------- MODULE MCCipherNumbers ---------------------------
(* CipherNumbers with hashes of two bits: the first moduli are 7 or 11.    *)
EXTENDS CipherNumbers

SomeKeys == {3, 5, 11}
=============================================================================
