----------------------- MODULE MCVerificationSession -----------------------
(* Instance of VerificationSession for TLC: a desktop that polls, and two  *)
(* phones that scanned the same code.                                      *)
EXTENDS VerificationSession
=============================================================================
