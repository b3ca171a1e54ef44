------------------------------ MODULE MCCSRSigner ------------------------------
(***************************************************************************)
(* The signer and the policy it signs by.  They share no variable: in a    *)
(* behaviour either requests come and go at the signer, with the policy at *)
(* rest at an instant 0, or the policy answers one request, of any time    *)
(* and CA, before the first comes.                                         *)
(***************************************************************************)
EXTENDS CSRSigner, SigningPolicy

\* Both sides of every bound on a requested duration.
MCExpirations == {-1, 0, 1, 599, 600, 601, 28799, 28800, 28801, 28900, 2591999, 2592000, 2592001}

\* Around an instant 0: both sides of every end a certificate can have there.
MCTimes ==
  {-301, -300, -299, -1, 0, 1, 299, 300, 301, 599, 600, 601, 28499, 28500, 28501,
   28799, 28800, 28801, 2591699, 2591700, 2591701, 2592000, 2592001}

MCUsages ==
  {"DigitalSignature", "KeyEncipherment", "CertSign", "Signing", "ClientAuth", "ServerAuth",
   "SMIME", "EmailProtection", "unknown"}

PolicyRests == time = 0 /\ caNotAfter = 0 /\ answer.outcome = "none"

MCInit == CsrInit /\ PolicyInit

MCNext ==
  \/ CsrNext /\ PolicyRests /\ UNCHANGED policyVars
  \/ CsrInit /\ PolicyNext /\ UNCHANGED csrVars

MCSpec == MCInit /\ [][MCNext]_<<csrVars, policyVars>> /\ CsrFairness
===============================================================================
