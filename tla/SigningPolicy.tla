----------------------------- MODULE SigningPolicy -----------------------------
(***************************************************************************)
(* What a certificate signed by the csrSigningController says: how long it *)
(* is valid and what it may be used for.  A behaviour is one request on    *)
(* its way to an answer; module CSRSigner has what goes on around it.      *)
(* Times are whole seconds, the precision in which a certificate stores    *)
(* them.                                                                   *)
(***************************************************************************)
EXTENDS Integers

CONSTANTS
  Times,        \* instants: when a request is signed, when the signer's certificate ends
  Expirations,  \* values of expirationSeconds
  Usages        \* names of usages a request may list

ASSUME PolicyAssumption == Times \subseteq Int /\ Expirations \subseteq Int

certTTL == 30 * 24 * 3600
Backdate == 300
Short == 8 * 3600
MinTTL == 600

\* A request without expirationSeconds.
Unset == <<>>
Requested == {Unset} \cup {<<n>> : n \in Expirations}

VARIABLES
  time,        \* the instant at which the request is looked at
  caNotAfter,  \* when the certificate of the CA ends
  answer       \* what becomes of the request, with the certificate once it is signed

policyVars == <<time, caNotAfter, answer>>

\* Mutant: a duration out of bounds is replaced by the lower one.
durationOutOfBounds(expiration) ==
  IF expiration = Unset THEN certTTL
  ELSE IF expiration[1] > certTTL \/ expiration[1] < MinTTL THEN MinTTL
  ELSE expiration[1]

duration(expiration) ==
  IF expiration = Unset THEN certTTL
  ELSE IF expiration[1] > certTTL THEN certTTL
  ELSE IF expiration[1] < MinTTL THEN MinTTL
  ELSE expiration[1]
-------------------------------------------------------------------------------
\* Every key usage translates to itself, but for an older name of one.
keyUsageDict ==
  [u \in {"Signing", "DigitalSignature", "ContentCommitment", "KeyEncipherment", "KeyAgreement",
          "DataEncipherment", "CertSign", "CRLSign", "EncipherOnly", "DecipherOnly"}
     |-> IF u = "Signing" THEN "DigitalSignature" ELSE u]

extKeyUsageDict ==
  [u \in {"Any", "ServerAuth", "ClientAuth", "CodeSigning", "EmailProtection", "SMIME",
          "IPsecEndSystem", "IPsecTunnel", "IPsecUser", "Timestamping", "OCSPSigning",
          "MicrosoftSGC", "NetscapeSGC"}
     |-> IF u = "SMIME" THEN "EmailProtection" ELSE u]

keyUsagesFromStrings(usages) ==
  [keyUsage |-> {keyUsageDict[u] : u \in usages \cap DOMAIN keyUsageDict},
   extKeyUsages |-> {extKeyUsageDict[u] : u \in usages \cap DOMAIN extKeyUsageDict},
   unrecognized |-> usages \ (DOMAIN keyUsageDict \cup DOMAIN extKeyUsageDict)]

\* Mutant: the certificate is refused only if it would start after the signer's end.
applyUnlessLongExpired(ttl, usages, now, signerNotAfter) ==
  LET end == IF ttl < Short THEN now + ttl ELSE now + ttl - Backdate
      translated == keyUsagesFromStrings(usages) IN
  [notBefore |-> now - Backdate,
   notAfter |-> IF end < signerNotAfter THEN end ELSE signerNotAfter,
   keyUsage |-> translated.keyUsage, extKeyUsage |-> translated.extKeyUsages,
   refused |-> translated.unrecognized # {} \/ signerNotAfter <= now - Backdate]

\* refused stands for any of the three errors.
apply(ttl, usages, now, signerNotAfter) ==
  LET end == IF ttl < Short THEN now + ttl ELSE now + ttl - Backdate
      translated == keyUsagesFromStrings(usages) IN
  [notBefore |-> now - Backdate,
   notAfter |-> IF end < signerNotAfter THEN end ELSE signerNotAfter,
   keyUsage |-> translated.keyUsage, extKeyUsage |-> translated.extKeyUsages,
   refused |-> \/ translated.unrecognized # {}
               \/ signerNotAfter <= now - Backdate \/ signerNotAfter <= now]

Certificate(expiration, usages) == apply(duration(expiration), usages, time, caNotAfter)
-------------------------------------------------------------------------------
\* Mutant: whatever comes with client authentication is let through.
validUsagesWithClientAuth(usages) == "ClientAuth" \in usages

validAPIServerClientUsages(usages) ==
  /\ usages \subseteq {"DigitalSignature", "KeyEncipherment", "ClientAuth"}
  /\ "ClientAuth" \in usages

\* Any request, at any time, under a CA that ends at any time.
PolicyInit == time \in Times /\ caNotAfter \in Times /\ answer = [outcome |-> "none"]

RejectUsages(usages) ==
  /\ answer.outcome = "none" /\ ~validAPIServerClientUsages(usages)
  /\ answer' = [outcome |-> "failed"]
  /\ UNCHANGED <<time, caNotAfter>>

RefuseToSign(expiration, usages) ==
  /\ answer.outcome = "none" /\ validAPIServerClientUsages(usages)
  /\ Certificate(expiration, usages).refused
  /\ answer' = [outcome |-> "refused"]
  /\ UNCHANGED <<time, caNotAfter>>

IssueCertificate(expiration, usages) ==
  /\ answer.outcome = "none" /\ validAPIServerClientUsages(usages)
  /\ ~Certificate(expiration, usages).refused
  /\ answer' = [outcome |-> "signed", expiration |-> expiration, usages |-> usages,
                cert |-> Certificate(expiration, usages)]
  /\ UNCHANGED <<time, caNotAfter>>

PolicyNext ==
  \E usages \in SUBSET Usages :
    \/ RejectUsages(usages)
    \/ \E e \in Requested : RefuseToSign(e, usages) \/ IssueCertificate(e, usages)

PolicySpec == PolicyInit /\ [][PolicyNext]_policyVars
-------------------------------------------------------------------------------
Issued == answer.outcome = "signed"

\* The requested duration, its two bounds, the backdating of both ends and the
\* end of the CA are applied one after the other, and usages are checked in two
\* files.  Still only an expired CA makes the signer refuse (which module
\* CSRSigner relies on), and a certificate can be used at once, spans thirty
\* days at most, never outlives the CA, and lasts ten minutes unless the CA
\* ends before.
UsableForBoundedTime ==
  /\ answer.outcome = "refused" => caNotAfter <= time
  /\ Issued =>
       /\ answer.cert.notBefore < time /\ time < answer.cert.notAfter
       /\ answer.cert.notAfter - answer.cert.notBefore <= certTTL
       /\ answer.cert.notAfter <= caNotAfter
       /\ answer.cert.notAfter >= time + MinTTL \/ answer.cert.notAfter = caNotAfter

\* At eight hours the policy starts to backdate the end, so that a longer
\* request may get a certificate that ends earlier than the one that was
\* signed: by the backdate at most.
LongerRequestsLastLonger ==
  Issued /\ answer.expiration # Unset =>
    \A n \in Expirations :
      answer.expiration[1] <= n =>
        Certificate(<<n>>, answer.usages).notAfter >= answer.cert.notAfter - Backdate

\* signer.go decides by its own list what is signed, ca.go translates by two
\* tables: what is signed authenticates clients and nothing else, and no more
\* than the request asked for.
ClientCertificatesOnly ==
  Issued =>
    /\ answer.cert.extKeyUsage = {"ClientAuth"}
    /\ answer.cert.keyUsage \subseteq answer.usages \cap {"DigitalSignature", "KeyEncipherment"}
===============================================================================
