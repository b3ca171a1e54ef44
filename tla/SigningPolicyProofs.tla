-------------------------- MODULE SigningPolicyProofs --------------------------
(***************************************************************************)
(* Proofs about the signing policy, for all instants, requested durations  *)
(* and usages.                                                             *)
(***************************************************************************)
EXTENDS SigningPolicy, TLAPS

\* duration keeps any request within ten minutes and thirty days.
LEMMA DurationBounds ==
  ASSUME NEW e \in Requested
  PROVE  duration(e) \in Int /\ MinTTL <= duration(e) /\ duration(e) <= certTTL
<1>1. CASE e = Unset
  BY <1>1 DEF duration, certTTL, MinTTL
<1>2. CASE e # Unset
  <2>1. PICK n \in Expirations : e = <<n>>
    BY <1>2 DEF Requested
  <2>2. n \in Int /\ e[1] = n
    BY <2>1, PolicyAssumption
  <2> QED BY <1>2, <2>2 DEF duration, certTTL, MinTTL
<1> QED BY <1>1, <1>2

\* duration preserves the order of requests.
LEMMA DurationMonotone ==
  ASSUME NEW a \in Int, NEW b \in Int, a <= b
  PROVE  duration(<<a>>) <= duration(<<b>>)
BY DEF duration, certTTL, MinTTL, Unset

\* What keyUsagesFromStrings makes of a list that validAPIServerClientUsages
\* lets through.
LEMMA ClientUsages ==
  ASSUME NEW usages, validAPIServerClientUsages(usages)
  PROVE  /\ keyUsagesFromStrings(usages).unrecognized = {}
         /\ keyUsagesFromStrings(usages).extKeyUsages = {"ClientAuth"}
         /\ keyUsagesFromStrings(usages).keyUsage \subseteq usages \cap {"DigitalSignature", "KeyEncipherment"}
<1>1. usages \subseteq {"DigitalSignature", "KeyEncipherment", "ClientAuth"} /\ "ClientAuth" \in usages
  BY DEF validAPIServerClientUsages
<1>2. usages \cap DOMAIN keyUsageDict \subseteq {"DigitalSignature", "KeyEncipherment"}
  BY <1>1 DEF keyUsageDict
<1>3. usages \cap DOMAIN extKeyUsageDict = {"ClientAuth"} /\ extKeyUsageDict["ClientAuth"] = "ClientAuth"
  BY <1>1 DEF extKeyUsageDict
<1>4. keyUsageDict["DigitalSignature"] = "DigitalSignature"
      /\ keyUsageDict["KeyEncipherment"] = "KeyEncipherment"
  BY DEF keyUsageDict
<1>5. usages \ (DOMAIN keyUsageDict \cup DOMAIN extKeyUsageDict) = {}
  BY <1>1 DEF keyUsageDict, extKeyUsageDict
<1>6. {keyUsageDict[u] : u \in usages \cap DOMAIN keyUsageDict}
        \subseteq usages \cap {"DigitalSignature", "KeyEncipherment"}
  BY <1>2, <1>4
<1>7. {extKeyUsageDict[u] : u \in usages \cap DOMAIN extKeyUsageDict} = {"ClientAuth"}
  BY <1>3
<1> QED BY <1>5, <1>6, <1>7 DEF keyUsagesFromStrings

\* What the signer would answer now: who is refused, and the bounds of a
\* certificate.
LEMMA SignBounds ==
  ASSUME NEW e \in Requested, NEW usages, validAPIServerClientUsages(usages),
         time \in Times, caNotAfter \in Times
  PROVE  LET cert == Certificate(e, usages) IN
         /\ cert.refused <=> caNotAfter <= time
         /\ ~cert.refused =>
              /\ cert.notBefore < time /\ time < cert.notAfter
              /\ cert.notAfter - cert.notBefore <= certTTL
              /\ cert.notAfter <= caNotAfter
              /\ cert.notAfter >= time + MinTTL \/ cert.notAfter = caNotAfter
<1> DEFINE ttl == duration(e)
           last == IF ttl < Short THEN time + ttl ELSE time + ttl - Backdate
           cert == Certificate(e, usages)
<1>1. time \in Int /\ caNotAfter \in Int
  BY PolicyAssumption
<1>2. ttl \in Int /\ MinTTL <= ttl /\ ttl <= certTTL
  BY DurationBounds
<1>3. cert.notBefore = time - Backdate
      /\ cert.notAfter = (IF last < caNotAfter THEN last ELSE caNotAfter)
  BY DEF Certificate, apply
<1>4. cert.refused <=> \/ keyUsagesFromStrings(usages).unrecognized # {}
                       \/ caNotAfter <= time - Backdate \/ caNotAfter <= time
  BY Zenon DEF Certificate, apply
<1>5. cert.refused <=> caNotAfter <= time - Backdate \/ caNotAfter <= time
  BY <1>4, ClientUsages, Zenon
<1>6. (caNotAfter <= time - Backdate \/ caNotAfter <= time) <=> ~(time < caNotAfter)
  BY <1>1 DEF Backdate
<1>7. caNotAfter <= time <=> ~(time < caNotAfter)
  BY <1>1
<1>8. time + MinTTL <= last /\ last - (time - Backdate) <= certTTL
  BY <1>1, <1>2 DEF Backdate, Short, MinTTL, certTTL
<1>9. time < caNotAfter =>
        /\ cert.notBefore < time /\ time < cert.notAfter
        /\ cert.notAfter - cert.notBefore <= certTTL
        /\ cert.notAfter <= caNotAfter
        /\ cert.notAfter >= time + MinTTL \/ cert.notAfter = caNotAfter
  <2> HIDE DEF cert, ttl
  <2>1. last \in Int
    BY <1>1, <1>2 DEF Backdate
  <2> HIDE DEF last
  <2> QED BY <1>1, <1>3, <1>8, <2>1 DEF Backdate, MinTTL, certTTL
<1> QED BY <1>5, <1>6, <1>7, <1>9, Zenon
-------------------------------------------------------------------------------
\* The request was let through, and its certificate is the one the policy
\* yields: neither the time nor the CA change while a request is answered.
PolicyInv ==
  /\ time \in Times /\ caNotAfter \in Times
  /\ answer.outcome = "refused" => caNotAfter <= time
  /\ Issued =>
       /\ answer.expiration \in Requested
       /\ validAPIServerClientUsages(answer.usages)
       /\ answer.cert = Certificate(answer.expiration, answer.usages)
       /\ ~answer.cert.refused

\* Every answer is the policy's: PolicyInv holds of every behaviour.
THEOREM PolicyInvariant == PolicySpec => []PolicyInv
<1>1. PolicyInit => PolicyInv
  BY DEF PolicyInit, PolicyInv, Issued
<1>2. PolicyInv /\ [PolicyNext]_policyVars => PolicyInv'
  <2> SUFFICES ASSUME PolicyInv, [PolicyNext]_policyVars
               PROVE  PolicyInv'
    OBVIOUS
  <2>1. ASSUME NEW usages, RejectUsages(usages)
        PROVE  PolicyInv'
    BY <2>1 DEF RejectUsages, PolicyInv, Issued
  <2>2. ASSUME NEW usages, NEW e \in Requested, RefuseToSign(e, usages)
        PROVE  PolicyInv'
    <3>1. caNotAfter <= time
      BY <2>2, SignBounds DEF RefuseToSign, PolicyInv
    <3> QED BY <2>2, <3>1 DEF RefuseToSign, PolicyInv, Issued
  <2>3. ASSUME NEW usages, NEW e \in Requested, IssueCertificate(e, usages)
        PROVE  PolicyInv'
    <3>1. /\ answer'.outcome = "signed" /\ answer'.expiration = e
          /\ answer'.usages = usages /\ answer'.cert = Certificate(e, usages)
      BY <2>3 DEF IssueCertificate
    <3>2. Certificate(answer.expiration, answer.usages)' = Certificate(e, usages)
      BY <2>3, <3>1 DEF IssueCertificate, Certificate
    <3> QED BY <2>3, <3>1, <3>2 DEF IssueCertificate, PolicyInv, Issued
  <2>4. CASE UNCHANGED policyVars
    BY <2>4 DEF policyVars, PolicyInv, Issued, Certificate, apply
  <2> QED BY <2>1, <2>2, <2>3, <2>4 DEF PolicyNext
<1> QED BY <1>1, <1>2, PTL DEF PolicySpec

\* For all instants, ends of the CA and requested durations: only an expired CA
\* refuses, and the certificate keeps its bounds
\* (PermissiveSigningPolicy.apply under csrSigningController.duration).
THEOREM CertificatesBounded == PolicySpec => []UsableForBoundedTime
<1>1. PolicyInv => UsableForBoundedTime
  BY SignBounds DEF PolicyInv, UsableForBoundedTime, Issued
<1> QED BY <1>1, PolicyInvariant, PTL

\* Asking for more costs five minutes at most, whatever else was asked, at any
\* instant and with any CA.
THEOREM OrderKept == PolicySpec => []LongerRequestsLastLonger
<1>1. PolicyInv => LongerRequestsLastLonger
  <2> SUFFICES ASSUME PolicyInv, Issued, answer.expiration # Unset,
                      NEW n \in Expirations, answer.expiration[1] <= n
               PROVE  Certificate(<<n>>, answer.usages).notAfter >= answer.cert.notAfter - Backdate
    BY DEF LongerRequestsLastLonger
  <2>1. PICK m \in Expirations : answer.expiration = <<m>>
    BY DEF PolicyInv, Requested
  <2>2. time \in Int /\ caNotAfter \in Int /\ m \in Int /\ n \in Int /\ m <= n
    BY <2>1, PolicyAssumption DEF PolicyInv
  <2>3. /\ duration(<<m>>) \in Int /\ duration(<<n>>) \in Int
        /\ duration(<<m>>) <= duration(<<n>>)
    BY <2>2, DurationMonotone, DurationBounds DEF Requested
  <2>4. answer.cert = Certificate(<<m>>, answer.usages)
    BY <2>1 DEF PolicyInv
  <2> QED BY <2>2, <2>3, <2>4 DEF Certificate, apply, Backdate, Short
<1> QED BY <1>1, PolicyInvariant, PTL

\* Whatever usages a request lists: what validAPIServerClientUsages lets
\* through keyUsagesFromStrings translates, to client authentication and to
\* nothing that was not asked for.
THEOREM ClientsOnly == PolicySpec => []ClientCertificatesOnly
<1>1. PolicyInv => ClientCertificatesOnly
  <2> SUFFICES ASSUME PolicyInv, Issued
               PROVE  /\ answer.cert.extKeyUsage = {"ClientAuth"}
                      /\ answer.cert.keyUsage \subseteq answer.usages \cap {"DigitalSignature", "KeyEncipherment"}
    BY DEF ClientCertificatesOnly
  <2>1. /\ validAPIServerClientUsages(answer.usages)
        /\ answer.cert = Certificate(answer.expiration, answer.usages)
    BY DEF PolicyInv
  <2>2. /\ answer.cert.extKeyUsage = keyUsagesFromStrings(answer.usages).extKeyUsages
        /\ answer.cert.keyUsage = keyUsagesFromStrings(answer.usages).keyUsage
    BY <2>1 DEF Certificate, apply
  <2> QED BY <2>1, <2>2, ClientUsages, Zenon
<1> QED BY <1>1, PolicyInvariant, PTL
===============================================================================
