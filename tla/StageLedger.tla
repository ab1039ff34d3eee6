---------------------------- MODULE StageLedger ----------------------------
(***************************************************************************)
(* What the backend promises an auditor about a unit's past, with no       *)
(* requests, no shipments and no current stage in it: the rows of          *)
(* stage_history, the rows of stage_certificates and the is_active flag    *)
(* only ever grow, and each row that appears is justified by rows already  *)
(* there.  BessLifecycle, where requests read, wait and commit in any      *)
(* order, is shown to implement this specification.                        *)
(***************************************************************************)
EXTENDS BessStages

CONSTANT Unit

VARIABLES
    ledger,     \* [Unit -> the <<from_stage, to_stage>> pairs of its history]
    evidence,   \* [Unit -> the <<stage, kind>> pairs of its certificates]
    live        \* the units whose is_active is set

ledgerVars == <<ledger, evidence, live>>

CertificateKind == {"UPLOADED", "AUTO_HANDOVER_DOCUMENT"}

\* The certificate ensure_handover_document leaves behind.
HandoverDocument == <<"FINAL_ACCEPTANCE", "AUTO_HANDOVER_DOCUMENT">>

Entered(u, s) == \E p \in Stage : <<p, s>> \in ledger[u]

HasCertificate(u, s) == \E k \in CertificateKind : <<s, k>> \in evidence[u]

----------------------------------------------------------------------------

(* A row that leaves a gated stage follows a row that entered it.          *)
Unbroken ==
    \A u \in Unit : \A e \in ledger[u] :
        e[1] \in GatedStages => Entered(u, e[1])

(* A row that leaves a certificate stage has its certificate.              *)
Certified ==
    \A u \in Unit : \A e \in ledger[u] :
        e[1] \in LOGISTICS_CERT_REQUIRED_STAGES => HasCertificate(u, e[1])

(* The units in operation are those with an acceptance row, and each of    *)
(* them has its handover document.                                         *)
Accepted ==
    \A u \in Unit :
        /\ u \in live <=> <<"FINAL_ACCEPTANCE", "ACTIVE">> \in ledger[u]
        /\ u \in live => HandoverDocument \in evidence[u]

Sound == Unbroken /\ Certified /\ Accepted

----------------------------------------------------------------------------

Init ==
    /\ ledger \in [Unit -> SUBSET STAGE_TRANSITIONS]
    /\ evidence \in [Unit -> SUBSET (Stage \X CertificateKind)]
    /\ live \in SUBSET Unit
    /\ Sound

File(u, s) ==
    /\ evidence' = [evidence EXCEPT ![u] = @ \cup {<<s, "UPLOADED">>}]
    /\ UNCHANGED <<ledger, live>>

Record(u, e) ==
    /\ e[1] \in GatedStages => Entered(u, e[1])
    /\ e[1] \in LOGISTICS_CERT_REQUIRED_STAGES => HasCertificate(u, e[1])
    /\ ledger' = [ledger EXCEPT ![u] = @ \cup {e}]
    /\ IF e[2] = "ACTIVE"
       THEN /\ live' = live \cup {u}
            /\ evidence' = [evidence EXCEPT ![u] = @ \cup {HandoverDocument}]
       ELSE UNCHANGED <<live, evidence>>

Next ==
    \E u \in Unit :
        \/ \E s \in Stage : File(u, s)
        \/ \E e \in STAGE_TRANSITIONS : Record(u, e)

Spec == Init /\ [][Next]_ledgerVars
============================================================================
