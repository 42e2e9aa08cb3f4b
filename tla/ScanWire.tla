------------------------------ MODULE ScanWire ------------------------------
(***************************************************************************)
(* The records of an adaptive scan (iiod/spf-scan-protocol.c): one for     *)
(* every visit, the terminal record, the client's feedback on a visit and  *)
(* the receipt for it.  The encoders refuse a record that is not coherent, *)
(* and the decoders what they would not have encoded.                      *)
(*                                                                         *)
(* Records are those of Wire.  A checksum is taken to tell all records     *)
(* apart.  Rates, bandwidths, weights and gains are left out; frequencies  *)
(* and profiles go with the target.                                        *)
(***************************************************************************)
EXTENDS Wire

VisitBytes == 160           \* SPF_SCAN_VISIT_BYTES
TerminalBytes == 128        \* SPF_SCAN_TERMINAL_BYTES
FeedbackBytes == 112        \* SPF_SCAN_FEEDBACK_BYTES
AckBytes == 96              \* SPF_SCAN_ACK_BYTES
WireTargets == 8            \* SPF_SCAN_TARGETS
ProtocolVersion == 1        \* SPF_SCAN_PROTOCOL_VERSION, of finite scans
ContinuousVersion == 5      \* SPF_SCAN_CONTINUOUS_ORDERED_VERSION

Crc32(p) == p

Header(magic, version, bytes, flags) ==
    [o \in {0, 4, 6, 12} |-> CASE o = 0  -> magic
                               [] o = 4  -> version
                               [] o = 6  -> bytes
                               [] o = 12 -> flags]

\* A record and, in its last word, the checksum of what is before it.
Sealed(bytes, p) == [bytes |-> bytes, at |-> Put(p, Field(bytes - 4, Crc32(p)))]
Unsealed(w) == [o \in DOMAIN w.at \ {w.bytes - 4} |-> w.at[o]]

\* check: of the records here only visits have a second version.
Check(w, bytes, magic, flags) ==
    IF w.bytes # bytes THEN "EMSGSIZE"
    ELSE IF \/ Get(w.at, 0) # magic
            \/ Get(w.at, 4) \notin {ProtocolVersion}
                                   \cup IF magic = "VISIT" THEN {ContinuousVersion} ELSE {}
            \/ Get(w.at, 6) # bytes
    THEN "EPROTONOSUPPORT"
    ELSE IF Get(w.at, 12) # flags \/ Get(w.at, bytes - 4) # Crc32(Unsealed(w))
    THEN "EBADMSG" ELSE "OK"

-----------------------------------------------------------------------------
(* Visits *)

VisitLayout == [session |-> 16, visit |-> 32, selection_counter |-> 40,
                transition_before |-> 48, transition_after |-> 56, valid_start |-> 64,
                valid_end |-> 72, iq_bytes |-> 88, target |-> 112, result |-> 120]

\* dwell is spf_scan_ticks of the 20 ms of a continuous scan.
VisitValidate(v, version, dwell) ==
    LET samples == v.valid_end - v.valid_start
        whole == v.result = "COMPLETE"
    IN  /\ v.session > 0
        /\ v.transition_before <= v.transition_after
        /\ v.transition_after <= v.valid_start /\ v.valid_start <= v.valid_end
        /\ v.target < WireTargets
        /\ IF version = ContinuousVersion
           THEN samples <= dwell /\ (whole => samples = dwell)
           ELSE whole <=> v.iq_bytes # 0
        /\ whole \/ version = ContinuousVersion => v.iq_bytes \in {samples * 4, samples * 8}

VisitEncode(v, version, dwell) ==
    IF ~VisitValidate(v, version, dwell) THEN Bad("EINVAL")
    ELSE Good(Sealed(VisitBytes,
                     Put(Put(Fill(VisitLayout, v), Header("VISIT", version, VisitBytes, 1)),
                         Field(136, 1))))

VisitDecode(w, dwell) ==
    LET ret == Check(w, VisitBytes, "VISIT", Get(w.at, 12))
        v == Read(VisitLayout, w.at)
    IN  IF ret # "OK" THEN Bad(ret)
        ELSE IF Get(w.at, 136) # Get(w.at, 12) \/ ~VisitValidate(v, Get(w.at, 4), dwell)
        THEN Bad("EBADMSG") ELSE Good(v)

-----------------------------------------------------------------------------
(* The terminal record *)

TerminalLayout == [session |-> 16, final_counter |-> 32, restore_before |-> 40,
                   restore_after |-> 48, planned |-> 56, delivered |-> 64, skipped |-> 72,
                   invalid |-> 80, cancelled |-> 88, state |-> 104, error |-> 112]

\* Errors are 0 or negative.
TerminalValidate(t) ==
    /\ t.session > 0 /\ t.restore_before <= t.restore_after
    /\ t.state = "COMPLETED" => t.error = 0 /\ t.restore_before >= t.final_counter
    /\ t.state = "FAILED" => t.error < 0
    /\ t.planned = t.delivered + t.skipped + t.invalid + t.cancelled

TerminalEncode(t) ==
    IF ~TerminalValidate(t) THEN Bad("EINVAL")
    ELSE Good(Sealed(TerminalBytes,
                     Put(Put(Fill(TerminalLayout, t),
                             Header("TERMINAL", ProtocolVersion, TerminalBytes, 1)),
                         Field(116, 1))))

TerminalDecode(w) ==
    LET ret == Check(w, TerminalBytes, "TERMINAL", Get(w.at, 12))
        t == Read(TerminalLayout, w.at)
    IN  IF ret # "OK" THEN Bad(ret)
        ELSE IF Get(w.at, 116) # Get(w.at, 12) \/ ~TerminalValidate(t) THEN Bad("EBADMSG")
        ELSE Good(t)

-----------------------------------------------------------------------------
(* Feedback and its receipt.  A digest of zeros is none. *)

FeedbackLayout == [session |-> 16, sequence |-> 32, visit |-> 40, valid_start |-> 48,
                   valid_end |-> 56, target |-> 64, outcome |-> 68, digest |-> 72]

FeedbackValidate(f) ==
    /\ f.session > 0 /\ f.sequence > 0 /\ f.valid_start < f.valid_end
    /\ f.target < WireTargets /\ f.outcome \in {"UNKNOWN", "ACTIVE", "QUIET"}
    /\ f.digest # 0

FeedbackEncode(f) ==
    IF ~FeedbackValidate(f) THEN Bad("EINVAL")
    ELSE Good(Sealed(FeedbackBytes,
                     Put(Fill(FeedbackLayout, f),
                         Header("FEEDBACK", ProtocolVersion, FeedbackBytes, 0))))

FeedbackDecode(w) ==
    LET ret == Check(w, FeedbackBytes, "FEEDBACK", 0)
        f == Read(FeedbackLayout, w.at)
    IN  IF ret # "OK" THEN Bad(ret)
        ELSE IF Get(w.at, 104) # 0 \/ ~FeedbackValidate(f) THEN Bad("EBADMSG") ELSE Good(f)

NoFirstVisit == -1          \* UINT64_MAX

AckLayout == [sequence |-> 16, first_visit |-> 32, target |-> 56, result |-> 60]

AckValidate(a) ==
    /\ a.sequence > 0 /\ a.target < WireTargets
    /\ a.result = "APPLIED" <=> a.first_visit # NoFirstVisit

AckEncode(a) ==
    IF ~AckValidate(a) THEN Bad("EINVAL")
    ELSE Good(Sealed(AckBytes, Put(Fill(AckLayout, a),
                                   Header("ACK", ProtocolVersion, AckBytes, 0))))

AckDecode(w) ==
    LET ret == Check(w, AckBytes, "ACK", 0)
        a == Read(AckLayout, w.at)
    IN  IF ret # "OK" THEN Bad(ret)
        ELSE IF ~AckValidate(a) THEN Bad("EBADMSG") ELSE Good(a)
=============================================================================
