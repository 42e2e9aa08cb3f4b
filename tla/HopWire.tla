------------------------------- MODULE HopWire -------------------------------
(***************************************************************************)
(* The records of the persistent hop (iiod/spf-hop-protocol.c,             *)
(* iiod/spf-hop-adaptive-protocol.c): the request a client opens a capture *)
(* with, the sidecar that describes the events of a block, and the status. *)
(* Each encoder validates before it writes and each decoder after it has   *)
(* read; the later versions wrap the first.                                *)
(*                                                                         *)
(* The records are those of Wire.  Bit masks are sets of                   *)
(* names.  Frequencies are left out: that they match is part of            *)
(* r.frequencies.  The limits of a policy are "pinned" (the only ones      *)
(* iiod serves), "other" (well formed) or "invalid".                       *)
(***************************************************************************)
EXTENDS Wire

CONSTANTS
    ProfileCount,   \* SPF_HOP_PROFILE_COUNT
    EventCapacity,  \* SPF_HOP_EVENT_CAPACITY
    RatesOf,        \* the rates of the adaptive requests: 2 (two), 3 (one), 4 (two)
    DwellOf,        \* samples in 120 ms at each of these rates
    WarmupVisits    \* warmup_visits of the pinned policy

ASSUME WireAssumption ==
    /\ ProfileCount \in Nat \ {0, 1} /\ EventCapacity \in Nat \ {0}
    /\ DOMAIN RatesOf = 2 .. 4
    /\ DwellOf \in [UNION {RatesOf[v] : v \in 2 .. 4} -> Nat \ {0}]
    /\ WarmupVisits \in Nat \ {0}

Profile == 0 .. ProfileCount - 1
None == ProfileCount            \* SPF_HOP_PROFILE_NONE

RequestBytes == 288
AdaptiveRequestBytes == 352
HostRequestBytes == 416
SidecarHeaderBytes == 64
EventBytes == 80
AdaptiveEventBytes == 144
StatusBytes == 160

Features(version) == CASE version = 1 -> 31 [] version = 2 -> 63
                       [] version = 3 -> 127 [] version = 4 -> 255

-----------------------------------------------------------------------------
(* The request. *)

GeometryLayout == [flags |-> 12, session_id |-> 16, rate |-> 24, frequencies |-> 40,
                   dwell |-> 48, guard |-> 56, count |-> 64, initial |-> 74, span |-> 88,
                   slots |-> 97]

ValidateRequest(g) ==
    /\ g.flags = 3 /\ g.session_id > 0 /\ g.rate > 0 /\ g.frequencies
    /\ g.dwell > 0 /\ g.count > 0 /\ g.span >= g.dwell
    /\ g.span <= g.count * g.dwell
    /\ g.guard < g.dwell /\ g.initial = 0
    /\ DOMAIN g.slots = Profile /\ {g.slots[i] : i \in Profile} = Profile

\* What spf_hop_request_v1_encode writes.
RequestV1Wire(g) ==
    [bytes |-> RequestBytes,
     at |-> Put(Fill(GeometryLayout, g),
                0 :> "HOPR" @@ 4 :> 1 @@ 6 :> RequestBytes @@ 8 :> Features(1)
                @@ 72 :> ProfileCount @@ 76 :> EventBytes @@ 78 :> StatusBytes)]

RequestV1Encode(g) ==
    IF ValidateRequest(g) THEN Good(RequestV1Wire(g)) ELSE Bad("EINVAL")

RequestV1Decode(w) ==
    IF w.bytes # RequestBytes THEN Bad("EMSGSIZE")
    ELSE IF Get(w.at, 0) # "HOPR" \/ Get(w.at, 4) # 1 \/ Get(w.at, 6) # RequestBytes
    THEN Bad("EPROTONOSUPPORT")
    ELSE IF \/ Get(w.at, 72) # ProfileCount
            \/ Get(w.at, 76) # EventBytes \/ Get(w.at, 78) # StatusBytes
    THEN Bad("EBADMSG")
    ELSE IF Get(w.at, 8) # Features(1) \/ ~ValidateRequest(Read(GeometryLayout, w.at))
    THEN Bad("EINVAL")
    ELSE Good([geometry |-> Read(GeometryLayout, w.at)])

PolicyLayout == [generation |-> 0, mode |-> 8, warmup_visits |-> 12, limits |-> 16]

ValidPolicy(r, version) ==
    /\ r.policy.generation > 0 /\ r.policy.mode \in {"SHADOW", "ADAPTIVE"}
    /\ r.geometry.rate \in RatesOf[version]
    /\ r.geometry.dwell = DwellOf[r.geometry.rate]
    /\ r.geometry.count >= r.policy.warmup_visits * ProfileCount
    /\ r.policy.warmup_visits > 0 /\ r.policy.limits # "invalid"

\* host.factor, delay and supported_start are those of a rate; a digest of zeros
\* is none.
HostLayout == [enabled |-> 0, rx |-> 4, filter |-> 12, digest |-> 32]
NoHost == [enabled |-> FALSE, rx |-> 0, filter |-> 0, digest |-> FALSE]

\* multirate_host_geometry, and the table of version 3.
HostGeometry(r) == r.host.filter = r.geometry.rate

\* The words of a request of version 2, 3 or 4 around the geometry.
AdaptiveRequestBytesOf(version) == IF version = 2 THEN AdaptiveRequestBytes ELSE HostRequestBytes

RequestAdaptiveWire(version, r) ==
    LET bytes == AdaptiveRequestBytesOf(version)
    IN  [bytes |-> bytes,
         at |-> Put(RequestV1Wire(r.geometry).at,
                    4 :> version @@ 6 :> bytes @@ 8 :> Features(version)
                    @@ 76 :> AdaptiveEventBytes
                    @@ At(288, Fill(PolicyLayout, r.policy))
                    @@ (IF version = 2 THEN Zero ELSE At(352, Fill(HostLayout, r.host))))]

RequestV2Encode(r) ==
    IF ~ValidPolicy(r, 2) \/ r.host # NoHost \/ ~ValidateRequest(r.geometry) THEN Bad("EINVAL")
    ELSE Good(RequestAdaptiveWire(2, r))

RequestV3Encode(r) ==
    IF \/ ~ValidPolicy(r, 3) \/ ~r.host.enabled \/ r.host.rx \notin {0, 1}
       \/ ~HostGeometry(r) \/ ~r.host.digest \/ ~ValidateRequest(r.geometry) THEN Bad("EINVAL")
    ELSE Good(RequestAdaptiveWire(3, r))

RequestV4Encode(r) ==
    IF \/ ~HostGeometry(r) \/ ~ValidPolicy(r, 4) \/ ~r.host.enabled \/ r.host.rx # 0
       \/ ~r.host.digest \/ ~ValidateRequest(r.geometry) THEN Bad("EINVAL")
    ELSE Good(RequestAdaptiveWire(4, r))

\* The geometry is read by the decoder of version 1 from a private copy.
GeometryDecode(w) ==
    RequestV1Decode([bytes |-> RequestBytes,
                     at |-> Put(From(w.at, 0, RequestBytes),
                                4 :> 1 @@ 6 :> RequestBytes @@ 8 :> Features(1)
                                @@ 76 :> EventBytes)])

HeaderIs(w, version) ==
    /\ Get(w.at, 0) = "HOPR" /\ Get(w.at, 4) = version
    /\ Get(w.at, 6) = AdaptiveRequestBytesOf(version)

RequestV2Decode(w) ==
    LET g == GeometryDecode(w)
        r == [geometry |-> g.value.geometry, host |-> NoHost,
              policy |-> Read(PolicyLayout, From(w.at, 288, 64))]
    IN  IF w.bytes # AdaptiveRequestBytes THEN Bad("EMSGSIZE")
        ELSE IF ~HeaderIs(w, 2) THEN Bad("EPROTONOSUPPORT")
        ELSE IF Get(w.at, 8) # Features(2) \/ Get(w.at, 76) # AdaptiveEventBytes
        THEN Bad("EBADMSG")
        ELSE IF g.ret # "OK" THEN g
        ELSE IF ~ValidPolicy(r, 2) THEN Bad("EBADMSG") ELSE Good(r)

HostRequest(w) ==
    [geometry |-> GeometryDecode(w).value.geometry,
     policy |-> Read(PolicyLayout, From(w.at, 288, 64)),
     host |-> Read(HostLayout, From(w.at, 352, 64))]

RequestV3Decode(w) ==
    IF w.bytes # HostRequestBytes THEN Bad("EMSGSIZE")
    ELSE IF ~HeaderIs(w, 3) THEN Bad("EPROTONOSUPPORT")
    ELSE IF Get(w.at, 8) # Features(3) \/ Get(w.at, 76) # AdaptiveEventBytes THEN Bad("EBADMSG")
    ELSE IF GeometryDecode(w).ret # "OK" THEN GeometryDecode(w)
    ELSE IF RequestV3Encode(HostRequest(w)).ret # "OK" THEN RequestV3Encode(HostRequest(w))
    ELSE Good(HostRequest(w))

\* Version 4 also wants to write the very words it read.
RequestV4Decode(w) ==
    IF w.bytes # HostRequestBytes THEN Bad("EMSGSIZE")
    ELSE IF ~HeaderIs(w, 4) \/ Get(w.at, 8) # Features(4) THEN Bad("EPROTONOSUPPORT")
    ELSE IF Get(w.at, 76) # AdaptiveEventBytes THEN Bad("EBADMSG")
    ELSE IF GeometryDecode(w).ret # "OK" THEN GeometryDecode(w)
    ELSE IF \/ RequestV4Encode(HostRequest(w)).ret # "OK"
            \/ RequestV4Encode(HostRequest(w)).value # w THEN Bad("EBADMSG")
    ELSE Good(HostRequest(w))

\* spf_hop_adaptive_configuration and spf_hop_adaptive_policy_validate_pinned
AdaptiveConfiguration(r) ==
    IF ~r.host.enabled THEN RequestV2Encode(r)
    ELSE IF r.geometry.rate \in RatesOf[3] THEN RequestV3Encode(r) ELSE RequestV4Encode(r)
ValidatePinned(r) ==
    /\ AdaptiveConfiguration(r).ret = "OK"
    /\ r.policy.limits = "pinned" /\ r.policy.warmup_visits = WarmupVisits

-----------------------------------------------------------------------------
(* Events, sidecar and status of version 1. *)

EventLayout == [sequence |-> 0, dwell_index |-> 8, before |-> 16, after |-> 24,
                invalid_start |-> 32, invalid_end |-> 40, from |-> 48, to |-> 49,
                kind |-> 50, no_recall |-> 51, id |-> 72]

ValidateEvent(e) ==
    /\ e.kind \in {"STARTUP", "RETUNE"} /\ e.to \in Profile /\ e.before <= e.after
    /\ IF e.no_recall
       THEN /\ e.kind = "RETUNE" /\ e.from = e.to /\ e.id = 0 /\ e.before = e.after
            /\ e.invalid_start = e.invalid_end
       ELSE e.id > 0 /\ e.invalid_start <= e.before /\ e.invalid_end >= e.after

StatusFlag == {"TERMINAL", "DEVICE_EVENT_OVERFLOW", "CONTINUITY_FAULT", "RESTORE_ATTEMPTED",
               "RESTORE_SUCCEEDED", "RESTORE_REQUIRED"}
Closed == {"CLIENT_CLOSE", "CLIENT_DISCONNECT"}

\* Errors are 0 or negative.
ValidateState(state, reason, error, flags) ==
    /\ flags \subseteq StatusFlag /\ "RESTORE_REQUIRED" \in flags
    /\ "RESTORE_SUCCEEDED" \in flags => "RESTORE_ATTEMPTED" \in flags
    /\ state \in {"COMPLETED", "CANCELLED", "FAILED"} <=> "TERMINAL" \in flags
    /\ CASE state = "COMPLETED" -> reason = "PLAN_COMPLETE" /\ error = 0
         [] state = "CANCELLED" -> reason \in Closed /\ error = 0
         [] state = "FAILED" -> reason \notin Closed \cup {"NONE", "PLAN_COMPLETE"} /\ error < 0
         [] OTHER -> reason = "NONE" /\ error = 0

SidecarLayout == [flags |-> 16, session_id |-> 24, buffer_sequence |-> 32, first |-> 40,
                  end |-> 48, state |-> 56, reason |-> 58, error |-> 60]

ValidateSidecar(s) ==
    /\ ValidateState(s.state, s.reason, s.error, s.flags)
    /\ s.session_id > 0 /\ s.first < s.end

\* The events of a record, each of eventBytes bytes, and each of them as a
\* function of offsets within it.
Events(p, count, eventBytes) ==
    [i \in 1 .. count |-> From(p, SidecarHeaderBytes + (i - 1) * eventBytes, eventBytes)]
WithEvents(p, events, eventBytes) ==
    [o \in DOMAIN p \cup UNION {{SidecarHeaderBytes + (i - 1) * eventBytes + f :
                                    f \in DOMAIN events[i]} : i \in DOMAIN events}
        |-> IF o \in DOMAIN p THEN p[o]
            ELSE LET i == (o - SidecarHeaderBytes) \div eventBytes
                 IN  events[i + 1][(o - SidecarHeaderBytes) % eventBytes]]

SidecarV1Encode(s) ==
    IF Len(s.events) > EventCapacity \/ ~ValidateSidecar(s)
       \/ \E i \in DOMAIN s.events : ~ValidateEvent(s.events[i]) THEN Bad("EINVAL")
    ELSE LET bytes == SidecarHeaderBytes + Len(s.events) * EventBytes
         IN  Good([bytes |-> bytes,
                   at |-> WithEvents(Put(Fill(SidecarLayout, s),
                                0 :> "HOPS" @@ 4 :> 1 @@ 6 :> SidecarHeaderBytes @@ 8 :> bytes
                                @@ 12 :> Features(1) @@ 20 :> Len(s.events)
                                @@ 22 :> EventCapacity),
                             [i \in DOMAIN s.events |-> Fill(EventLayout, s.events[i])],
                             EventBytes)])

SidecarV1Decode(w) ==
    LET s == Read(SidecarLayout, w.at)
        count == Get(w.at, 20)
        wired == Events(w.at, count, EventBytes)
        events == [i \in DOMAIN wired |-> Read(EventLayout, wired[i])]
    IN  IF w.bytes < SidecarHeaderBytes THEN Bad("EMSGSIZE")
        ELSE IF Get(w.at, 0) # "HOPS" \/ Get(w.at, 4) # 1 \/ Get(w.at, 6) # SidecarHeaderBytes
        THEN Bad("EPROTONOSUPPORT")
        ELSE IF \/ Get(w.at, 8) # w.bytes \/ Get(w.at, 12) # Features(1)
                \/ count > EventCapacity \/ Get(w.at, 22) # EventCapacity
                \/ w.bytes # SidecarHeaderBytes + count * EventBytes
                \/ ~ValidateSidecar(s) THEN Bad("EBADMSG")
        ELSE IF \E i \in DOMAIN events : ~ValidateEvent(events[i]) THEN Bad("EINVAL")
        ELSE Good([events |-> events] @@ s)

StatusLayout == [state |-> 12, reason |-> 14, error |-> 16, flags |-> 20, session_id |-> 24,
                 planned |-> 32, visits |-> 40, last_block_end |-> 72,
                 final_counter |-> 88, restore_error |-> 120,
                 active |-> 124, startup |-> 128, dropped |-> 144]

ValidateStatus(s) ==
    /\ ValidateState(s.state, s.reason, s.error, s.flags)
    /\ s.session_id > 0 /\ s.planned > 0 /\ s.active \in Profile \cup {None}

StatusV1Encode(s) ==
    IF ~ValidateStatus(s) THEN Bad("EINVAL")
    ELSE Good([bytes |-> StatusBytes,
               at |-> Put(Fill(StatusLayout, s),
                          0 :> "HOPT" @@ 4 :> 1 @@ 6 :> StatusBytes @@ 8 :> Features(1))])

StatusV1Decode(w) ==
    IF w.bytes # StatusBytes THEN Bad("EMSGSIZE")
    ELSE IF Get(w.at, 0) # "HOPT" \/ Get(w.at, 4) # 1 \/ Get(w.at, 6) # StatusBytes
    THEN Bad("EPROTONOSUPPORT")
    ELSE IF Get(w.at, 8) # Features(1) \/ ~ValidateStatus(Read(StatusLayout, w.at))
    THEN Bad("EBADMSG")
    ELSE Good(Read(StatusLayout, w.at))

-----------------------------------------------------------------------------
(* The adaptive versions: a choice follows each event. *)

\* basis is -1 for none.
ChoiceLayout == [decision |-> 0, basis |-> 8, generation |-> 24, proposed |-> 32, mode |-> 52]

ChoiceV2Validate(c, e) ==
    /\ c.generation > 0 /\ c.proposed \in Profile /\ c.basis < e.dwell_index
    /\ c.decision <= e.before /\ c.mode \in {"SHADOW", "ADAPTIVE"}
    /\ c.mode = "ADAPTIVE" => c.proposed = e.to
    /\ c.mode = "SHADOW" => e.to = e.dwell_index % ProfileCount

SidecarV2Encode(s) ==
    LET old == SidecarV1Encode(s.geometry)
        count == Len(s.geometry.events)
        bytes == SidecarHeaderBytes + count * AdaptiveEventBytes
        wired == Events(old.value.at, count, EventBytes)
    IN  IF old.ret # "OK" THEN old
        ELSE IF \E i \in 1 .. count : ~ChoiceV2Validate(s.choices[i], s.geometry.events[i])
        THEN Bad("EINVAL")
        ELSE Good([bytes |-> bytes,
                   at |-> WithEvents(Put(From(old.value.at, 0, SidecarHeaderBytes),
                                         4 :> 2 @@ 8 :> bytes @@ 12 :> Features(2)),
                             [i \in 1 .. count |-> wired[i] @@
                                 At(EventBytes, Fill(ChoiceLayout, s.choices[i]))],
                             AdaptiveEventBytes)])

SidecarV2Decode(w) ==
    LET count == Get(w.at, 20)
        bytes == SidecarHeaderBytes + count * EventBytes
        wired == Events(w.at, count, AdaptiveEventBytes)
        choices == [i \in DOMAIN wired |-> Read(ChoiceLayout, From(wired[i], EventBytes, 64))]
        g == SidecarV1Decode([bytes |-> bytes,
                at |-> WithEvents(Put(From(w.at, 0, SidecarHeaderBytes),
                                      4 :> 1 @@ 8 :> bytes @@ 12 :> Features(1)),
                          [i \in DOMAIN wired |-> From(wired[i], 0, EventBytes)], EventBytes)])
    IN  IF w.bytes < SidecarHeaderBytes THEN Bad("EMSGSIZE")
        ELSE IF Get(w.at, 0) # "HOPS" \/ Get(w.at, 4) # 2 \/ Get(w.at, 6) # SidecarHeaderBytes
        THEN Bad("EPROTONOSUPPORT")
        ELSE IF \/ count > EventCapacity \/ Get(w.at, 8) # w.bytes
                \/ w.bytes # SidecarHeaderBytes + count * AdaptiveEventBytes
                \/ Get(w.at, 12) # Features(2) THEN Bad("EBADMSG")
        ELSE IF g.ret # "OK" THEN g
        ELSE IF \E i \in 1 .. count : ~ChoiceV2Validate(choices[i], g.value.events[i])
        THEN Bad("EBADMSG")
        ELSE Good([geometry |-> g.value, choices |-> choices])

SidecarV3Encode(s) ==
    LET w == SidecarV2Encode(s)
    IN  IF w.ret # "OK" THEN w
        ELSE Good([w.value EXCEPT !.at = Put(@, 4 :> 3 @@ 12 :> Features(3))])

SidecarV3Decode(w) ==
    IF w.bytes < SidecarHeaderBytes THEN Bad("EMSGSIZE")
    ELSE IF Get(w.at, 4) # 3 \/ Get(w.at, 12) # Features(3) THEN Bad("EPROTONOSUPPORT")
    ELSE SidecarV2Decode([w EXCEPT !.at = Put(@, 4 :> 2 @@ 12 :> Features(2))])

StatusV2Encode(s) ==
    LET w == StatusV1Encode(s)
    IN  IF w.ret # "OK" THEN w
        ELSE Good([w.value EXCEPT !.at = Put(@, 4 :> 2 @@ 8 :> Features(2))])

StatusV2Decode(w) ==
    IF w.bytes # StatusBytes THEN Bad("EMSGSIZE")
    ELSE IF Get(w.at, 0) # "HOPT" \/ Get(w.at, 4) # 2 \/ Get(w.at, 6) # StatusBytes
    THEN Bad("EPROTONOSUPPORT")
    ELSE IF Get(w.at, 8) # Features(2) THEN Bad("EBADMSG")
    ELSE StatusV1Decode([w EXCEPT !.at = Put(@, 4 :> 1 @@ 8 :> Features(1))])

\* spf_hop_status_v3_encode
StatusV3Encode(s) ==
    LET w == StatusV2Encode(s)
    IN  IF w.ret # "OK" THEN w
        ELSE Good([w.value EXCEPT !.at = Put(@, 4 :> 3 @@ 8 :> Features(3))])
=============================================================================
