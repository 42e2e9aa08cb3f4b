---------------------------- MODULE MCHopSession ----------------------------
(***************************************************************************)
(* Model checking of HopSession: a fixed plan, an adaptive one at a sparse *)
(* rate, one in shadow mode, a short one of each other version, and        *)
(* requests that must be refused.  A dwell is two samples, or one.         *)
(***************************************************************************)
EXTENDS HopSession

MCRatesOf == (2 :> {25, 50}) @@ (3 :> {100}) @@ (4 :> {150, 200})
MCDwellOf == (25 :> 1) @@ (50 :> 1) @@ (100 :> 1) @@ (150 :> 2) @@ (200 :> 2)

Geometry(rate, dwell, count, span, guard) ==
    [flags |-> 3, session_id |-> 7, rate |-> rate, frequencies |-> TRUE, dwell |-> dwell,
     guard |-> guard, count |-> count, initial |-> 0, span |-> span,
     slots |-> [i \in Profile |-> ProfileCount - 1 - i]]

AdaptiveRequest(version, mode, geometry) ==
    [version |-> version, geometry |-> geometry,
     policy |-> [generation |-> 1, mode |-> mode, warmup_visits |-> 1, limits |-> "pinned"],
     host |-> IF version = 2 THEN NoHost
              ELSE [enabled |-> TRUE, rx |-> 0, filter |-> geometry.rate, digest |-> TRUE]]

MCRequests ==
    LET fixed == [version |-> 1, geometry |-> Geometry(60, 2, 2, 4, 0)]
        wide == AdaptiveRequest(4, "ADAPTIVE", Geometry(150, 2, 3, 6, 1))
    IN  {fixed, wide,
         AdaptiveRequest(4, "SHADOW", Geometry(200, 2, 2, 3, 0)),
         AdaptiveRequest(2, "ADAPTIVE", Geometry(25, 1, 2, 1, 0)),
         AdaptiveRequest(3, "ADAPTIVE", Geometry(100, 1, 2, 2, 0)),
         \* a span of more dwells than asked for, a guard that leaves no dwell,
         \* two profiles in one slot
         [fixed EXCEPT !.geometry.span = 5], [fixed EXCEPT !.geometry.guard = 2],
         [fixed EXCEPT !.geometry.slots = [i \in Profile |-> 0]],
         \* other limits, the filter of another rate, the rate of another version
         [wide EXCEPT !.policy.limits = "other"], [wide EXCEPT !.host.filter = 200],
         [wide EXCEPT !.geometry.rate = 100]}
=============================================================================
