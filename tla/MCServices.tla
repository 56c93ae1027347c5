----------------------------- MODULE MCServices -----------------------------
(* Model checking of Services: each component on a small instance.           *)
EXTENDS Services

\* Those that wait do so at one of their initial states.
Waiting ==
    /\ part = "health" \/ (hcDependency = [d \in Health!Dependencies |-> "ok"])
    /\ part = "boot" \/ (bootRecorded = {})

MCInit == ServicesInit /\ Waiting

MCSpec == MCInit /\ [][ServicesNext]_servicesVars /\ ServicesFairness
=============================================================================
