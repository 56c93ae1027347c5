----------------------------- MODULE HealthCheck -----------------------------
(***************************************************************************)
(* GET /health: the database and the file storage are probed in parallel,  *)
(* each for a limited time; requests that come meanwhile wait for the same *)
(* check, later ones get its report for as long as it is fresh.  Time      *)
(* passes in ticks: a timer that is due fires, and a promise that is       *)
(* settled is handled, before the next.                                    *)
(***************************************************************************)
EXTENDS Naturals, FiniteSets, FiniteSetsExt

CONSTANTS
    Requests,
    CacheTime,      \* CACHE_MS, in ticks
    CheckTimeout,   \* CHECK_TIMEOUT_MS, in ticks
    None

VARIABLES
    dependency,     \* how each dependency would answer a probe
    cached,         \* the last report and its age, no further than CacheTime
    inFlight,       \* the check on its way: its results so far, the ticks left
    waiting,        \* requests that wait for it
    answers,        \* the report each request was last answered with
    lastOk,         \* for the properties: ticks since a dependency last was ok
    sinceCheck      \* ... since the last check ended

vars == <<dependency, cached, inFlight, waiting, answers, lastOk, sinceCheck>>

Dependencies == {"database", "storage"}
Status == {"ok", "error"}
Report == [Dependencies -> Status]
Limit == CacheTime + CheckTimeout

TypeOK ==
    /\ dependency \in [Dependencies -> {"ok", "error", "hangs"}]
    /\ cached = None \/ cached \in [report : Report, age : 0..CacheTime]
    /\ inFlight = None \/ inFlight \in [results : [Dependencies -> Status \cup {None}],
                                        left : 0..CheckTimeout]
    /\ waiting \subseteq Requests
    /\ answers \in [Requests -> Report \cup {None}]
    /\ lastOk \in [Dependencies -> 0..(Limit + 1)]
    /\ sinceCheck \in 0..CacheTime

Init ==
    /\ dependency \in [Dependencies -> {"ok", "hangs"}]
    /\ cached = None /\ inFlight = None /\ waiting = {}
    /\ answers = [q \in Requests |-> None]
    /\ lastOk = [d \in Dependencies |-> IF dependency[d] = "ok" THEN 0 ELSE Limit + 1]
    /\ sinceCheck = CacheTime

Fresh == cached # None /\ cached.age < CacheTime

\* getHealthServ: the cached report, the check on its way, or a new check.
Ask(q) ==
    /\ q \notin waiting
    /\ IF Fresh
         THEN /\ answers' = [answers EXCEPT ![q] = cached.report]
              /\ UNCHANGED <<inFlight, waiting>>
         ELSE /\ waiting' = waiting \cup {q}
              /\ answers' = [answers EXCEPT ![q] = None]
              /\ inFlight' = IF inFlight # None THEN inFlight
                             ELSE [results |-> [d \in Dependencies |-> None], left |-> CheckTimeout]
    /\ UNCHANGED <<dependency, cached, lastOk, sinceCheck>>

Results(d, status) ==
    /\ inFlight # None /\ inFlight.results[d] = None
    /\ inFlight' = [inFlight EXCEPT !.results[d] = status]
    /\ UNCHANGED <<dependency, cached, waiting, answers, lastOk, sinceCheck>>

ProbeAnswers(d) ==
    /\ dependency[d] \in Status /\ Results(d, dependency[d])

\* check: the timer wins the race.
ProbeTimesOut(d) ==
    /\ inFlight # None /\ inFlight.left = 0
    /\ Results(d, "error")

Settled == \A d \in Dependencies : inFlight.results[d] # None

\* A slip: the promise of the check that has ended is kept.
KeepsPromise == inFlight

NoCheck == None

\* runChecks has both results: the report is kept and given to all who wait.
CheckEnds ==
    /\ inFlight # None /\ Settled
    /\ cached' = [report |-> inFlight.results, age |-> 0]
    /\ inFlight' = NoCheck
    /\ answers' = [q \in Requests |-> IF q \in waiting THEN inFlight.results ELSE answers[q]]
    /\ waiting' = {}
    /\ sinceCheck' = 0
    /\ UNCHANGED <<dependency, lastOk>>

Changes(d, how) ==
    /\ dependency' = [dependency EXCEPT ![d] = how]
    /\ lastOk' = [lastOk EXCEPT ![d] = IF how = "ok" THEN 0 ELSE @]
    /\ UNCHANGED <<cached, inFlight, waiting, answers, sinceCheck>>

Tick ==
    /\ inFlight # None => IF Settled THEN waiting = {} ELSE inFlight.left > 0
    /\ inFlight' = IF inFlight = None THEN None ELSE [inFlight EXCEPT !.left = Max({@ - 1, 0})]
    /\ cached' = IF cached = None THEN None ELSE [cached EXCEPT !.age = Min({@ + 1, CacheTime})]
    /\ lastOk' = [d \in Dependencies |-> IF dependency[d] = "ok" THEN 0 ELSE Min({lastOk[d] + 1, Limit + 1})]
    /\ sinceCheck' = Min({sinceCheck + 1, CacheTime})
    /\ UNCHANGED <<dependency, waiting, answers>>

Next ==
    \/ \E q \in Requests : Ask(q)
    \/ \E d \in Dependencies : ProbeAnswers(d) \/ ProbeTimesOut(d)
    \/ CheckEnds
    \/ \E d \in Dependencies, how \in Status \cup {"hangs"} : Changes(d, how)
    \/ Tick

\* Time passes, a timer that is due fires and a settled promise is handled.
Fairness ==
    /\ WF_vars(Tick) /\ WF_vars(CheckEnds)
    /\ \A d \in Dependencies : WF_vars(ProbeTimesOut(d))
Spec == Init /\ [][Next]_vars /\ Fairness
-----------------------------------------------------------------------------
(* What the health check guarantees. *)

\* No monitor is told of a dependency that it is well when it has not been, for
\* longer than a report is kept and a check may take.
OutageIsNoticed ==
    [][\A q \in Requests, d \in Dependencies :
         answers'[q] # answers[q] /\ answers'[q] # None /\ answers'[q][d] = "ok"
            => lastOk[d] <= Limit]_vars

\* However many ask, and whatever the report, the dependencies are probed no more
\* often than once in the time a report is kept.
CostIsBounded == [][inFlight = None /\ inFlight' # None => sinceCheck >= CacheTime]_vars

\* A dependency that hangs keeps no request waiting for ever.
EveryRequestAnswered == \A q \in Requests : q \in waiting ~> q \notin waiting
=============================================================================
