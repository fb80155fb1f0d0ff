------------------------------ MODULE ErrorRate ------------------------------
(***************************************************************************)
(* The request metrics of one instance (MetricsService: a bounded table of *)
(* routes and a ring of samples) and the ErrorRateMonitor that polls them  *)
(* and alerts.  Time is a counter; rates are pairs of naturals compared by *)
(* multiplying out, thresholds are percentages.                            *)
(***************************************************************************)
EXTENDS Naturals, Sequences, FiniteSets

CONSTANTS Route,
          MaxRoutes, Capacity,            \* MAX_ROUTES, WINDOW_CAPACITY
          Window, MinSamples, Threshold,  \* MetricsConfig
          Cooldown,
          Poll,                           \* pollMs
          MaxRequests, MaxAlerts, Duration  \* bound the requests, the alerts by readers, and the time

ASSUME ErrorRateAssumption ==
    /\ MaxRoutes \in Nat /\ Capacity \in Nat \ {0} /\ Poll \in Nat \ {0}
    /\ {Window, MinSamples, Threshold, Cooldown, MaxRequests, MaxAlerts, Duration} \subseteq Nat

VARIABLES
    now,
    routes,                     \* the table: the counters of each route template in it
    samples, nextSampleIndex,   \* the ring: the time of each request, and whether it was a 5xx
    lastAlertAt,                \* of the monitor, 0 at first
    checkedAt,                  \* when the timer fired last
    \* history: every request; the alerts; the last check above the threshold
    requests, alerts, breachAt

vars == <<now, routes, samples, nextSampleIndex, lastAlertAt, checkedAt, requests, alerts, breachAt>>

\* The clock is far past the monitor's initial lastAlertAt.
Start == 2 * Cooldown + Window + 1

Sample == [at : Nat, error : BOOLEAN]
Rate   == [errors : Nat, total : Nat]
Metric == [count : Nat, errors : Nat]

TypeOK ==
    /\ now \in Start..(Start + Duration)
    /\ DOMAIN routes \subseteq Route /\ routes \in [DOMAIN routes -> Metric]
    /\ Cardinality(DOMAIN routes) <= MaxRoutes
    /\ samples \in Seq(Sample) /\ Len(samples) <= Capacity
    /\ nextSampleIndex \in 0..(Capacity - 1)
    /\ lastAlertAt \in 0..now /\ checkedAt \in 0..now /\ breachAt \in 0..now
    /\ requests \in Seq([at : Nat, error : BOOLEAN, route : Route])
    /\ alerts \in Seq([at : 0..now, rate : Rate])

Init ==
    /\ now = Start
    /\ routes = <<>>
    /\ samples = <<>> /\ nextSampleIndex = 0
    /\ lastAlertAt = 0 /\ checkedAt = Start
    /\ requests = <<>> /\ alerts = <<>> /\ breachAt = 0

-----------------------------------------------------------------------------
Errors(error) == IF error THEN 1 ELSE 0

\* The table with one more request of r, whether or not r was in it.
Tracked(r, error) ==
    LET old == IF r \in DOMAIN routes THEN routes[r] ELSE [count |-> 0, errors |-> 0]
        new == [count |-> old.count + 1, errors |-> old.errors + Errors(error)]
    IN  [x \in DOMAIN routes \cup {r} |-> IF x = r THEN new ELSE routes[x]]

\* Mutant: the oldest sample is sought one further on.
PushFromSecond(sample) ==
    IF Len(samples) < Capacity
    THEN samples' = Append(samples, sample) /\ UNCHANGED nextSampleIndex
    ELSE /\ nextSampleIndex' = (nextSampleIndex + 1) % Capacity
         /\ samples' = [samples EXCEPT ![nextSampleIndex' + 1] = sample]

\* The counters of the route; a new route is dropped, with a warning, once the
\* table is full.
Track(r, error) ==
    routes' = IF r \in DOMAIN routes \/ Cardinality(DOMAIN routes) < MaxRoutes
              THEN Tracked(r, error)
              ELSE routes

PushSample(sample) ==
    IF Len(samples) < Capacity
    THEN samples' = Append(samples, sample) /\ UNCHANGED nextSampleIndex
    ELSE /\ samples' = [samples EXCEPT ![nextSampleIndex + 1] = sample]
         /\ nextSampleIndex' = (nextSampleIndex + 1) % Capacity

\* record, called when a request of route r completes.
Record(r, error) ==
    /\ Len(requests) < MaxRequests
    /\ Track(r, error)
    /\ PushSample([at |-> now, error |-> error])
    /\ requests' = Append(requests, [at |-> now, error |-> error, route |-> r])
    /\ UNCHANGED <<now, lastAlertAt, checkedAt, alerts, breachAt>>

-----------------------------------------------------------------------------
InWindow(s) == {k \in DOMAIN s : s[k].at >= now - Window}
RateOf(s, K) == [errors |-> Cardinality({k \in K : s[k].error}), total |-> Cardinality(K)]

RecentErrorRate == RateOf(samples, InWindow(samples))

Above(rate, percent) == rate.errors * 100 > percent * rate.total

WithinCooldown == now - lastAlertAt < Cooldown
Escalated(rate) == now - lastAlertAt < 2 * Cooldown /\ Above(rate, Threshold + 20)

\* notify: the text goes to the webhook, whose failure is only logged.
Notify(rate) == alerts' = Append(alerts, [at |-> now, rate |-> rate])

\* Mutant: the time of the last alert is set before the debounce.
Debounce(rate) ==
    /\ lastAlertAt' = now
    /\ IF WithinCooldown /\ ~ Escalated(rate)
       THEN UNCHANGED alerts
       ELSE Notify(rate)

Alert(rate) ==
    IF WithinCooldown /\ ~ Escalated(rate)
    THEN UNCHANGED <<lastAlertAt, alerts>>
    ELSE /\ lastAlertAt' = now
         /\ Notify(rate)

\* check.
Evaluate ==
    LET rate == RecentErrorRate IN
    /\ IF rate.total >= MinSamples /\ Above(rate, Threshold)
       THEN Alert(rate) /\ breachAt' = now
       ELSE UNCHANGED <<lastAlertAt, alerts, breachAt>>
    /\ UNCHANGED <<now, routes, samples, nextSampleIndex, requests>>

\* The timer fires Poll or more after the last time.
Due == now >= checkedAt + Poll

Check == Due /\ checkedAt' = now /\ Evaluate

\* GET /metrics checks as well, whenever somebody reads it.
Metrics ==
    /\ Len(alerts) < MaxAlerts
    /\ Evaluate
    /\ UNCHANGED checkedAt

Tick ==
    /\ now < Start + Duration
    /\ now' = now + 1
    /\ UNCHANGED <<routes, samples, nextSampleIndex, lastAlertAt, checkedAt, requests, alerts, breachAt>>

Next == Tick \/ Check \/ Metrics \/ \E r \in Route, error \in BOOLEAN : Record(r, error)

Spec == Init /\ [][Next]_vars

-----------------------------------------------------------------------------
\* The rate is that of the newest Capacity requests, those in the window.
WindowIsNewest ==
    RecentErrorRate = RateOf(requests, {k \in InWindow(requests) : k + Capacity > Len(requests)})

\* What GET /metrics tells of a route is exact: the table has every request of
\* each route in it, and lacks a route only when it is full of others.
TableIsExact ==
    LET of(r) == {k \in DOMAIN requests : requests[k].route = r} IN
    \A r \in Route :
        IF r \in DOMAIN routes
        THEN routes[r] = [count  |-> Cardinality(of(r)),
                          errors |-> Cardinality({k \in of(r) : requests[k].error})]
        ELSE of(r) = {} \/ Cardinality(DOMAIN routes) = MaxRoutes

\* metrics.service.ts:18, "Max distinct route templates tracked; evicts on
\* overflow": room is made for a route that is in use.
NewestRouteIsTracked ==
    requests # <<>> /\ MaxRoutes > 0 => requests[Len(requests)].route \in DOMAIN routes

\* A check above the threshold alerts, unless an alert went out less than a
\* cooldown before it: no incident hides behind the debounce.
NoSilentBreach ==
    breachAt > 0 =>
        \E k \in DOMAIN alerts :
            \/ alerts[k].at = breachAt
            \/ alerts[k].at <= breachAt /\ breachAt - alerts[k].at < Cooldown

\* error-rate.monitor.ts:20, "once alerted, the monitor stays quiet for a
\* cooldown unless the rate keeps climbing past a re-arm threshold".
QuietUnlessClimbing ==
    \A k \in 1..(Len(alerts) - 1) :
        alerts[k + 1].at - alerts[k].at < Cooldown =>
            alerts[k + 1].rate.errors * alerts[k].rate.total
                > alerts[k].rate.errors * alerts[k + 1].rate.total
=============================================================================
