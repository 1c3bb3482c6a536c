----------------------------- MODULE MCControl -----------------------------
(***************************************************************************)
(* Four parts of the gateway that share nothing but a clock, one at a      *)
(* time: the token buckets, the login throttle, the routes and probes, and *)
(* the usage windows.  `job` is drawn at the start; the variables of the   *)
(* other three stay as they are.                                           *)
(***************************************************************************)
EXTENDS TokenBucket, LoginGuard, Routing, UsageWindows

VARIABLE job

allVars == <<job, bucketVars, guardVars, routingVars, usageVars>>

\* Two providers that have one model in common.
MCOrder == <<"p", "q">>
MCServes == [p |-> {"m"}, q |-> {"m", "n"}]

\* An alias that leads to a model over another alias; one that hides a model.
MCAliasMaps == {[x \in {"a", "b"} |-> IF x = "a" THEN "b" ELSE "n"], [x \in {"m"} |-> "n"]}

MCLimits == {[ip |-> 0, acct |-> 0, lockout |-> 1],
             [ip |-> 2, acct |-> 1, lockout |-> 1],
             [ip |-> 3, acct |-> 2, lockout |-> 3]}

MCWindows == {[span |-> 2, bin |-> 2, bins |-> 1], [span |-> 3, bin |-> 1, bins |-> 3]}

\* Those that are not drawn start from one of their initial states.
Init ==
    /\ job \in {"buckets", "guard", "routing", "usage"}
    /\ BucketInit /\ GuardInit /\ RoutingInit /\ UsageInit
    /\ job # "buckets" => rpm = Max(Rates)
    /\ job # "guard" => limit.ip = 0
    /\ job # "routing" => file.on = {} /\ file.listed = Providers /\ file.probing
                          /\ "m" \in DOMAIN file.aliases

Next ==
    /\ UNCHANGED job
    /\ \/ job = "buckets" /\ BucketNext
          /\ UNCHANGED <<limit, hits, lockedUntil, failed, routingVars, usageVars>>
       \/ job = "guard" /\ GuardNext
          /\ UNCHANGED <<rpm, tableVars, due, routingVars, usageVars>>
       \/ job = "routing" /\ RoutingNext
          /\ UNCHANGED <<bucketVars, guardVars, usageVars>>
       \/ job = "usage" /\ UsageNext
          /\ UNCHANGED <<bucketVars, guardVars, routingVars>>

Spec == Init /\ [][Next]_allVars

\* Both views of the usage: every figure is the sum of its curve and no more
\* than the figures it is part of (SeriesAddUp, WindowsNest).
UsageAddsUp == SeriesAddUp /\ WindowsNest
=============================================================================
