------------------------------- MODULE MCMonitor -------------------------------
EXTENDS MonitorLedger, TLC

\* The tables on a short scale: same order, one unit for a day of the tolerance.
Days == [quarterly |-> 1, semi_annual |-> 1, annual |-> 1]
Recheck == ("7d" :> 1) @@ ("14d" :> 1) @@ ("30d" :> 1) @@ ("90d" :> 1)

\* A T4 relationship, and one whose buyer may withdraw what was declared.
Declared == (1 :> {<<"low", "low">>}) @@ (2 :> {<<"low", "low">>, <<None, None>>})

\* An expired certificate: only the TLS collector sees it.
Fails == (1 :> {}) @@ (2 :> {"certificate"})
Source == [certificate |-> "tls"]
Asks == [certificate |-> "7d"]
===============================================================================
