--------------------------- MODULE MCScrapeCache ---------------------------
(***************************************************************************)
(* ScrapeCache for TLC, with the series of the last error-free refresh as  *)
(* a history variable.                                                     *)
(***************************************************************************)
EXTENDS ScrapeCache

VARIABLE published   \* history: the port series of the last good refresh

PortSeries(metrics) == {s \in Ports \X PortGroups : metrics[s] > 0}

HInit == Init /\ published = {}

HNext ==
  /\ Next
  /\ published' = IF \E c \in Scrapes : Finish(c)
                  THEN PortSeries(cachedMetrics) ELSE published

HSpec == HInit /\ [][HNext]_<<vars, published>>

\* docs/architecture.md:105: "On refresh failure, collectors set
\* `collector_success` to `0` and keep previous cache instead of clearing
\* output."  A Collect that reports failure still sends the port series of the
\* last good refresh.
FailureKeepsPreviousCache ==
  \A c \in Scrapes :
    pc[c] = "unlock" /\ out[c][<<Collector, "failure">>] > 0
      => published \subseteq PortSeries(out[c])

=============================================================================
