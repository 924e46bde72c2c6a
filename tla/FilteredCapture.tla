-------------------------- MODULE FilteredCapture --------------------------
(***************************************************************************)
(* CaptureControl with the expressions of FilterExpr: what UpdateFilter    *)
(* writes is the expression parsed, and what the kernel selects with it is *)
(* compared with what the reported expression means.                       *)
(***************************************************************************)
EXTENDS CaptureControl, FilterExpr

ASSUME ExpressionsAssumption == \A f \in Filters : f # <<>> /\ Parses(f) /\ Plain(f)

AppliedAsReported ==
  mu = Nobody /\ ~failed =>
    /\ bpf # Mixed
    /\ \A p \in Packets : Selects(Parse(bpf), p) <=> Means(expr, p)

\* Between two changes of the filter, and unless the last one failed, the kernel
\* selects exactly the packets the expression means that GET /filter reports:
\* the parser, the value in the map and match_filter agree about every plain
\* expression, and nothing is left over from an earlier one.
ReportedFilterIsApplied == ExpressionsAreRead /\ AppliedAsReported
=============================================================================
