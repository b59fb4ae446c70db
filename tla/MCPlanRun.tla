----------------------------- MODULE MCPlanRun -----------------------------
EXTENDS PlanRun

Payload(own, details) == [result |-> own, details |-> details]

(* A module may be better than its details, and a file may have no result. *)
MCPayloads ==
  {Payload("ok", {"ok"}), Payload("ok", {"fail"}), Payload("fail", {}), Payload(Absent, {"ok"})}
MCMetrics == {{"passed"}, {"passed", "failed"}}

=============================================================================
