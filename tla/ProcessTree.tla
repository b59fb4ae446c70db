---------------------------- MODULE ProcessTree -----------------------------
(* The processes reachable from some PIDs through the PPid fields that are  *)
(* known, ppid being a function from PIDs to parents: the smallest set that *)
(* holds the roots and every process whose parent it holds.                 *)
TreeOf(roots, ppid) ==
  LET all       == roots \union DOMAIN ppid
      Closed(s) == roots \subseteq s /\ \A p \in DOMAIN ppid : ppid[p] \in s => p \in s
  IN  {p \in all : \A s \in SUBSET all : Closed(s) => p \in s}

=============================================================================
