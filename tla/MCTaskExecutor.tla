--------------------------- MODULE MCTaskExecutor ---------------------------
(***************************************************************************)
(* Trees of tasks built the way the combinators of Task.java build them.   *)
(***************************************************************************)
EXTENDS TaskExecutor

Branches(ts, given) == [t \in ts |-> IF t \in DOMAIN given THEN given[t] ELSE {}]
Kinds(ts, given) == [t \in ts |-> IF t \in DOMAIN given THEN given[t] ELSE "plain"]

\* allOf(a.withRunAsync(b), fromCompletableFuture(f), d).thenComposeAsync(c)
\*   .whenComplete(..)
InstallTasks == {"whenComplete", "compose", "allOf", "with", "a", "b", "f", "d",
                 "c"}
InstallKind == Kinds(InstallTasks,
  [whenComplete |-> "finalizer", f |-> "future"])
InstallBefore == Branches(InstallTasks,
  [whenComplete |-> {"compose"}, compose |-> {"allOf"}, allOf |-> {"with", "f", "d"},
   with |-> {"a"}])
InstallAfter == Branches(InstallTasks, [compose |-> {"c"}, with |-> {"b"}])
InstallRelying == InstallTasks \ {"whenComplete", "with"}

\* a.withRunAsync(b).whenComplete(..)
WithTasks == {"whenComplete", "with", "a", "b"}
WithKind == Kinds(WithTasks, [whenComplete |-> "finalizer"])
WithBefore == Branches(WithTasks, [whenComplete |-> {"with"}, with |-> {"a"}])
WithAfter == Branches(WithTasks, [with |-> {"b"}])
WithRelying == {"a", "b"}
=============================================================================
