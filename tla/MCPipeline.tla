----------------------------- MODULE MCPipeline -----------------------------
(* Instances of Pipeline for TLC. *)
EXTENDS Pipeline

Opt(inc, rem, del, hl, late) ==
  [inc_recurse |-> inc, remove_source_files |-> rem, delay_updates |-> del,
   preserve_hard_links |-> hl, late_delete |-> late]

MCListOf == <<1, 2, 2>>
MCOptions == {Opt(FALSE, TRUE, FALSE, FALSE, FALSE), Opt(FALSE, TRUE, TRUE, FALSE, TRUE),
              Opt(TRUE, TRUE, FALSE, FALSE, FALSE), Opt(TRUE, TRUE, FALSE, TRUE, TRUE),
              Opt(FALSE, FALSE, TRUE, TRUE, FALSE)}
=============================================================================
