--------------------------- MODULE MCBenchmarkShell ---------------------------
(* A suite with a cold start run twice, a shorter one of the same name, an   *)
(* empty repetition, and a suite without tasks.                              *)
EXTENDS BenchmarkShell

MCSuite(name, repeat, tasks, valid) ==
    [name |-> name, repeat |-> repeat, tasks |-> tasks, valid |-> valid]

MCSuites ==
    {MCSuite("standard", 1, <<FALSE, TRUE, FALSE>>, TRUE),
     MCSuite("standard", 2, <<FALSE>>, TRUE),
     MCSuite("long", 0, <<FALSE>>, TRUE),
     MCSuite("long", 1, <<FALSE>>, FALSE)}
=============================================================================
