---------------------------- MODULE MCFlowgraph ----------------------------
EXTENDS Flowgraph

Graph(f, src, sel, hs, ft) ==
    [fanin |-> f, source |-> src, select |-> sel, heads |-> hs, faults |-> ft]

\* combine for a source of several platoons (inside "over"), without failures;
\* each fan-in for a query's own source, with failures and cancellation.
MCGraphs ==
    {Graph("combine", "platoons", "fork", hs, FALSE) : hs \in {{}, {1}}}
        \cup {Graph("combine", "platoons", "switch", {2}, FALSE)}
        \cup {Graph(f, "original", "fork", {2}, TRUE) : f \in {"combine", "merge", "mux"}}

\* A fork of a source that may fail.
FailingSource == {Graph("combine", "original", "fork", {}, TRUE)}

\* A merge of a source of several platoons.
MergePlatoons == {Graph("merge", "platoons", "fork", {}, FALSE)}
============================================================================
