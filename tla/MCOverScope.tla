---------------------------- MODULE MCOverScope ----------------------------
(* Instances of OverScope for TLC. *)
EXTENDS OverScope

Subs == {"pass", "filter", "head", "twice"}

\* A source of data whose caller may end the platoon early, and a source of
\* several platoons, such as the scope of an enclosing over.
MCGraphs ==
    [source : {"original"}, sub : Subs, dones : {TRUE}, faults : BOOLEAN]
      \cup [source : {"platoons"}, sub : Subs, dones : {FALSE}, faults : {FALSE}]

\* An over inside an over, followed by an operator that ends its platoons early.
Nested == [source : {"platoons"}, sub : {"pass"}, dones : {TRUE}, faults : {FALSE}]
=============================================================================
