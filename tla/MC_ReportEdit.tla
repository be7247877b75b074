----------------------------- MODULE MC_ReportEdit -----------------------------
(* A session with two blocks and two charts; every scope and every kind of draft. *)
EXTENDS ReportEdit

Draft(kind, content, chart, sources) ==
    [kind |-> kind, content |-> content, chart |-> chart, sources |-> sources]
MCDrafts == {Draft("text", <<"x">>, None, {"r1"}),
             Draft("text", <<"x", "y", Markup, "c2", "x">>, None, {"r1"}),
             Draft("text", <<"y">>, "c1", {}),
             Draft("chart", <<>>, "c1", {})}
MCChartDrafts == {[option |-> 2, sources |-> {}]}
Context(scope, block, chart, start, end, text) ==
    [scope |-> scope, block |-> block, chart |-> chart, start |-> start, end |-> end, text |-> text]
MCContexts == {Unscoped,
               Context("layout", None, None, 0, 0, <<>>),
               Context("partial_block", "b1", None, 0, 0, <<>>),
               Context("partial_chart", None, "c1", 0, 0, <<>>),
               Context("partial_selection", "b1", None, 1, 2, <<"y">>)}
Earlier ==
    [Blank EXCEPT !.needsFinalize = TRUE, !.results = {"r1"},
        !.blocks = <<BlockOf("b1", Draft("text", <<"x", "y", "x">>, None, {"r1"})),
                     BlockOf("b2", Draft("chart", <<>>, "c1", {}))>>,
        !.charts = [c \in {"c1"} |-> [option |-> 1, sources |-> {"r1"}]]]
Finished == [Earlier EXCEPT !.needsFinalize = FALSE, !.titled = TRUE]
MCStarts == {Blank, Earlier, Finished}
=============================================================================
