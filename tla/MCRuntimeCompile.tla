-------------------------- MODULE MCRuntimeCompile --------------------------
(* RuntimeCompile for TLC: what subscriptions and users save. *)
EXTENDS RuntimeCompile, TLC

Symmetry == Permutations(Names)

Members(outs, sel) == [outbounds |-> outs, selector |-> sel]

MCNodeChoices == {{}, {"a"}, {"a", "b"}}

\* None; a selector of two nodes, one with another group in it, the same tag again
\* with a built-in member.
MCGroupChoices ==
    {[t \in {} |-> Members({}, FALSE)],
     [t \in {"g"} |-> Members({"a", "b"}, TRUE)],
     [t \in {"g", "h"} |-> IF t = "g" THEN Members({"h", "BLOCK"}, FALSE)
                                      ELSE Members({"a"}, FALSE)]}

To(out, match, raw) ==
    [out |-> out, sets |-> {}, match |-> match, unfit |-> FALSE, raw |-> raw, rules |-> {}]
Named(sets, match, out) ==
    [out |-> out, sets |-> sets, match |-> match, unfit |-> FALSE, raw |-> {}, rules |-> {}]
Part(sets, match) == [out |-> NoTag, sets |-> sets, match |-> match, unfit |-> FALSE]

\* A catch-all to a node; lines with two targets, or none; a configured and a built-in
\* rule set; a logical rule of both and of something sing-box does not know.
MCRuleChoices ==
    {<<>>,
     <<Named({"own"}, {}, "h"), To("a", {}, {"a"})>>,
     <<To(NoTag, {"other"}, {"a", "g", NoTag}), Named({"own", "geosite"}, {}, "BLOCK")>>,
     <<[To("b", {}, {}) EXCEPT !.rules =
          {Part({"own"}, {}), Part({"geosite"}, {"other"}), [Part({}, {"other"}) EXCEPT !.unfit = TRUE]}]>>,
     <<To("GLOBAL", {"source"}, {}), Named({"own"}, {"source"}, NoTag)>>}
=============================================================================
