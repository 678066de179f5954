--------------------------- MODULE MCFsListener ---------------------------
(* "/a" with its subdirectory "/a/s", and "/ab", whose string begins with "/a". *)
EXTENDS FsListener

MCPar == [p \in Path |-> CASE p \in {"as", "ast", "fa", "ga"} -> "a" [] p = "fs" -> "as" [] OTHER -> "top"]
MCLooksLike == {<<"a", "ab">>}
MCSorted    == <<"a", "fa", "ga", "as", "fs", "ab">>
MCRequests  == {{}, {"a"}, {"as"}}

Times(a, g, s) == [f \in File |-> CASE f = "fa" -> a [] f = "ga" -> g [] f = "fs" -> s]
MCIndexes == {Times(1, 2, 2), Times(0, 0, 1)}
MCStarts == {[dirs |-> Dir, disk |-> Times(2, 0, 2), config |-> {"a", "ab"}],
             [dirs |-> {"a", "ab"}, disk |-> Times(2, 0, 0), config |-> {"a", "as"}]}

(* "/a" with "/a/s" and "/a/st", and "/b"; "/a" and "/b" cannot be watched.          *)
MCLooksLike2 == {<<"as", "ast">>}
MCSorted2    == <<"a", "fa", "ga", "as", "fs", "ast", "b">>
MCRequests2  == {{"b"}, {"ast"}}
MCIndexes2   == {Times(2, 2, 2)}
MCStarts2    == {[dirs |-> Dir, disk |-> Times(2, 2, 2), config |-> c] : c \in {{"a", "b"}, {"as", "ast"}}}
===========================================================================
