-------------------------- MODULE MC_SshPerimeter --------------------------
(* Key directories with every kind of file prepare tells apart, up to two  *)
(* keys in one; two CIDRs, one of which contains everything.               *)
EXTENDS SshPerimeter

Parts == {"a", "b", "config", "cert", "pub", ""}
Blocks == [lan |-> {"lan"}, all |-> Endpoints]

Key(n) == [name |-> n, marker |-> TRUE, encrypted |-> FALSE, loads |-> TRUE]
Plain(n) == [name |-> n, marker |-> FALSE, encrypted |-> FALSE, loads |-> FALSE]
Bad(n) == [Key(n) EXCEPT !.loads = FALSE]

Dirs == {
    {}, {Plain(<<"config">>), Plain(<<"a", "pub">>)},
    {Key(<<"a">>), Plain(<<"a", "pub">>), Plain(<<"config">>), Plain(<<"b">>)},
    {Key(<<"a">>), Key(<<"b">>)}, {Key(<<"a">>), Bad(<<"b">>)},
    {Bad(<<"a">>)},
    {Key(<<"config">>), Key(<<"a">>), Plain(<<"a", "cert", "pub">>)},
    {Key(<<"a">>), Key(<<"b", "pub">>)},
    {Key(<<"a">>), Key(<<"a", "cert", "pub">>)},
    {Key(<<"a", "cert">>), Plain(<<"a", "cert", "pub">>)},
    {Key(<<"a">>), Key(<<"", "b">>)},
    {Key(<<"a">>), [Key(<<"b">>) EXCEPT !.encrypted = TRUE]}}

Runs ==
    LET Of(root, keygen, cidrs, dir, files) ==
            [root |-> root, keygen |-> keygen, cidrs |-> cidrs, dir |-> dir, files |-> files]
    IN  {Of(FALSE, TRUE, c, "given", fs) : c \in {{}, {"lan"}}, fs \in Dirs}
        \cup {Of(r, TRUE, c, d, {}) : r \in BOOLEAN, c \in SUBSET {"lan", "all", BadCidr},
                                      d \in {"unset", "missing", "given"}}
        \cup {Of(TRUE, TRUE, {}, "given", {Key(<<"a">>)}),
              Of(FALSE, FALSE, {}, "given", {Key(<<"a">>)}),
              Of(FALSE, TRUE, {"lan", "all"}, "given", {Key(<<"a">>)})}
=============================================================================
