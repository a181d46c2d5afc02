--------------------------- MODULE MC_ConfigMerge ---------------------------
(* Three directories (the working directory, its parent, the root), home   *)
(* any of them or none, up to two entries in a file.                       *)
EXTENDS ConfigMerge

Options == {"auth_mode", "rules", "claude_args", "debug", "image"}
Kinds == [auth_mode |-> "mode", rules |-> "list", claude_args |-> "positional",
          debug |-> "flag", image |-> "value"]
AuthModes == {"anthropic", "bedrock"}
Values == {"true", "false", "anthropic", "bedrock", "a", "b", "repo"}
Defaults == [auth_mode |-> <<>>, rules |-> <<>>, claude_args |-> <<>>,
             debug |-> <<"false">>, image |-> <<"repo">>]

E(k, v) == [key |-> k, value |-> v, valid |-> TRUE]
Entries == {E("anthropic", <<"true">>), E("anthropic", <<"false">>),
            E("auth_mode", <<"bedrock">>), E("rules", <<"a">>),
            E("rules", <<"b", "a">>), E("claude_args", <<"a">>),
            E("debug", <<"true">>), E("debug", <<"false">>), E("image", <<"a">>),
            [E("debug", <<"a">>) EXCEPT !.valid = FALSE], E(Unknown, <<"a">>)}
Mapping(es) == [kind |-> "mapping", entries |-> es]
Short == {Mapping(<<e>>) : e \in Entries}
         \cup {[kind |-> k, entries |-> <<>>] : k \in {"absent", "empty", "broken"}}
Clashing == {E("anthropic", <<"true">>), E("anthropic", <<"false">>),
             E("auth_mode", <<"bedrock">>), E("rules", <<"b", "a">>),
             E("debug", <<"true">>), E("debug", <<"false">>), E("claude_args", <<"a">>)}
Long == Short \cup {Mapping(<<e, f>>) : e \in Clashing, f \in Clashing}
Top == {Mapping(<<E("rules", <<"a">>), E("auth_mode", <<"bedrock">>)>>),
        Mapping(<<E("debug", <<"true">>)>>), [kind |-> "absent", entries |-> <<>>]}

NoArgs == [d \in Options |-> <<>>]
CommandLines == {NoArgs, [NoArgs EXCEPT !.auth_mode = <<"anthropic", "bedrock">>],
                 [NoArgs EXCEPT !.auth_mode = <<"anthropic">>, !.rules = <<"b">>,
                                !.claude_args = <<"b">>, !.debug = <<"false">>]}

Runs == [dirs : {<<a, b, c>> : a \in Long, b \in Short, c \in Top},
         home : 0..3, cli : CommandLines]
=============================================================================
