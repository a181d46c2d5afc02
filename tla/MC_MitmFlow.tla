----------------------------- MODULE MC_MitmFlow -----------------------------
(* One flow for every request: two AWS services, a plain host, a tunnelled *)
(* host that an HTTP rule names too, and one that no rule knows.           *)
EXTENDS MitmFlow
CONSTANTS f1, s3, lambda, api, db, other
OneFlow    == {f1}
AllHosts   == {s3, lambda, api, db, other}
Aws        == {s3, lambda}
OnlyS3     == {s3}
Verbs      == {"GET", "PUT"}
SomePaths  == {"/a", "/b"}
HttpRule(h, m, p, i) == [hosts |-> h, methods |-> m, paths |-> p, inject |-> i, l4 |-> FALSE]
SomeRules  ==
    <<HttpRule({api}, {}, {"/a"}, {"Authorization"}),
      HttpRule({s3, lambda, db}, {}, {}, {"Authorization", "other"}),
      [hosts |-> {db}, methods |-> {}, paths |-> {}, inject |-> {}, l4 |-> TRUE],
      HttpRule({api}, {"GET"}, {}, {"other"}), HttpRule({api}, {"GET"}, {}, {"Authorization"})>>
AllRequests == Request
=============================================================================
