-------------------------- MODULE MC_SessionReaper --------------------------
(* Two runs and one clean: every selector alone, one naming the registry,  *)
(* and two at once.                                                         *)
EXTENDS SessionReaper
CONSTANTS s1, s2, c1, reg
TwoSessions == {s1, s2}
OneCleaner  == {c1}
SomeArgs ==
    {[all |-> x[1], older |-> x[2], ids |-> x[3], wait |-> w] :
       w \in BOOLEAN,
       x \in {<<TRUE, NotGiven, {}>>, <<FALSE, 1, {}>>, <<FALSE, NotGiven, {s1, reg}>>,
              <<TRUE, 1, {}>>}}
=============================================================================
