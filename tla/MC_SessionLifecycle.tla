------------------------ MODULE MC_SessionLifecycle ------------------------
(* One run on every kind of host; runs share nothing with one another.     *)
EXTENDS SessionLifecycle
CONSTANT s1
OneSession == {s1}
=============================================================================
