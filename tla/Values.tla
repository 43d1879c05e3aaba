------------------------------- MODULE Values -------------------------------
(* What the modules about a request and its surroundings have in common.    *)
EXTENDS Naturals, Sequences

CONSTANT Null  \* null and undefined

IsSequence(s) == s \in Seq({s[i] : i \in DOMAIN s})
=============================================================================
