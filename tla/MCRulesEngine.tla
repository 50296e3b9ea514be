---- MODULE MCRulesEngine ----
(***************************************************************************)
(* A table with the shape of stereotop_rules_set: an event with several    *)
(* rules, an event with one, and a decision that both events share.        *)
(***************************************************************************)
EXTENDS RulesEngine

MCEventsOf == <<{"linkloss"}, {"start"}, {"start"}, {"start"}>>

MCMessageOf == <<"connect", "allow_le", "allow_handset", "connect">>

ASSUME MCTable == OneEventPerRule
====
