-------------------------- MODULE MCRuleLifecycle --------------------------
(* RuleLifecycle for TLC: the .cfg files give its constants their values.  *)
EXTENDS RuleLifecycle, TLC
=============================================================================
