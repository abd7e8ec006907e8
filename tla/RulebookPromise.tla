-------------------------- MODULE RulebookPromise --------------------------
(***************************************************************************)
(* What the rulebook promises an officer, without versions, numbers or a   *)
(* ledger: each rule has a standing and a text, a text with an open        *)
(* question is never signed, a signed text is not edited in place, and a   *)
(* signature once given is kept.  RuleLifecycle is shown to implement it.  *)
(***************************************************************************)
CONSTANTS Rules, Bodies, Blocked, NoBody   \* as in RuleLifecycle

VARIABLES
  standing,   \* Rules -> the status of the rule today, "NONE" before a draft
  text,       \* Rules -> the text in force for review or execution
  archive     \* every (rule, text) an officer ever signed

promiseVars == <<standing, text, archive>>

PromiseInit ==
  /\ standing = [r \in Rules |-> "NONE"]
  /\ text = [r \in Rules |-> NoBody]
  /\ archive = {}

\* A draft replaces whatever is there, unless that is signed.
Draft(r, b) ==
  /\ standing[r] # "CERTIFIED"
  /\ standing' = [standing EXCEPT ![r] = "PROPOSED"]
  /\ text' = [text EXCEPT ![r] = b]
  /\ UNCHANGED archive

Sign(r) ==
  /\ standing[r] = "PROPOSED"
  /\ text[r] \notin Blocked
  /\ standing' = [standing EXCEPT ![r] = "CERTIFIED"]
  /\ archive' = archive \cup {[rule |-> r, body |-> text[r]]}
  /\ UNCHANGED text

Refuse(r) ==
  /\ standing[r] \in {"PROPOSED", "REJECTED"}
  /\ standing' = [standing EXCEPT ![r] = "REJECTED"]
  /\ UNCHANGED <<text, archive>>

\* A revision is a new proposal; a signed text gives way to nothing else.
Revise(r, b) ==
  /\ standing[r] # "NONE"
  /\ standing' = [standing EXCEPT ![r] = "PROPOSED"]
  /\ text' = [text EXCEPT ![r] = b]
  /\ UNCHANGED archive

PromiseNext ==
  \E r \in Rules :
    \/ Sign(r)
    \/ Refuse(r)
    \/ \E b \in Bodies : Draft(r, b) \/ Revise(r, b)

PromiseSpec == PromiseInit /\ [][PromiseNext]_promiseVars
=============================================================================
