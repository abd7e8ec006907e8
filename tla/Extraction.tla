----------------------------- MODULE Extraction -----------------------------
(***************************************************************************)
(* From clauses to proposed duties: compile/extract.py, compile/temporal.py*)
(* and compile/llm.py, over the tree ClauseTree reads.                     *)
(*                                                                         *)
(* The text of a clause is a sequence of the phrases the patterns find in  *)
(* it; a span is the position of a phrase, and distances are counted in    *)
(* phrases.  The model asked by the other engine is outside: what it       *)
(* answers is arbitrary.                                                   *)
(***************************************************************************)
EXTENDS ClauseTree

CONSTANTS
  Engines,      \* the engines a compile may be asked for
  TooShort,     \* clauses of fewer phrases are not looked at
  Subject,      \* how far before its verb a subject is looked for
  Cluster,      \* how far apart the members of a joint subject may stand
  MaxConditions \* the conditions read of a clause, at most

ASSUME ExtractionAssumption == {TooShort, Subject, Cluster, MaxConditions} \subseteq Nat

VARIABLES
  engine,       \* "rules" or "llm"
  outcomes,     \* the ClauseOutcome of each clause compiled so far
  attempt       \* LLMExtractor.extract: the attempt under way

compileVars == <<treeVars, engine, outcomes, attempt>>

-----------------------------------------------------------------------------
(* The vocabulary.                                                         *)

\* A deontic verb, and the modality it has (_DEONTIC, in the order tried).
Modality(w) == CASE w = "shall not" -> "MUST_NOT" [] w = "shall" -> "MUST"
                 [] w = "should" -> "SHOULD" [] w = "may" -> "MAY" [] OTHER -> "none"
\* "shall mean" is grammar and no duty: _NON_DEONTIC_CONTEXT.
NoDuty == {"shall mean"}
Actors == {"broker", "exchange"}
\* Named behind a preposition, and so not the subject.
Governed == {"to the broker", "by the broker"}
ActorOf(w) == CASE w \in {"broker", "to the broker", "by the broker"} -> "broker" [] OTHER -> w
\* A verb and what it is done to.
Verbs == {"report", "keep"}

\* The shapes of a deadline: _parse_deadline tries them in this order.
Shapes == <<{"T+2 days"}, {"within 2 working days", "within 7 days"}, {"within 24 hours"}, {"within 2 weeks"},
            {"within 6 months"}, {"end of the month"}, {"on demand"}, {"immediately"}>>
DayCount(w) == CASE w = "within 2 working days" -> "BUSINESS" [] OTHER -> "UNSPECIFIED"
Unset == [kind |-> "none", unit |-> "none", count |-> "UNSPECIFIED", anchor |-> FALSE, period |-> "none"]
Relative(unit, w) == [Unset EXCEPT !.kind = "RELATIVE", !.unit = unit, !.count = DayCount(w), !.anchor = TRUE]
EndOf(period) == [Unset EXCEPT !.kind = "END_OF_PERIOD", !.period = period]
DeadlineOf(w) ==
  CASE w \in {"T+2 days", "within 2 working days", "within 7 days", "within 2 weeks"} -> Relative("days", w)
    [] w \in {"within 24 hours", "immediately"} -> Relative("hours", w)
    [] w = "within 6 months" -> Relative("months", w)
    [] w = "end of the month" -> EndOf("MONTH")
    [] w = "on demand" -> [Unset EXCEPT !.kind = "ON_DEMAND"]

Recurrences == {"half yearly", "fortnightly", "quarterly", "monthly", "daily"}
\* What is due in its own period when no horizon is stated.
PeriodOf(w) == CASE w = "quarterly" -> "QUARTER" [] w = "monthly" -> "MONTH" [] w = "daily" -> "DAY" [] OTHER -> "none"
Events == {"upon receipt of the notice"}
\* Conditions, one of them too short to be kept, and a threshold.
Conditions == {"unless exempted", "if listed", "if so"}
Thresholds == {"more than 5 percent"}

-----------------------------------------------------------------------------
(* RuleExtractor, on the text of one clause.                               *)

TextOf(n) == FlattenSeq([k \in DOMAIN nodes[n].lines |-> document[nodes[n].lines[k]].words])
At(text, phrases) == {i \in DOMAIN text : text[i] \in phrases}
First(S) == IF S = {} THEN 0 ELSE Min(S)
\* The places of S, in the order of the text: the k-th is the one k do not exceed.
InOrder(S) == [k \in 1..Cardinality(S) |-> CHOOSE i \in S : Cardinality({j \in S : j <= i}) = k]

\* The shape first tried that the text has at all, where it first has it.
DeadlineAt(text) ==
  LET has == {k \in DOMAIN Shapes : At(text, Shapes[k]) # {}}
  IN  IF has = {} THEN 0 ELSE First(At(text, Shapes[Min(has)]))
RecurrenceAt(text) == First(At(text, Recurrences))

\* parse_temporal: the deadline read, and the phrase it is read from.
Temporal(text) ==
  LET d == DeadlineAt(text)
      r == RecurrenceAt(text)
  IN  CASE d # 0 -> [deadline |-> DeadlineOf(text[d]), at |-> d]
        [] d = 0 /\ r # 0 /\ PeriodOf(text[r]) # "none" -> [deadline |-> EndOf(PeriodOf(text[r])), at |-> r]
        [] OTHER -> [deadline |-> Unset, at |-> 0]

\* _actor_before: the earliest of the cluster of subjects nearest the verb; in
\* the passive voice the actor named after it; or one behind a preposition.
SubjectOf(text, verb) ==
  LET before == {i \in DOMAIN text : i < verb /\ verb - i <= Subject}
      subjects == {i \in before : text[i] \in Actors}
      passive == {i \in At(text, {"by the broker"}) : i > verb /\ i - verb <= Subject}
      behind == {i \in before : text[i] \in Governed}
  IN  CASE subjects # {} -> Min({i \in subjects : Max(subjects) - i <= Cluster})
        [] subjects = {} /\ passive # {} -> Min(passive)
        [] OTHER -> First(behind)

\* _conditions: a condition too short is left out; its place is still counted.
Kept(text) ==
  LET kept == InOrder(At(text, Conditions \ {"if so"}))
  IN  SubSeq(kept, 1, Min({MaxConditions, Len(kept)}))
ConditionsOf(text) ==
  [k \in DOMAIN Kept(text) |-> text[Kept(text)[k]]]
    \o (IF At(text, Thresholds) = {} THEN <<>> ELSE <<text[First(At(text, Thresholds))]>>)
\* The place a condition's span is filed under, counting from 1.
ConditionPlace(text, i) ==
  IF text[i] \in Thresholds THEN Len(ConditionsOf(text))
  ELSE Cardinality({j \in At(text, Conditions) : j <= i})
\* Mutant: a condition's span is filed under how many were kept before it.
SpansOneOff(text) == {<<ConditionPlace(text, i) + 1, i>> : i \in At(text, Conditions \union Thresholds)}

\* The spans of the conditions; the threshold's is filed last, over any other.
ConditionSpans(text) ==
  LET read == ToSet(Kept(text))
      threshold == {First(At(text, Thresholds))} \ {0}
      filed == {<<ConditionPlace(text, i), i>> : i \in read}
      last == {<<ConditionPlace(text, i), i>> : i \in threshold}
  IN  {s \in filed : \A t \in last : t[1] # s[1]} \union last

Bears(text, i) ==   \* a deontic verb that opens a duty
  /\ Modality(text[i]) # "none" /\ SubjectOf(text, i) # 0
  /\ i < Len(text) /\ text[i + 1] \in Verbs

Duty(text, i) ==
  LET recurs == RecurrenceAt(text) # 0
      read == Temporal(text)
      modality == Modality(text[i])
  IN  [modality |-> modality, actor |-> ActorOf(text[SubjectOf(text, i)]), verb |-> text[i + 1],
       trigger |-> IF recurs THEN "SCHEDULE" ELSE IF At(text, Events) # {} THEN "EVENT" ELSE "CONTINUOUS",
       recurs |-> recurs,
       deadline |-> IF recurs /\ read.deadline = Unset THEN EndOf("DAY") ELSE read.deadline,
       conditions |-> ConditionsOf(text),
       evidence |-> modality \notin {"MUST_NOT", "MAY"},
       spans |-> {<<"modality", i>>, <<"actor", SubjectOf(text, i)>>, <<"verb", i + 1>>}
         \union {<<"deadline", j>> : j \in {read.at} \ {0}}
         \union {<<"trigger.recurrence", j>> : j \in {RecurrenceAt(text)} \ {0}}
         \union {<<"trigger", j>> : j \in IF recurs THEN {} ELSE {First(At(text, Events))} \ {0}},
       conditionSpans |-> ConditionSpans(text)]

\* The duties in the order of their verbs, which is the order of their suffixes.
DutiesOf(text) ==
  LET verbs == InOrder({i \in DOMAIN text : Bears(text, i)})
  IN  [k \in DOMAIN verbs |-> Duty(text, verbs[k])]

\* Trigger, Deadline and Obligation, as they check themselves.
Valid(duty) ==
  /\ duty.trigger = "SCHEDULE" <=> duty.recurs
  /\ LET d == duty.deadline IN
       /\ d.kind = "RELATIVE" => d.unit # "none" /\ d.anchor
       /\ d.kind = "END_OF_PERIOD" => d.period # "none"
       /\ d.kind = "ON_DEMAND" => d.unit = "none"
       /\ d.count # "UNSPECIFIED" => d.unit = "days"
  /\ duty.modality = "MUST" => duty.evidence

-----------------------------------------------------------------------------
(* The engines, clause by clause.                                          *)

\* What a compile goes through: not the annexures, not the appendix.
Compiled(n) == nodes[n].kind # "APPENDIX" /\ ~OfAnnexure(n)
Left == {n \in DOMAIN nodes : Compiled(n) /\ \A k \in DOMAIN outcomes : outcomes[k].clause # n}

Outcome(n, status, duties) ==
  /\ outcomes' = Append(outcomes, [clause |-> n, status |-> status,
       duties |-> [k \in DOMAIN duties |-> [id |-> <<nodes[n].id, k>>, duty |-> duties[k]]]])
  /\ attempt' = 1
  /\ UNCHANGED <<treeVars, engine>>

Compiling(n) == phase = "read" /\ Left # {} /\ n = Min(Left)

\* RuleExtractor.extract.
ExtractByRules ==
  /\ engine = "rules" /\ \E n \in Left :
       /\ Compiling(n)
       /\ LET text == TextOf(n)
              duties == DutiesOf(text)
              heading == nodes[n].kind \in {"SECTION", "ANNEXURE", "APPENDIX"}
          IN  CASE heading \/ Len(text) < TooShort \/ duties = <<>> -> Outcome(n, "NO_OBLIGATION", <<>>)
                [] OTHER -> IF \A k \in DOMAIN duties : Valid(duties[k])
                            THEN Outcome(n, "PROPOSED", duties)
                            ELSE Outcome(n, "EXTRACTION_FAILED", <<>>)

\* What the model may say of a field: where the words are, and which they are.
Claims(text) == [at : 1..Len(text) + 1, quote : {text[i] : i \in DOMAIN text} \union {"", "not said"}]
NoClaim == [at |-> 0, quote |-> ""]

\* _verify_span: the words claimed where they are, or where they really stand.
VerifySpan(claim, text) ==
  CASE claim = NoClaim \/ claim.at > Len(text) -> 0
    [] claim # NoClaim /\ claim.at <= Len(text) /\ claim.quote \in {"", text[claim.at]} -> claim.at
    [] OTHER -> First(At(text, {claim.quote}))

\* _verified_day_count: some convention is stated at the words cited or near them.
VerifiedDayCount(claimed, text, cited) ==
  IF cited # 0 /\ \E i \in At(text, {"within 2 working days"}) : i \in cited - 1..cited + 1
  THEN claimed ELSE "UNSPECIFIED"

\* _to_obligation, on what the model proposes: a modality, the words for it, a
\* deadline in days with its count and words or none, and evidence or none.
Proposals(text) == [modality : {"MUST", "MAY"}, says : Claims(text), evidence : BOOLEAN,
  count : {"none", "BUSINESS", "UNSPECIFIED"}, cites : Claims(text) \union {NoClaim}]
ToDuty(p, text) ==
  LET said == VerifySpan(p.says, text)
      cited == VerifySpan(p.cites, text)
  IN  [modality |-> p.modality, actor |-> "broker", verb |-> "report", trigger |-> "CONTINUOUS",
       recurs |-> FALSE, conditions |-> <<>>, evidence |-> p.evidence, conditionSpans |-> {},
       deadline |-> IF p.count = "none" THEN Unset
         ELSE [Unset EXCEPT !.kind = "RELATIVE", !.unit = "days", !.anchor = TRUE,
                !.count = VerifiedDayCount(p.count, text, cited)],
       quotes |-> {<<"modality", said, p.says.quote>>, <<"deadline", cited, p.cites.quote>>},
       spans |-> {s \in {<<"modality", said>>, <<"deadline", cited>>} :
                    s[2] # 0 /\ (s[1] = "deadline" => p.count # "none")}]

\* LLMExtractor.extract: no answer or an answer that is not valid is tried once more.
TryAgain(n) ==
  IF attempt = 2 THEN Outcome(n, "EXTRACTION_FAILED", <<>>)
  ELSE attempt' = 2 /\ UNCHANGED <<treeVars, engine, outcomes>>

AskModel ==
  engine = "llm" /\ \E n \in Left :
    /\ Compiling(n)
    /\ \/ TryAgain(n)                                                \* an error, or a refusal
       \/ Outcome(n, "NO_OBLIGATION", <<>>)                          \* none found
       \/ \E p \in Proposals(TextOf(n)) :
            LET duty == ToDuty(p, TextOf(n))
            IN  IF Valid(duty) THEN Outcome(n, "PROPOSED", <<duty>>)
                ELSE TryAgain(n)

Reads == TreeNext /\ UNCHANGED <<engine, outcomes, attempt>>
EndOfCompile == phase = "read" /\ Left = {} /\ phase' = "compiled" /\
  UNCHANGED <<document, regions, at, nodes, builder, annexure, appendix, engine, outcomes, attempt>>

CompileInit == TreeInit /\ engine \in Engines /\ outcomes = <<>> /\ attempt = 1
CompileNext == Reads \/ ExtractByRules \/ AskModel \/ EndOfCompile
CompileSpec == CompileInit /\ [][CompileNext]_compileVars

-----------------------------------------------------------------------------
(* Properties.                                                             *)

ByRules(duty, text) ==
  LET says(field) == {text[s[2]] : s \in {s \in duty.spans : s[1] = field}}
  IN  /\ \A w \in says("modality") : Modality(w) = duty.modality
      /\ \A w \in says("actor") : ActorOf(w) = duty.actor
      /\ says("trigger.recurrence") \subseteq Recurrences /\ says("trigger") \subseteq Events
      /\ duty.trigger = "SCHEDULE" => says("trigger.recurrence") # {}
      /\ says("modality") # {} /\ says("actor") # {} /\ says("verb") = {duty.verb}
      /\ \A w \in says("deadline") : duty.deadline =
           (IF w \in Recurrences THEN EndOf(PeriodOf(w)) ELSE DeadlineOf(w))
      /\ At(text, {"if so"}) = {} => \A k \in DOMAIN duty.conditions :
           \E s \in duty.conditionSpans : s[1] = k /\ text[s[2]] = duty.conditions[k]

\* Whatever is filed under a field as the words behind it, are the words behind
\* it, by either engine; and a convention for counting days is on a duty only if
\* its clause states one (extract.py:10-14, llm.py:6-8, temporal.py: DayCount).
\* With a condition too short to be kept, the spans of those after it are misfiled.
NothingInvented == \A k \in DOMAIN outcomes : \A j \in DOMAIN outcomes[k].duties :
  LET duty == outcomes[k].duties[j].duty
      text == TextOf(outcomes[k].clause)
  IN  /\ engine = "rules" => ByRules(duty, text)
      /\ engine = "llm" => \A s \in duty.spans : \E q \in duty.quotes :
           q[1] = s[1] /\ q[2] = s[2] /\ q[3] \in {"", text[s[2]]}
      /\ duty.deadline.count # "UNSPECIFIED" => At(text, {"within 2 working days"}) # {}

\* A compile says something of every clause of the body, once, and gives no two
\* duties one id: the register would take the second for a revision of the first.
DutiesAreDistinct == phase = "compiled" =>
  /\ {outcomes[k].clause : k \in DOMAIN outcomes} = {n \in DOMAIN nodes : Compiled(n)}
  /\ \A k, l \in DOMAIN outcomes :
       /\ outcomes[k].clause = outcomes[l].clause => k = l
       /\ \A a \in DOMAIN outcomes[k].duties, b \in DOMAIN outcomes[l].duties :
            outcomes[k].duties[a].id = outcomes[l].duties[b].id => k = l /\ a = b

\* What the rules read is always a duty the register's types accept, so that a
\* clause they find duties in loses none of them (extract.py:664-693).
RulesAlwaysValid == engine = "rules" =>
  \A k \in DOMAIN outcomes : outcomes[k].status # "EXTRACTION_FAILED"

\* A compile invents nothing, confuses no two duties and loses none it found.
CompiledIsSound == NothingInvented /\ DutiesAreDistinct /\ RulesAlwaysValid
=============================================================================
