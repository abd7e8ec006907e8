---------------------------- MODULE RuleEngine ----------------------------
(***************************************************************************)
(* What a rulebook finds in a firm's records as the days go by: the engine *)
(* (execute/engine.py, applicability.py, report.py), the diary and the     *)
(* forecast (analyse/calendar.py, forecast.py) and the state of the        *)
(* records (health.py).  All of them are computed from the rules, the      *)
(* records and the day, each by its own code, and shown beside each other. *)
(*                                                                         *)
(* One firm, so an occasion is a rule and the day its clock started.       *)
(***************************************************************************)
EXTENDS DutyCalendar

CONSTANTS
  Ids,          \* obligation ids
  Shapes,       \* the rules a rulebook may hold
  StartDays,    \* the days a behaviour may begin on
  Run,          \* bound on the days that pass
  ClockDays,    \* how many days before the first day an occasion may lie
  MaxRecords,   \* bound on the occasions on record
  Window,       \* run's window_days
  Lookback,     \* health's lookback_days
  Horizon       \* the forecast's horizon_days

Statuses == {"PROPOSED", "CERTIFIED", "REJECTED", "SUPERSEDED"}
Modalities == {"MUST", "SHOULD", "MAY", "MUST_NOT"}

\* deadline is None where the clause sets none; artifact says whether the rule
\* names evidence; table whether its clause is a flattened summary table.
IsRule(o) ==
  /\ o.status \in Statuses /\ o.modality \in Modalities
  /\ o.deadline = None \/ IsDeadline(o.deadline)
  /\ o.artifact \in BOOLEAN /\ o.table \in BOOLEAN

ASSUME EngineAssumption ==
  /\ \A o \in Shapes : IsRule(o)
  /\ IsFiniteSet(Ids)
  /\ {Run, ClockDays, MaxRecords, Window, Lookback, Horizon} \subseteq Nat
  /\ 365 <= Window /\ Window <= Lookback  \* 365 and 400 by default, and always

\* The table of months holds every day that is looked at and every due date.
ASSUME TableAssumption ==
  \A b \in StartDays :
    /\ {b, b - ClockDays, b - Lookback, b - Horizon, b + Run + 1, b + Run + Horizon}
         \subseteq Days
    /\ {MonthOf[b + Run + 1] + 11, MonthOf[b + Run + Horizon] + 11} \subseteq Months
    /\ \A o \in Shapes, d \in (b - ClockDays)..(b + Run + 1) :
         o.deadline # None => InTable(d, o.deadline)

VARIABLES
  rules,    \* Ids -> the rule in the rulebook
  events,   \* EvidenceStore.events, a set of [id, occurred, filed]
  today,
  began     \* the day the behaviour began on

engineVars == <<rules, events, today, began>>

EngineTypeOK ==
  /\ rules \in [Ids -> Shapes]
  /\ began \in StartDays /\ today \in began..(began + Run)
  /\ events \subseteq [id : Ids, occurred : (began - ClockDays)..today,
                      filed : ((began - ClockDays)..today) \cup {None}]

For(id) == {e \in events : e.id = id}

-----------------------------------------------------------------------------
(* Was anything owed (applicability.py)?                                   *)

\* Mutant: the first day of the window is left out.
ExpectedOccasionsAfter(o, start, end) ==
  IF o.deadline = None \/ o.deadline.kind # "END_OF_PERIOD" THEN {}
  ELSE OccasionsIn(o.deadline.period, start + 1, end)

ExpectedOccasions(o, start, end) ==
  IF o.deadline = None \/ o.deadline.kind # "END_OF_PERIOD" THEN {}
  ELSE OccasionsIn(o.deadline.period, start, end)

Applicability(o, start, end) ==
  IF \/ o.status # "CERTIFIED" \/ o.modality \in {"MUST_NOT", "MAY"}
     \/ ~o.artifact
  THEN "NOT_APPLICABLE"
  ELSE IF o.deadline = None \/ o.deadline.kind # "END_OF_PERIOD"
  THEN "UNDETERMINED"
  ELSE IF ExpectedOccasions(o, start, end) = {} THEN "NOT_APPLICABLE"
  ELSE "EXPECTED"

-----------------------------------------------------------------------------
(* The engine (engine.py).                                                 *)

WhyNot(o) ==
  \/ o.modality \notin {"MUST", "SHOULD"}
  \/ o.deadline = None
  \/ o.deadline # None /\ \/ o.deadline.kind = "ON_DEMAND"
                          \/ /\ o.deadline.count = "UNSPECIFIED"
                             /\ o.deadline.days \notin {None, 0}
  \/ ~o.artifact

\* _check: what the record of one occasion amounts to.
Check(o, e, day) ==
  LET due == DueDate(o.deadline, e.occurred)
  IN  IF due = None THEN "NOT_COUNTED"
      ELSE IF e.filed = None
           THEN IF due > day THEN "NOT_COUNTED" ELSE "MISSING"
           ELSE IF e.filed > due THEN "LATE" ELSE "SATISFIED"

\* Where run puts a rule in its report.
Treatment(id, day) ==
  LET o == rules[id]
      verdict == Applicability(o, day - Window, day)
  IN  IF o.status # "CERTIFIED" THEN "INERT"
      ELSE IF For(id) # {} THEN IF WhyNot(o) THEN "UNEVALUABLE" ELSE "EVALUATED"
      ELSE IF verdict # "EXPECTED" THEN verdict
      ELSE IF WhyNot(o) THEN "UNEVALUABLE" ELSE "EVALUATED"

Finding(id, outcome, occurred, due, filed) ==
  [id |-> id, outcome |-> outcome, occurred |-> occurred, due |-> due,
   filed |-> filed,
   approximate |-> /\ outcome # "NO_EVIDENCE"
                   /\ rules[id].deadline.count = "BUSINESS" /\ ~CoversDate(due)]

\* One finding for a rule without records, however often it fell due.
Silence(id, day) ==
  LET owed == ExpectedOccasions(rules[id], day - Window, day)
  IN  Finding(id, "NO_EVIDENCE", Min(owed), Max(owed), None)

Findings(id, day) ==
  IF Treatment(id, day) # "EVALUATED" THEN {}
  ELSE IF For(id) = {} THEN {Silence(id, day)}
  ELSE {Finding(id, Check(rules[id], e, day), e.occurred,
                DueDate(rules[id].deadline, e.occurred), e.filed) :
          e \in {f \in For(id) : Check(rules[id], f, day) \in {"MISSING", "LATE"}}}

Counted(day) ==
  {e \in events : /\ Treatment(e.id, day) = "EVALUATED"
                  /\ Check(rules[e.id], e, day) # "NOT_COUNTED"}

\* GapReport; the compliance rate is satisfied over checked, or None over none.
Report(day) ==
  LET put(where) == {id \in Ids : Treatment(id, day) = where}
      found == UNION {Findings(id, day) : id \in Ids}
      silent == {f.id : f \in {g \in found : g.outcome = "NO_EVIDENCE"}}
  IN  [certified |-> Cardinality({id \in Ids : rules[id].status = "CERTIFIED"}),
       evaluated |-> Cardinality(put("EVALUATED")),
       unevaluable |-> Cardinality(put("UNEVALUABLE")),
       undetermined |-> Cardinality(put("UNDETERMINED")),
       not_applicable |-> Cardinality(put("NOT_APPLICABLE")),
       checked |-> Cardinality(Counted(day)),
       satisfied |-> Cardinality({e \in Counted(day) :
                                    Check(rules[e.id], e, day) = "SATISFIED"}),
       unevidenced |-> Cardinality(
         UNION {{id} \X ExpectedOccasions(rules[id], day - Window, day) : id \in silent}),
       breaches |-> Cardinality({f \in found : f.outcome # "NO_EVIDENCE"}),
       findings |-> found]

-----------------------------------------------------------------------------
(* The diary (analyse/calendar.py) and the forecast (forecast.py).         *)

\* Rules build_schedule goes on to place: certified, not out of a table.
Placed(o) ==
  o.status = "CERTIFIED" /\ ~o.table /\ o.modality \in {"MUST", "SHOULD"}
    /\ o.deadline # None

Daily(o) ==
  Placed(o) /\ o.deadline.kind = "END_OF_PERIOD" /\ o.deadline.period = "DAY"

\* The dates of a rule in the diary; a daily duty is listed once, undated.
Diary(o, start, days) ==
  IF ~Placed(o) \/ Daily(o) THEN {}
  ELSE IF o.deadline.kind = "ABSOLUTE"
  THEN {o.deadline.date} \cap start..(start + days)
  ELSE IF o.deadline.kind = "END_OF_PERIOD"
  THEN DiaryDates(o.deadline.period, start, start + days)
  ELSE {}

\* One row a rule, at its earliest date, judged by what was filed before.
Forecast(id, begin) ==
  LET dates == Diary(rules[id], begin, Horizon)
      past  == {e \in For(id) : e.occurred < begin}
      filed == {e \in past : e.filed # None}
  IN  IF dates = {} /\ ~Daily(rules[id]) THEN None
      ELSE [due |-> IF dates = {} THEN None ELSE Min(dates),
            outlook |-> CASE past = {} -> "UNPROVEN"
                          [] past # {} /\ filed = {} -> "NEVER_EVIDENCED"
                          [] filed # {} /\ 2 * Cardinality(past \ filed) > Cardinality(past)
                               -> "OFTEN_MISSED"
                          [] OTHER -> "ON_RECORD"]

-----------------------------------------------------------------------------
(* The state of the records (health.py).                                   *)

Watched(id) == rules[id].status = "CERTIFIED" /\ rules[id].artifact

\* Mutant: only the last record is looked at for a filing.
SignalOfLast(id, day) ==
  LET o        == rules[id]
      due      == ExpectedOccasions(o, day - Lookback, day)
      recorded == {e.occurred : e \in For(id)}
      unfiled  == \E e \in For(id) : e.filed = None /\ e.occurred = Max(recorded)
  IN  IF o.deadline = None \/ o.deadline.kind # "END_OF_PERIOD"
      THEN IF unfiled THEN "UNFILED" ELSE "NO_SCHEDULE"
      ELSE IF due = {} THEN "CURRENT"
      ELSE IF recorded = {} THEN "NEVER_RECORDED"
      ELSE IF Max(recorded) < Max(due) THEN "GONE_QUIET"
      ELSE IF unfiled THEN "UNFILED" ELSE "CURRENT"

Signal(id, day) ==
  LET o        == rules[id]
      due      == ExpectedOccasions(o, day - Lookback, day)
      recorded == {e.occurred : e \in For(id)}
      unfiled  == \E e \in For(id) : e.filed = None
  IN  IF o.deadline = None \/ o.deadline.kind # "END_OF_PERIOD"
      THEN IF unfiled THEN "UNFILED" ELSE "NO_SCHEDULE"
      ELSE IF due = {} THEN "CURRENT"
      ELSE IF recorded = {} THEN "NEVER_RECORDED"
      ELSE IF Max(recorded) < Max(due) THEN "GONE_QUIET"
      ELSE IF unfiled THEN "UNFILED" ELSE "CURRENT"

-----------------------------------------------------------------------------
(* Days pass and records come in.                                          *)

EngineInit ==
  /\ rules \in [Ids -> Shapes] /\ events = {}
  /\ began \in StartDays /\ today = began

NextDay ==
  /\ today < began + Run
  /\ today' = today + 1
  /\ UNCHANGED <<rules, events, began>>

\* EvidenceStore.supersede: a second statement of an occasion replaces the first.
Supersede(e) ==
  events' = {f \in events : f.id # e.id \/ f.occurred # e.occurred} \cup {e}

\* A register states what happened up to today: an occasion, filed or not.
RecordOccasion(id, occurred, filed) ==
  /\ occurred <= today /\ filed # None => occurred <= filed /\ filed <= today
  /\ Supersede([id |-> id, occurred |-> occurred, filed |-> filed])
  /\ Cardinality(events') <= MaxRecords
  /\ UNCHANGED <<rules, today, began>>

Recordable == {began - ClockDays, began, today}

EngineNext ==
  \/ NextDay
  \/ \E id \in Ids, occurred \in Recordable, filed \in Recordable \cup {None} :
       RecordOccasion(id, occurred, filed)

EngineSpec == EngineInit /\ [][EngineNext]_engineVars

-----------------------------------------------------------------------------
(* Properties.                                                             *)

\* A clock that starts later never runs out earlier, over month ends, leap days
\* and weekends; working days are counted exactly, and the due day is one; a
\* count of months never leaves the month it lands in (calendar.py).
DueDatesAreSound ==
  \A id \in Ids : rules[id].deadline # None =>
    LET dl == rules[id].deadline
        due == DueDate(dl, today)
        open == {d \in (today + 1)..due : IsWorkingDay(d)}
    IN  due # None =>
          /\ due <= DueDate(dl, today + 1)
          /\ dl.kind = "RELATIVE" => due >= today
          /\ (dl.kind = "RELATIVE" /\ dl.days \notin {None, 0} /\ dl.count = "BUSINESS") =>
                Cardinality(open) = dl.days /\ due \in open
          /\ (dl.kind = "RELATIVE" /\ dl.months # None) =>
                MonthOf[due] = MonthOf[today] + dl.months

\* The occasions a silent rule is found wanting on are the days on which its
\* period closes by the engine's own calendar, and each of them stood in the
\* diary on every day of the month before, except for tables, which the diary
\* leaves out and the engine does not (applicability.py, analyse/calendar.py).
OwedAndForetold ==
  \A id \in Ids :
    LET o == rules[id]
        owed == ExpectedOccasions(o, today - Window, today)
    IN  Findings(id, today) # {} /\ For(id) = {} =>
          /\ owed = {d \in (today - Window)..today :
                       /\ EndOfPeriod(d, o.deadline.period) = d
                       /\ o.deadline.period = "DAY" => Weekday(d) < 5}
          /\ o.table \/ Daily(o) \/
               \A d \in owed \cap (began..today), ahead \in 0..Horizon :
                 d \in Diary(o, d - ahead, Horizon)

\* Days passing change no verdict that was reached: a finding stays until the
\* records say otherwise.  For a rule without records this needs every period,
\* a leap year included, to close inside the window wherever that begins.
FindingsStay ==
  [][today' # today =>
       \A id \in Ids : \A f \in Findings(id, today) :
         \E g \in Findings(id, today)' :
           /\ g.outcome = f.outcome
           /\ f.outcome # "NO_EVIDENCE" => g = f]_engineVars

\* What the gaps screen reports is never denied by the screen on the records: a
\* rule found without evidence reads never recorded there, and one with a missing
\* filing is not called current (health.py says they agree).
ScreensAgree ==
  \A id \in Ids : \A f \in Findings(id, today), signal \in {Signal(id, today)} :
    /\ Watched(id)
    /\ f.outcome = "NO_EVIDENCE" => signal = "NEVER_RECORDED"
    /\ f.outcome = "MISSING" => signal \in {"UNFILED", "GONE_QUIET"}

\* Nothing was filed, and nothing had to be yet.
StillTime(e) ==
  LET due == DueDate(rules[e.id].deadline, e.occurred)
  IN  e.filed = None /\ due # None /\ due > today

\* A deadline that runs backwards: the schema, the edit form and a model's answer
\* let a negative number of days in.
Backward(dl) == dl.months = None /\ dl.hours = None /\ dl.days # None /\ dl.days < 0

\* No certified rule is left out of the report, and under a rule that was
\* evaluated no filing and no overdue occasion is left out of the count, so that
\* the compliance rate cannot rise by not looking (engine.py).  The exception is
\* a deadline that runs backwards: the rule is evaluated and each of its occasions
\* dropped (engine.py:302), although no rule is to be skipped (engine.py:14).
NothingUncounted ==
  \A r \in {Report(today)} :
    LET looked == {e \in events : Treatment(e.id, today) = "EVALUATED"}
    IN  /\ r.certified = r.evaluated + r.unevaluable + r.undetermined + r.not_applicable
        /\ r.checked = r.satisfied + r.breaches
        /\ \A e \in looked :
             Backward(rules[e.id].deadline) \/ e \in Counted(today) \/ StillTime(e)
        /\ r.evaluated > 0 /\ looked = {} => r.unevidenced > 0

\* The report leaves nothing out but the occasions of a deadline that runs
\* backwards, and the other screens do not deny it.
ReportIsWhole == ScreensAgree /\ NothingUncounted
=============================================================================
