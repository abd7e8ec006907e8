--------------------------- MODULE MCRuleEngine ---------------------------
(* RuleEngine for TLC: the years 2023 to 2025, of which 2024 is a leap     *)
(* year, and a holiday list that ends in December 2024.                    *)
EXTENDS RuleEngine

CONSTANT o1

Gregorian == <<31, 28, 31, 30, 31, 30, 31, 31, 30, 31, 30, 31>>
  \o <<31, 29, 31, 30, 31, 30, 31, 31, 30, 31, 30, 31>>
  \o <<31, 28, 31, 30, 31, 30, 31, 31, 30, 31, 30, 31>>

\* 28 February, 28 March, 30 September and 27 December 2024, counted from
\* 1 January 2023, a Sunday.
Starts == {423, 452, 638, 726}
Shut == {453, 455, 724}

Must(deadline) == [status |-> "CERTIFIED", modality |-> "MUST", deadline |-> deadline,
                   artifact |-> TRUE, table |-> FALSE]
Deadlines ==
  {Relative(5, "BUSINESS"), Relative(7, "CALENDAR"), Relative(2, "UNSPECIFIED"),
   Relative(-1, "CALENDAR"), [Closing("MONTH") EXCEPT !.days = -1, !.count = "BUSINESS"],
   [Unset EXCEPT !.kind = "RELATIVE", !.months = 1],
   [Unset EXCEPT !.kind = "RELATIVE", !.hours = 30],
   [Unset EXCEPT !.kind = "ABSOLUTE", !.date = 454],
   Unset,
   [Closing("MONTH") EXCEPT !.days = 2, !.count = "BUSINESS"]}
  \cup {Closing(p) : p \in Periods}
Rulebook ==
  {Must(dl) : dl \in Deadlines \cup {None}}
  \cup {[Must(Closing("MONTH")) EXCEPT !.status = "PROPOSED"],
        [Must(Closing("MONTH")) EXCEPT !.modality = "MAY"],
        [Must(Closing("MONTH")) EXCEPT !.artifact = FALSE],
        [Must(Closing("MONTH")) EXCEPT !.table = TRUE]}
=============================================================================
