---------------------------- MODULE MCRuleEngine -----------------------------
(* Inputs on both sides of every threshold, and tables of staff-made rules. *)
EXTENDS RuleEngine

USA == Str("USA")

\* Raw model outputs on both sides of the combination's thresholds (scores 0,
\* 0.6499, 0.65, 0.80, 0.85), and one beyond the clip.
MCRaw == {3750 - s : s \in {0, 6499, 6500, 8000, 8500}} \cup {-9000}

MCInputs ==
  [amount : {100000, 100001, 500001}, balance : {100000, 900000},
   lastHour : {5, 6}, lastDay : {6}, average : {10000, 100000},
   hour : {3, 4}, weekday : {2}, raw : MCRaw,
   country : {Str("usa"), Str("FR"), None}, home : {USA},
   currency : {Str("USD")}, city : {None}, homeCity : {Str("Boston")},
   category : {None}]

Everything == Rule("everything", 50, "medium", <<>>)
Retired == [Rule("retired", 1, "critical", <<>>) EXCEPT !.active = FALSE]

\* Rules that share a priority with a built-in rule and with one another.
Tied ==
  { Rule("tied_high", 5, "high", << Cond("user_home_country", "==", USA) >>),
    Rule("tied_critical", 5, "critical",
         << Cond("transactions_last_24h", ">=", Num(600)),
            Cond("amount", ">", Num(400000)) >>),
    Rule("tied_low", 5, "low", <<>>) }

\* Every operator, the field that is never filled in, a field that does not
\* exist, and values of the wrong type.
Operators ==
  { Rule("not_usa", 30, "medium",
         << Cond("transaction_country", "not_in", List(<<USA, Str("CA")>>)),
            Cond("amount", "<=", Num(100000)) >>),
    Rule("round", 36, "high",
         << Cond("amount", "contains", Str("000.0")), Cond("hour_of_day", "<", Num(400)) >>),
    Rule("home_city", 37, "medium", << Cond("user_home_city", "contains", Str("Bos")) >>),
    Rule("same_country", 38, "high",
         << Cond("transaction_country", "==", Ref("user_home_country")) >>) }
Mistakes ==
  { Rule("new_device", 31, "critical", << Cond("device_fingerprint", "!=", Str("known")) >>),
    Rule("typo", 32, "critical", << Cond("ammount", ">", Num(0)) >>),
    Rule("bad_operator", 33, "critical", << Cond("amount", "=>", Num(0)) >>),
    Rule("bad_type", 34, "critical", << Cond("amount", ">", Str("many")) >>),
    Rule("wrong_way", 35, "high", << Cond("amount", "in", Str("1000.0")) >>) }

MCTables == {{}, {Everything, Retired}, Tied, Operators, Mistakes}

MCOccursIn == {<<"000.0", "1000.0">>, <<"Bos", "Boston">>}
MCUpper == [usa |-> "USA", USA |-> "USA", FR |-> "FR", CA |-> "CA"]
MCPrinted == [n \in 0..1000000 |->
               IF n = 100000 THEN "1000.0" ELSE IF n = 100001 THEN "1000.01" ELSE "5000.01"]
==============================================================================
