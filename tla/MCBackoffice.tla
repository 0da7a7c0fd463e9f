---------------------------- MODULE MCBackoffice -----------------------------
(* Small instances: edits of a rule that race, and lists read while they     *)
(* change.                                                                   *)
EXTENDS Backoffice, TLC

CONSTANTS e1, e2, e3, p1, p2, p3, s1, s2, q, amy, bob, fraud, benign

MCRaw == {3750, -4750}

Rule(name, risk, fires) == [name |-> name, risk |-> risk, fires |-> fires]

Strict == Rule("strict", "critical", {p1})
Mild == Rule("mild", "medium", {p1, p2, p3})
Watch == Rule("watch", "high", {p1})

OneRule == (1 :> Strict @@ 2 :> NoRule @@ 3 :> NoRule)
TwoRules == (1 :> Strict @@ 2 :> Mild @@ 3 :> NoRule)
Watched == (1 :> Watch @@ 2 :> NoRule @@ 3 :> NoRule)

Ask(op, i, row) ==
  [op |-> op, id |-> i, name |-> row.name, risk |-> row.risk, fires |-> row.fires]

Retire == Ask("deactivate", 1, Strict)
Renamed == Rule("mild", "critical", {p1})
Softened == Rule("strict", "low", {p1})
Widened == Rule("strict", "critical", {p1, p2})
Misspelt == Rule("strict", "unheard", {})

\* Two creates of one name beside a rename to it; updates of different columns
\* and of the same one beside a deactivation.
MCEditLoads ==
  { (e1 :> x @@ e2 :> y @@ e3 :> z) :
      x \in {Ask("create", 1, Mild), Ask("update", 1, Softened), Ask("create", 1, Misspelt)},
      y \in {Ask("create", 1, Renamed), Ask("update", 1, Widened), Ask("update", 2, Widened)},
      z \in {Ask("update", 1, Renamed), Ask("update", 1, Softened), Retire} }

Sent(E) == [e \in Edits |-> IF e \in E THEN "idle" ELSE "done"]
Due(P) == [p \in Payments |-> IF p \in P THEN "idle" ELSE "absent"]
Asked(S) == [s \in Resolutions |-> IF s \in S THEN "idle" ELSE "done"]

MCAsks == (s1 :> [alert |-> p1, by |-> amy, notes |-> fraud]
        @@ s2 :> [alert |-> p2, by |-> bob, notes |-> benign])

Read(kind, since) == (q :> [kind |-> kind, whose |-> {p1, p2, p3}, since |-> since])

Scenario(table0, load, E, P, S, reader) ==
  [rules |-> table0, edit |-> load, at |-> Sent(E), stage |-> Due(P),
   asks |-> MCAsks, resolving |-> Asked(S), reads |-> reader]

AnyLoad == CHOOSE load \in MCEditLoads : TRUE
Retiring == CHOOSE load \in MCEditLoads : load[e3] = Retire

MCScenarios ==
       {Scenario(t, load, Edits, {p1}, {}, Read("none", 1)) :
          t \in {OneRule, TwoRules}, load \in MCEditLoads}
  \cup {Scenario(Watched, AnyLoad, {}, Payments, {s1, s2}, Read("alerts", 1)),
        Scenario(Watched, AnyLoad, {}, Payments, {}, Read("history", 1)),
        Scenario(Watched, AnyLoad, {}, Payments, {}, Read("stats", 2)),
        Scenario(OneRule, Retiring, {e3}, {p1, p2}, {s1}, Read("alerts", 1))}

MCRuleTables == {OneRule, TwoRules, Watched}
==============================================================================
