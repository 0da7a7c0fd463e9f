------------------------------ MODULE MCAccess -------------------------------
(* A founder and three newcomers, two of whose account numbers collide.      *)
EXTENDS Access, TLC

CONSTANTS root, i1, i2, i3, v1, v2, v3, Ann, ann, boss, good, weak

MCLower == (Ann :> ann @@ ann :> ann @@ boss :> boss)
MCFounders ==
  [i \in Ids |-> IF i = root THEN [email |-> boss, password |-> good, role |-> "analyst"]
                 ELSE NoUser]
MCNumberOf == (root :> 0 @@ i1 :> 1 @@ i2 :> 1 @@ i3 :> 2)

Ask(op, m, p) == [op |-> op, email |-> m, password |-> p]

Three(a, b, c) == (v1 :> a @@ v2 :> b @@ v3 :> c)

\* Registrations of one address and of two; a login with what follows from it; a
\* payment and its replay.
MCVisitings ==
  { Three(Ask("register", Ann, good), Ask("register", ann, good), c) :
      c \in {Ask("register", ann, good), Ask("login", ann, good), Ask("register", ann, weak)} }
  \cup { Three(Ask("login", boss, p), Ask("renew", boss, good), Ask(op, boss, good)) :
           p \in {good, weak}, op \in {"viewer", "analyst", "admin", "login"} }
  \cup { Three(Ask("register", ann, good), Ask("login", ann, good), Ask("viewer", ann, good)) }
  \cup { Three(Ask("login", boss, good), Ask("pay", boss, good), Ask("pay", boss, good)) }
==============================================================================
