---------------------------- MODULE RateLimiter ----------------------------
(***************************************************************************)
(* The fixed-window limiter in front of the planning route: a table of     *)
(* clients with a count and the end of their window, emptied as a whole    *)
(* when it has grown past its limit.                                       *)
(***************************************************************************)
EXTENDS Naturals, FiniteSets, Functions

CONSTANTS Client,     \* addresses of those who call the route
          Limit, WindowMs, MaxEntries,
          MaxAdmitted \* bound: requests recorded by admitted

ASSUME LimiterAssumption == {Limit, WindowMs, MaxEntries} \subseteq Nat \ {0}

VARIABLES now,        \* the clock of the server
          entries,    \* [clients seen -> [count, resetAt]]
          admitted    \* ghost: [client, at] of the requests let through, with a serial number

limiterVars == <<now, entries, admitted>>

LimiterInit == now = 0 /\ entries = [c \in {} |-> 0] /\ admitted = {}

InWindow(c) == c \in DOMAIN entries /\ now < entries[c].resetAt
\* Mutant: a client is refused only when it is beyond the limit.
ExhaustedLate(c) == InWindow(c) /\ entries[c].count > Limit
Exhausted(c) == InWindow(c) /\ entries[c].count >= Limit

Entered(c) ==
  LET entry == IF InWindow(c) THEN [entries[c] EXCEPT !.count = @ + 1]
               ELSE [count |-> 1, resetAt |-> now + WindowMs]
  IN  [d \in DOMAIN entries \cup {c} |-> IF d = c THEN entry ELSE entries[d]]

Kept(table) == IF Cardinality(DOMAIN table) > MaxEntries THEN [c \in {} |-> 0] ELSE table

\* check() of a client that is let through, and of one that is not.
Admit(c) ==
  /\ ~Exhausted(c) /\ Cardinality(admitted) < MaxAdmitted
  /\ entries' = Kept(Entered(c))
  /\ admitted' = admitted \cup {[client |-> c, at |-> now, serial |-> Cardinality(admitted)]}
  /\ UNCHANGED now
Refuse(c) == Exhausted(c) /\ UNCHANGED limiterVars

Tick == now' = now + 1 /\ UNCHANGED <<entries, admitted>>
=============================================================================
