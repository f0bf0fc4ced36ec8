---------------------------- MODULE MCGeneration ----------------------------
(* A small instance of Generation for TLC. *)
EXTENDS Generation

CONSTANTS a, b, c, d

MCAlphabet == <<"-", "0", "1", "?", "[", "]", "a">>
MCDigits == {"0", "1"}
MCHostNames == {<<"a">>, <<"a", "0">>}
MCUserNames == {<<"a">>}
\* One digit for %y, one month for %m; %B is text of the locale.
MCDigitRuns == [d1 \in {"%y"} |-> 1]
MCDomains == [d1 \in {"%m"} |-> {<<"0">>}]

\* One name is a prefix of another, one a suffix, one what a directive renders.
MCName == (a :> <<"a">>) @@ (b :> <<"a", "0">>) @@ (c :> <<"0">>) @@ (d :> <<"1">>)

Group == Token("group", <<>>)
Now(directive) == Token("now", <<directive>>)
User == Token("user", <<"group">>)

Dashed == <<Group, Lit("-"), Now("%m")>>
Plain == <<Group, Now("%y")>>
Hosted == <<Token("hostname", <<>>), Group>>
Worded == <<Now("%B"), Group>>
Questioned == <<Lit("?"), Group>>
Classed == <<Lit("["), Lit("0"), Lit("-"), Lit("1"), Lit("]"), Group>>
Anonymous == <<Now("%m")>>
Nested == <<Token("now", <<"%m", "group">>)>>

\* Three that claim each other's archives in a circle, in one direction.
First == <<Now("%m"), Lit("-"), Now("%y"), Lit("-"), Lit("1"), User>>
Second == <<Lit("1"), Lit("-"), Now("%m"), Lit("-"), Now("%y"), User>>
Third == <<Now("%y"), Lit("-"), Lit("1"), Lit("-"), Now("%m"), User>>

Usual == {Dashed, Plain, Hosted, Worded}
Odd == {Questioned, Classed, Anonymous, Nested}
Circle == {First, Second, Third}

MCMerged ==
  {f \in [{a, b, c, d} -> Usual \cup Odd \cup Circle] :
     \/ f[a] \in Usual /\ f[b] \in Usual /\ f[c] \in {Plain, Worded} /\ f[d] \in {Dashed, Worded}
     \/ f[a] \in Odd /\ f[b] \in Odd \cup Usual /\ f[c] = Plain /\ f[d] = Worded
     \/ f[a] = First /\ f[b] = Second /\ f[c] = Third
     \/ f[a] = First /\ f[b] = Second /\ f[c] = Worded /\ f[d] = Worded}

Known(at, written) == [at |-> at, written |-> written]
MCRepoLists ==
  {{Known("r1", "plain")}, {Known("r1", "expands"), Known("r2", "plain")}, {Known("r2", "default")}}

\* What the theorem OvermatchExact takes for granted holds here.
ASSUME MCComparable == \A format \in Finals : Comparable(format)
=============================================================================
