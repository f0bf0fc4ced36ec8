---------------------------- MODULE ArchiveNames ----------------------------
(***************************************************************************)
(* The names that an archive_name_format generates, and the names that its *)
(* match pattern claims: internal/config/generate.go.  borgmatic derives a *)
(* group's prune scope from the pattern, so a pattern that claims a name   *)
(* of another group prunes that group's archives.                          *)
(*                                                                         *)
(* A text is a sequence of characters.  A format is a sequence of items:   *)
(* characters, and placeholders in braces, parsed.                         *)
(***************************************************************************)
EXTENDS Naturals, Sequences, SequencesExt

CONSTANTS
  Alphabet,     \* the characters, in the order of their codes
  Digits,
  HostNames,    \* what {hostname} may become on this host, if it is known
  UserNames,    \* likewise {user}
  DigitRuns,    \* strftimeDigitRuns: a directive's number of digits
  Domains       \* strftimeDomains: all texts of a directive

Chars == Range(Alphabet)
Code(c) == CHOOSE i \in DOMAIN Alphabet : Alphabet[i] = c

ASSUME ArchiveNamesAssumption ==
  /\ IsInjective(Alphabet) /\ Digits \subseteq Chars /\ Digits # {}
  /\ HostNames \subseteq Seq(Chars) /\ UserNames \subseteq Seq(Chars)
  /\ \A d \in DOMAIN DigitRuns : DigitRuns[d] \in Nat \ {0}
  /\ \A d \in DOMAIN Domains : Domains[d] \subseteq Seq(Chars)

Lit(c) == [char |-> c]
Token(name, spec) == [token |-> name, spec |-> spec]
IsToken(item) == "token" \in DOMAIN item

IsItem(item) ==
  IF IsToken(item) THEN item.spec \in Seq(Range(item.spec)) ELSE item.char \in Chars

IsFormat(format) ==
  format \in Seq(Range(format)) /\ \A item \in Range(format) : IsItem(item)

-----------------------------------------------------------------------------
(* Formats: the pattern, and the segments of every name. *)

\* "{group}" is found wherever it is written, and replaced.
HasGroupToken(format) ==
  \E i \in DOMAIN format :
    IsToken(format[i]) /\ (format[i].token = "group" \/ "group" \in Range(format[i].spec))

WithGroup(spec, group) ==
  FlattenSeq([i \in DOMAIN spec |-> IF spec[i] = "group" THEN group ELSE <<spec[i]>>])

ResolvedItem(item, group) ==
  IF ~IsToken(item) THEN <<item>>
  ELSE IF item.token = "group" THEN [k \in DOMAIN group |-> Lit(group[k])]
  ELSE <<Token(item.token, WithGroup(item.spec, group))>>

Resolved(format, group) ==
  FlattenSeq([i \in DOMAIN format |-> ResolvedItem(format[i], group)])

\* archiveMatchPattern: a placeholder becomes a wildcard.
ArchiveMatchPattern(format) ==
  [i \in DOMAIN format |-> IF IsToken(format[i]) THEN "*" ELSE format[i].char]

Alts(texts) == [alts |-> texts, digits |-> 0, any |-> FALSE]
DigitRun(n) == [alts |-> {}, digits |-> n, any |-> FALSE]
AnyText == [alts |-> {}, digits |-> 0, any |-> TRUE]

StrftimeSegment(d) ==
  IF d \in DOMAIN DigitRuns THEN DigitRun(DigitRuns[d])
  ELSE IF d \in DOMAIN Domains THEN Alts(Domains[d])
  ELSE IF d \in Chars THEN Alts({<<d>>})
  ELSE AnyText

StrftimeSegments(spec) == [i \in DOMAIN spec |-> StrftimeSegment(spec[i])]

PlaceholderSegments(item) ==
  CASE item.token = "hostname" /\ HostNames # {} -> <<Alts(HostNames)>>
    [] item.token = "user" /\ UserNames # {} -> <<Alts(UserNames)>>
    [] item.token = "now" -> StrftimeSegments(item.spec)
    [] OTHER -> <<AnyText>>

ArchiveFormatSegments(format) ==
  FlattenSeq([i \in DOMAIN format |->
    IF IsToken(format[i]) THEN PlaceholderSegments(format[i]) ELSE <<Alts({<<format[i].char>>})>>])

-----------------------------------------------------------------------------
(* The elements of a pattern. *)

IsRange(p, j) == j + 2 <= Len(p) /\ p[j + 1] = "-" /\ p[j + 2] # "]"
Span(lo, hi) == {c \in Chars : Code(lo) <= Code(c) /\ Code(c) <= Code(hi)}

\* parseCharClass: the class that opens at i, and the position after it, 0 if
\* nothing closes it.  A bracket that comes first is a member.
CharClass(p, i) ==
  LET negated == i < Len(p) /\ p[i + 1] \in {"!", "^"}
      start == IF negated THEN i + 2 ELSE i + 1
      Scan[j \in start .. Len(p) + 1] ==
        IF j > Len(p) THEN [set |-> {}, after |-> 0]
        ELSE IF p[j] = "]" /\ j > start THEN [set |-> {}, after |-> j + 1]
        ELSE IF IsRange(p, j)
          THEN [Scan[j + 3] EXCEPT !.set = @ \cup Span(p[j], p[j + 2])]
          ELSE [Scan[j + 1] EXCEPT !.set = @ \cup {p[j]}]
  IN IF negated THEN [Scan[start] EXCEPT !.set = Chars \ @] ELSE Scan[start]

\* The characters that the element at i matches, and the position after it.
PatternElement(p, i) ==
  IF p[i] = "?" THEN [set |-> Chars, after |-> i + 1]
  ELSE IF p[i] = "[" /\ CharClass(p, i).after # 0 THEN CharClass(p, i)
  ELSE [set |-> {p[i]}, after |-> i + 1]

-----------------------------------------------------------------------------
(* patternMatchesFormat: the pattern as a state machine, whose states are  *)
(* the positions that the characters so far may have led to.               *)

StarClosure(p, states) ==
  {k \in 1 .. Len(p) + 1 : \E s \in states : s <= k /\ \A j \in s .. k - 1 : p[j] = "*"}

\* step, on one of the characters offered.
Step(p, states, offered) ==
  LET live == states \ {Len(p) + 1}
  IN StarClosure(p,
       {s \in live : p[s] = "*"} \cup
       {PatternElement(p, s).after :
          s \in {s \in live : p[s] # "*" /\ PatternElement(p, s).set \cap offered # {}}})

\* consume, consumeDigits: one step for each set of characters that is offered.
Consume(p, states, offers) ==
  LET After[k \in 0 .. Len(offers)] ==
        IF k = 0 THEN states ELSE Step(p, After[k - 1], offers[k])
  IN After[Len(offers)]

ConsumeText(p, states, text) == Consume(p, states, [k \in 1 .. Len(text) |-> {text[k]}])

ConsumeDigits(p, states, n) == Consume(p, states, [k \in 1 .. n |-> Digits])

\* All boundaries of elements from one on.
Boundaries(p, from) ==
  LET To[j \in 1 .. Len(p) + 1] ==
        IF j = Len(p) + 1 THEN {j} ELSE {j} \cup To[PatternElement(p, j).after]
  IN To[from]

Earliest(states) == CHOOSE s \in states : \A t \in states : s <= t

\* Faulty: text of any kind ends the match.
AdvanceAnyEnds(p, states, seg) ==
  IF states = {} THEN {}
  ELSE IF seg.any THEN {Len(p) + 1}
  ELSE IF seg.digits > 0 THEN ConsumeDigits(p, states, seg.digits)
  ELSE UNION {ConsumeText(p, states, alt) : alt \in seg.alts}

Advance(p, states, seg) ==
  IF states = {} THEN {}
  ELSE IF seg.any THEN StarClosure(p, Boundaries(p, Earliest(states)))
  ELSE IF seg.digits > 0 THEN ConsumeDigits(p, states, seg.digits)
  ELSE UNION {ConsumeText(p, states, alt) : alt \in seg.alts}

PatternMatchesFormat(p, segs) ==
  LET Reached[k \in 0 .. Len(segs)] ==
        IF k = 0 THEN StarClosure(p, {1}) ELSE Advance(p, Reached[k - 1], segs[k])
  IN Len(p) + 1 \in Reached[Len(segs)]

\* A pattern or a format that says nothing cannot be told from any other.
PatternOvermatches(p, segs) == p = <<>> \/ segs = <<>> \/ PatternMatchesFormat(p, segs)

-----------------------------------------------------------------------------
(* What that decides, as a definition: whether the pattern, as a shell     *)
(* reads it, claims a name that the format can generate.                   *)

\* The texts of a segment, those of any kind up to a length.
Texts(seg, bound) ==
  IF seg.any THEN UNION {[1 .. n -> Chars] : n \in 0 .. bound}
  ELSE IF seg.digits > 0 THEN [1 .. seg.digits -> Digits]
  ELSE seg.alts

Joined(prefixes, texts) == {prefix \o text : prefix \in prefixes, text \in texts}

Names(segs, bound) ==
  LET Upto[k \in 0 .. Len(segs)] ==
        IF k = 0 THEN {<<>>} ELSE Joined(Upto[k - 1], Texts(segs[k], bound))
  IN Upto[Len(segs)]

\* Where in the name what the pattern from i on claims may begin.
Tails(p, name) ==
  LET From[i \in 1 .. Len(p) + 1] ==
        IF i = Len(p) + 1 THEN {Len(name) + 1}
        ELSE IF p[i] = "*" THEN UNION {1 .. j : j \in From[i + 1]}
        ELSE LET element == PatternElement(p, i)
             IN {j - 1 : j \in {j \in From[element.after] \ {1} : name[j - 1] \in element.set}}
  IN From

Claims(p, name) == 1 \in Tails(p, name)[1]

ClaimsSome(p, segs, bound) == \E name \in Names(segs, bound) : Claims(p, name)

\* The elements from one on that take a character; and whether there is one for
\* each of them, which an empty class like [z-a] has not.
Literals(p, from) == {i \in Boundaries(p, from) : i <= Len(p) /\ p[i] # "*"}

Matchable(p) == \A i \in Literals(p, 1) : PatternElement(p, i).set \cap Chars # {}
=============================================================================
