-------------------------- MODULE PatternRewriting --------------------------
(* What becomes of the capture groups of a message filter.  The loader takes
   the names out of a pattern and numbers the groups (normalize_message_filter);
   the engine, which has one capture per expression, turns every other group of
   the numbered pattern into one that does not capture
   (rewrite_pattern_for_capture).

   A pattern is a sequence of characters.  Both functions walk over it once; in
   a state of a walk, everything up to "done" has been dealt with.           *)
EXTENDS Naturals, Sequences, FiniteSets

IsPattern(p) == p \in Seq({p[i] : i \in DOMAIN p})

StartsWith(p, i, s) == i + Len(s) <= Len(p) + 1 /\ SubSeq(p, i, i + Len(s) - 1) = s

\* The end of a group's name, which there may not be.
NameEnds(p, i) == {k \in i..Len(p) : p[k] = ">" /\ \A j \in i..(k - 1) : p[j] # ">"}
NameEnd(p, i) == CHOOSE k \in NameEnds(p, i + 3) : TRUE

Walked == [out |-> <<>>, group |-> 0, captures |-> <<>>, done |-> 0,
           escaped |-> FALSE, class |-> FALSE, fails |-> FALSE]

Copied(w, c) == [w EXCEPT !.out = Append(@, c), !.escaped = ~w.escaped /\ c = "\\"]
Failed(w, p) == [w EXCEPT !.fails = TRUE, !.done = Len(p)]

\* Mutant: a parenthesis that only groups counts.
CapturesAny(w, p, i) == p[i] = "(" /\ ~w.escaped

\* A group without a name that captures.
Captures(w, p, i) == p[i] = "(" /\ ~w.escaped /\ ~StartsWith(p, i, <<"(", "?">>)

\* One character of the loader's walk: "(?<" begins a named group.
NormalizedAt(w, p, i) ==
  IF i <= w.done THEN w
  ELSE IF ~w.escaped /\ StartsWith(p, i, <<"(", "?", "<">>)
  THEN IF NameEnds(p, i + 3) = {} THEN Failed(w, p)
       ELSE [Copied(w, "(") EXCEPT !.group = @ + 1, !.done = NameEnd(p, i),
               !.captures = Append(@, <<SubSeq(p, i + 3, NameEnd(p, i) - 1), w.group + 1>>)]
  ELSE [Copied(w, p[i]) EXCEPT !.group = @ + IF Captures(w, p, i) THEN 1 ELSE 0]

Normalized(p) ==
  LET Walk[i \in 0..Len(p)] == IF i = 0 THEN Walked ELSE NormalizedAt(Walk[i - 1], p, i)
  IN Walk[Len(p)]

\* A group of the engine's walk: the one it wants, or one that only groups.
Opened(w, group) ==
  [w EXCEPT !.group = @ + 1, !.escaped = FALSE,
            !.out = @ \o IF w.group + 1 = group THEN <<"(">> ELSE <<"(", "?", ":">>]

\* One character of the engine's walk, which knows character classes, and the
\* expressions that look behind.
RewrittenAt(w, p, i, group) ==
  LET Begins(s) == ~w.escaped /\ ~w.class /\ StartsWith(p, i, s)
      named == /\ Begins(<<"(", "?", "<">>)
               /\ ~\E c \in {"=", "!"} : StartsWith(p, i, <<"(", "?", "<", c>>)
  IN IF i <= w.done THEN w
     ELSE IF named
     THEN IF NameEnds(p, i + 3) = {} THEN Failed(w, p)
          ELSE [Opened(w, group) EXCEPT !.done = NameEnd(p, i)]
     ELSE IF Begins(<<"(">>) /\ ~Begins(<<"(", "?">>) THEN Opened(w, group)
     ELSE [Copied(w, p[i]) EXCEPT !.class =
             IF w.escaped THEN @ ELSE IF @ THEN p[i] # "]" ELSE p[i] = "["]

\* Group 0 is the whole pattern; a group there is not is an error.
Rewritten(p, group) ==
  LET Walk[i \in 0..Len(p)] == IF i = 0 THEN Walked ELSE RewrittenAt(Walk[i - 1], p, i, group)
      end == Walk[Len(p)]
  IN [fails |-> end.fails \/ end.group < group,
      out |-> IF group = 0 THEN <<"(">> \o end.out \o <<")">> ELSE end.out]

-----------------------------------------------------------------------------
(* What the two walks amount to.                                             *)

\* The positions of a pattern that no odd number of backslashes stands before.
Plain(p) ==
  {i \in DOMAIN p : \E k \in 0..(i - 1) :
     /\ \A j \in (k + 1)..(i - 1) : p[j] = "\\"
     /\ (k = 0 \/ p[k] # "\\") /\ (i - 1 - k) % 2 = 0}

NamedGroups(p) == {i \in Plain(p) : StartsWith(p, i, <<"(", "?", "<">>)}
Groups(p) == NamedGroups(p) \cup {i \in Plain(p) : p[i] = "(" /\ ~StartsWith(p, i, <<"(", "?">>)}

\* A name that does not end.
NameIsOpen(p) == \E i \in NamedGroups(p) : NameEnds(p, i + 3) = {}

\* Patterns in which the two walks count the same groups: no character class,
\* no look behind, and names of letters that end and no "?" follows, with which
\* the parenthesis would begin something else once the name is taken out.
IsUsual(p) ==
  /\ \A i \in DOMAIN p : p[i] # "["
  /\ \A i \in NamedGroups(p) :
       /\ NameEnds(p, i + 3) # {}
       /\ \A k \in (i + 3)..(NameEnd(p, i) - 1) : p[k] \notin {"(", "?", "<", "=", "!", "\\"}
       /\ NameEnd(p, i) < Len(p) => p[NameEnd(p, i) + 1] # "?"

\* A pattern with one group that captures, the one that begins at a position.
Only(p, chosen) ==
  LET From[i \in 1..(Len(p) + 1)] ==
        IF i > Len(p) THEN <<>>
        ELSE IF i \notin Groups(p) THEN <<p[i]>> \o From[i + 1]
        ELSE (IF i = chosen THEN <<"(">> ELSE <<"(", "?", ":">>)
             \o From[IF i \in NamedGroups(p) THEN NameEnd(p, i) + 1 ELSE i + 1]
  IN From[1]

=============================================================================
