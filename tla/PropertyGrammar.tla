--------------------------- MODULE PropertyGrammar ---------------------------
(* The language of dynamic properties as its two grammar files state it: the
   rules of the scanner file, and the productions of the parser file read as
   what they mean for a sequence of symbols.  The scanner and the parser that
   are generated from the files are modelled apart, from their tables.

   A symbol is a record of its bison number (kind) and its value; a tree has
   the number of an operator at its root, or says what its leaf is.           *)
EXTENDS Integers, Sequences, FiniteSets

Ident == 22
String == 23
Number == 24

Digits == <<"0", "1", "2", "3", "4", "5", "6", "7", "8", "9">>
IsDigits(s) == s # <<>> /\ \A k \in DOMAIN s : \E d \in DOMAIN Digits : s[k] = Digits[d]

Letters ==
  {"a", "b", "c", "d", "e", "f", "g", "h", "i", "j", "k", "l", "m", "n", "o", "p", "q", "r",
   "s", "t", "u", "v", "w", "x", "y", "z", "A", "B", "C", "D", "E", "F", "G", "H", "I", "J",
   "K", "L", "M", "N", "O", "P", "Q", "R", "S", "T", "U", "V", "W", "X", "Y", "Z", "_"}

\* The texts of rules 2 to 20.
Fixed ==
  <<<<"i", "f">>, <<"t", "h", "e", "n">>, <<"e", "l", "s", "e">>, <<"a", "n", "d">>, <<"o", "r">>,
    <<"=", "=">>, <<"!", "=">>, <<"<", "=">>, <<">", "=">>, <<"?", "=">>, <<"<">>, <<">">>,
    <<"=">>, <<"+">>, <<"-">>, <<"*">>, <<"/">>, <<"(">>, <<")">>>>

\* What may stand between the quotes of a string.
RECURSIVE IsBody(_)
IsBody(s) ==
  \/ s = <<>>
  \/ s[1] \notin {"\\", "\""} /\ IsBody(Tail(s))
  \/ Len(s) > 1 /\ s[1] = "\\" /\ s[2] # "\n" /\ IsBody(SubSeq(s, 3, Len(s)))

\* The rules of the scanner file, on a text that is not empty.
Matches(rule, s) ==
  CASE rule = 1 -> \A k \in DOMAIN s : s[k] \in {" ", "\t", "\r", "\n"}
    [] rule \in 2..20 -> s = Fixed[rule - 1]
    [] rule = 21 -> /\ Len(s) >= 2 /\ s[1] = "\"" /\ s[Len(s)] = "\""
                    /\ IsBody(SubSeq(s, 2, Len(s) - 1))
    [] rule = 22 -> IsDigits(s)
    [] rule = 23 -> /\ s[1] \in Letters
                    /\ \A k \in DOMAIN s : s[k] \in Letters \cup {".", "$"} \/ IsDigits(<<s[k]>>)
    [] rule = 24 -> Len(s) = 1 /\ s # <<"\n">>

-----------------------------------------------------------------------------
(* The productions.  Each operator gives the trees of a sequence of symbols, as
   a set of at most one.                                                     *)

Of(kinds, s) == {k \in DOMAIN s : s[k].kind \in kinds}
Largest(set) == CHOOSE k \in set : \A j \in set : j <= k
From(s, k) == SubSeq(s, k, Len(s))
To(s, k) == SubSeq(s, 1, k)

\* The operators of some kinds that no parenthesis encloses.
Outside(kinds, s) ==
  {k \in Of(kinds, s) : Cardinality(Of({20}, To(s, k))) = Cardinality(Of({21}, To(s, k)))}
Enclosed(s) == Len(s) > 2 /\ s[1].kind = 20 /\ s[Len(s)].kind = 21
Inside(s) == SubSeq(s, 2, Len(s) - 1)

Trees(op, Lhs, Rhs) == {[op |-> op, lhs |-> l, rhs |-> r] : l \in Lhs, r \in Rhs}

\* value_expr, term and primary: the last of the loosest operators is the root.
RECURSIVE ValueTree(_)
ValueTree(s) ==
  LET sums == Outside({16, 17}, s)
      operators == IF sums # {} THEN sums ELSE Outside({18, 19}, s)
      root == Largest(operators)
  IN IF operators # {}
     THEN Trees(s[root].kind, ValueTree(To(s, root - 1)), ValueTree(From(s, root + 1)))
     ELSE IF Enclosed(s) THEN ValueTree(Inside(s))
     ELSE IF Len(s) # 1 THEN {}
     ELSE CASE s[1].kind = Ident  -> {[ident |-> s[1].value]}
            [] s[1].kind = String -> {[string |-> s[1].value]}
            [] s[1].kind = Number -> {[number |-> s[1].value]}
            [] OTHER -> {}

\* bool_expr, or_expr, and_expr and predicate.
RECURSIVE ConditionTree(_)
ConditionTree(s) ==
  LET ors == Outside({7}, s)
      operators == IF ors # {} THEN ors ELSE Outside({6}, s)
      root == Largest(operators)
      comparison == Largest(Outside(8..14, s))
  IN IF operators # {}
     THEN Trees(s[root].kind, ConditionTree(To(s, root - 1)), ConditionTree(From(s, root + 1)))
     ELSE IF Outside(8..14, s) # {}
     THEN Trees(s[comparison].kind, ValueTree(To(s, comparison - 1)),
                ValueTree(From(s, comparison + 1)))
     ELSE IF Enclosed(s) THEN ConditionTree(Inside(s)) ELSE {}

\* assignment_list: assignments between "and"s.
RECURSIVE Assignments(_)
Assignments(s) ==
  LET ands == Of({6}, s)
      last == IF ands = {} THEN s ELSE From(s, Largest(ands) + 1)
      before == IF ands = {} THEN {<<>>} ELSE Assignments(To(s, Largest(ands) - 1))
  IN IF Len(last) > 2 /\ last[1].kind = Ident /\ last[2].kind = 15
     THEN {Append(b, [target |-> last[1].value, expr |-> e]) :
             b \in before, e \in ValueTree(From(last, 3))}
     ELSE {}

\* conditional and else_clause.
Conditional(s) ==
  LET then == Largest(Of({4}, s))
      end == IF Of({5}, s) = {} THEN Len(s) ELSE Largest(Of({5}, s)) - 1
  IN IF s = <<>> \/ s[1].kind # 3 \/ Cardinality(Of({4}, s)) # 1 \/ Cardinality(Of({5}, s)) > 1
        \/ then > end
     THEN {}
     ELSE {[condition |-> c, then |-> t, else |-> e] :
             c \in ConditionTree(SubSeq(s, 2, then - 1)),
             t \in Assignments(SubSeq(s, then + 1, end)),
             e \in IF end = Len(s) THEN {<<>>} ELSE Assignments(From(s, end + 2))}

=============================================================================
