---------------------------- MODULE JsonPathProofs ----------------------------
(* A parser that is asked for paths is the parser of JsonParser: lookups and
   comparisons leave text, tokens and index alone, so what is proved of parsing,
   indexing and editing holds while paths are looked up.                       *)
EXTENDS JsonPath, JsonParserProofs

LEMMA PathStep == [PathNext]_pathVars => [Next]_vars
  <1> SUFFICES ASSUME [PathNext]_pathVars PROVE [Next]_vars OBVIOUS
  <1>1. CASE ParserStep
    BY <1>1 DEF ParserStep
  <1>2. CASE Lookup
    BY <1>2 DEF Lookup
  <1>3. CASE CompareText
    BY <1>3 DEF CompareText
  <1>4. CASE ComparePath
    BY <1>4 DEF ComparePath
  <1>5. CASE ClosePath
    BY <1>5 DEF ClosePath
  <1>6. CASE UNCHANGED pathVars
    BY <1>6 DEF pathVars, vars
  <1> QED BY <1>1, <1>2, <1>3, <1>4, <1>5, <1>6 DEF PathNext

\* jsmn with its paths implements JsonParser, whatever is asked and compared.
THEOREM PathsLeaveParser == PathSpec => Spec
  <1>1. PathInit => Init
    BY DEF PathInit
  <1> QED BY <1>1, PathStep, PTL DEF PathSpec, Spec

\* With lookups between them, any parses and edits keep tokens, index and search
\* within the text and tokens at hand.
THEOREM PathTypeCorrect == PathSpec => []TypeOK
  BY PathsLeaveParser, TypeCorrect, PTL

\* And the tokens a path leads to are those of a forest that counts its parts.
THEOREM PathLinksSound == PathSpec => []LinksAreSound
  BY PathsLeaveParser, LinksSound, PTL

\* Lookups and comparisons between them change no search: find_key_in_object still
\* finds the first key of the object's own that has the name.
THEOREM PathKeysAreFound == PathSpec => []SearchIsRight
  BY PathsLeaveParser, KeysAreFound, PTL

\* Nor do they change what was parsed: the tokens of a JSON text are its values and
\* keys.
THEOREM PathTextsAreParsed == PathSpec => []JsonIsParsed
  BY PathsLeaveParser, TextsAreParsed, PTL

\* And between edits they leave a JSON text one.
THEOREM PathTextsStayJson == PathSpec => []EditsStayJson
  BY PathsLeaveParser, TextsStayJson, PTL

\* With lookups between them, edits are still kept or refused as a whole.
THEOREM PathEditsEndWhole == PathSpec => EditsAreAllOrNothing
  BY PathsLeaveParser, EditsEndWhole, PTL

---------------------------------------------------------------------------
(* What a lookup found                                                         *)

\* While a path is open its answer is a token of the text at hand.
AnswersExist == query.open => query.answer \in {0} \cup DOMAIN tokens

\* It stays one because nothing is parsed, edited or indexed before it is closed,
\* and no entry is a string that was one of an older index.
AnswerInv ==
  /\ AnswersExist
  /\ query.open => pc = "idle" /\ ~dirty
  /\ rendered # {} => ~dirty

LEMMA LookupStep == ASSUME TypeOK, AnswerInv, Lookup PROVE AnswerInv'
  <1>1. PICK a \in Asks[caller] :
          query' = [open |-> TRUE, ask |-> a, path |-> Compiled(a), answer |-> Found(Compiled(a)),
                    with |-> "none", says |-> "nothing"]
    BY DEF Lookup
  <1>2. /\ pc = "idle" /\ ~dirty /\ Quiet
        /\ pc' = pc /\ dirty' = dirty /\ tokens' = tokens /\ rendered' = rendered
    BY DEF Lookup, IsReady, Quiet, vars
  <1>3. Found(Compiled(a)) \in {0} \cup DOMAIN tokens
    BY <1>2 DEF Found, TypeOK
  <1> QED BY <1>1, <1>2, <1>3 DEF AnswerInv, AnswersExist

LEMMA AnswerStep == TypeOK /\ AnswerInv /\ [PathNext]_pathVars => AnswerInv'
  <1> SUFFICES ASSUME TypeOK, AnswerInv, [PathNext]_pathVars PROVE AnswerInv'
    OBVIOUS
  <1> USE DEF AnswerInv, AnswersExist
  <1>1. CASE ParserStep
    BY <1>1 DEF ParserStep, NoQuery
  <1>2. CASE Lookup
    BY <1>2, LookupStep
  <1>3. CASE CompareText
    <2>1. query'.answer = query.answer
      BY <1>3 DEF CompareText, Answer
    <2> QED BY <1>3, <2>1 DEF CompareText, MayCompare, vars
  <1>4. CASE ComparePath
    BY <1>4 DEF ComparePath, MayCompare, Answer, vars
  <1>5. CASE ClosePath
    BY <1>5 DEF ClosePath, NoQuery, vars
  <1>6. CASE UNCHANGED pathVars
    BY <1>6 DEF pathVars
  <1> QED BY <1>1, <1>2, <1>3, <1>4, <1>5, <1>6 DEF PathNext

\* The pointer that get_path returns is good until jqpath_close_path, whatever
\* is compared with it.
THEOREM AnswersStayGood == PathSpec => []AnswersExist
  <1>1. PathInit => AnswerInv
    BY DEF PathInit, AnswerInv, AnswersExist, NoQuery
  <1>2. AnswerInv => AnswersExist
    BY DEF AnswerInv
  <1> QED BY <1>1, <1>2, AnswerStep, PathTypeCorrect, PTL DEF PathSpec
=============================================================================
