-------------------------- MODULE QueryTranslation --------------------------
(***************************************************************************)
(* What the gateway makes of a query text before OpenObserve sees it: the  *)
(* variables of a template are filled in (internal/config/config.go), and  *)
(* LogQL and TraceQL become the condition of a SQL statement over the      *)
(* tenant's table (internal/backend/client.go).                            *)
(*                                                                         *)
(* A text is the sequence of its words; "{", "|" and the characters of an  *)
(* operator, "=", "!", "~", "<" and ">", are words of their own, white     *)
(* space is none, and quotes are left out: a word in Literal stands for a  *)
(* quoted string.  A placeholder {{name}} is one word.                     *)
(***************************************************************************)
EXTENDS Integers, Sequences, FiniteSets, SequencesExt

CONSTANT Literal

-----------------------------------------------------------------------------
(* Texts. *)

Places(pattern, text) ==
  {i \in 1..(Len(text) - Len(pattern) + 1) :
     SubSeq(text, i, i + Len(pattern) - 1) = pattern}

Occurs(pattern, text) == Places(pattern, text) # {}

(* strings.SplitN(text, pattern, 2) *)
Cut(pattern, text) ==
  LET i == Min(Places(pattern, text))
  IN  [left |-> SubSeq(text, 1, i - 1), right |-> SubSeq(text, i + Len(pattern), Len(text))]

(* strings.Split, without the parts that are blank *)
Parts(separator, text) ==
  LET ends == {0, Len(text) + 1} \cup {i \in DOMAIN text : text[i] = separator}
      end(i) == Min({j \in ends : j > i})
  IN  {SubSeq(text, i + 1, end(i) - 1) : i \in ends \ {Len(text) + 1}} \ {<<>>}

-----------------------------------------------------------------------------
(* Templates. *)

(* strings.ReplaceAll *)
Replace(text, hole, value) ==
  FlattenSeq([i \in DOMAIN text |-> IF text[i] = hole THEN value ELSE <<text[i]>>])

(* The variables are a function from placeholders to texts; a map iteration visits
   them in any order, and a later one also fills the values of the earlier ones. *)
applyTemplateVariables(text, variables) ==
  {FoldLeft(LAMBDA out, hole : Replace(out, hole, variables[hole]), text, order) :
     order \in SetToSeqs(DOMAIN variables)}

-----------------------------------------------------------------------------
(* SQL: the conjuncts of WHERE.  A pattern (ILIKE) ignores the case of letters. *)

Conjunct(column, operator, value) ==
  {[column |-> column, operator |-> operator, value |-> value]}

Invalid == Conjunct(<<>>, "invalid", <<>>)    \* the text is refused

\* Mutation: "=" is tried first.
ComparisonEqualsFirst(columns, part) ==
  IF Occurs(<<"=">>, part)
  THEN Conjunct(<<columns>> \o Cut(<<"=">>, part).left, "=", Cut(<<"=">>, part).right)
  ELSE {}

(* The operators that the two dialects share, tried in this order; a part without
   any of them is dropped. *)
Comparison(columns, part) ==
  IF Occurs(<<"!", "=">>, part)
  THEN Conjunct(<<columns>> \o Cut(<<"!", "=">>, part).left, "<>",
                Cut(<<"!", "=">>, part).right)
  ELSE IF Occurs(<<"=">>, part)
  THEN Conjunct(<<columns>> \o Cut(<<"=">>, part).left, "=", Cut(<<"=">>, part).right)
  ELSE {}

(* Only TraceQL compares numbers; the column is not looked up in the attributes. *)
Ordering(part) ==
  IF Occurs(<<">">>, part)
  THEN Conjunct(Cut(<<">">>, part).left, ">", Cut(<<">">>, part).right)
  ELSE IF Occurs(<<"<">>, part)
  THEN Conjunct(Cut(<<"<">>, part).left, "<", Cut(<<"<">>, part).right)
  ELSE {}

(* logPipelineRegex: a pipe, one or two operator characters and a quoted string.  A
   filter that starts without a pipe is no match, and "==" and the like no case. *)
LineOperator ==
  [op \in {<<"=">>, <<"!", "=">>, <<"~">>, <<"!", "~">>} |->
     CASE op = <<"=">> -> "ILIKE" [] op = <<"!", "=">> -> "NOT ILIKE"
       [] op = <<"~">> -> "~"     [] OTHER -> "!~"]

LineFilter(text, i) ==
  UNION {Conjunct(<<"message">>, LineOperator[op], <<text[i + Len(op) + 1]>>) :
           op \in {o \in DOMAIN LineOperator :
                     /\ i + Len(o) < Len(text)
                     /\ SubSeq(text, i + 1, i + Len(o)) = o
                     /\ text[i + Len(o) + 1] \in Literal}}

Pipeline(text) == UNION {LineFilter(text, i) : i \in {j \in DOMAIN text : text[j] = "|"}}

translateLogQL(text) ==
  IF text[1] # "{" THEN Pipeline(text)
  ELSE IF ~Occurs(<<"}">>, text) THEN Invalid
  ELSE LET selector == Tail(Cut(<<"}">>, text).left)
           rest == Cut(<<"}">>, text).right
       IN  UNION {Comparison("labels", part) : part \in Parts(",", selector)}
             \cup Pipeline(rest)

(* Keywords in any case, but for the "and" between conditions. *)
WhereOf(text) == Places(<<"where">>, text) \cup Places(<<"WHERE">>, text)

Conditions(text) ==
  IF WhereOf(text) = {} THEN {}
  ELSE UNION {IF Occurs(<<"=">>, part) THEN Comparison("attributes", part)
              ELSE Ordering(part) :
                part \in Parts("and", SubSeq(text, Min(WhereOf(text)) + 1, Len(text)))}

translateTraceQL(text) ==
  IF text[1] \notin {"from", "FROM"} \/ Len(text) < 2 THEN Invalid
  ELSE Conjunct(<<"trace_stream">>, "=", <<text[2]>>) \cup Conditions(text)
=============================================================================
