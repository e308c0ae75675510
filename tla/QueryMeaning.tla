---------------------------- MODULE QueryMeaning ----------------------------
(***************************************************************************)
(* LogQL and TraceQL as their authors mean them: queries by their parts,   *)
(* how each is written, and which records it selects.  The reference that  *)
(* the translators (QueryTranslation) are compared with; it covers exactly *)
(* the operators below.                                                    *)
(***************************************************************************)
EXTENDS QueryTranslation

CONSTANTS
  Label,     \* names of labels and of attributes or columns
  Needle,    \* what labels and lines are compared with; quoted
  Number,    \* what columns are compared with
  Stream     \* tables of traces

(* {label op value, ...} | op value | json ... *)
Matcher == [name : Label, op : {"=", "!="}, value : Needle]
Filter == [op : {"=", "!=", "~", "!~"}, value : Needle]
Parser == [op : {"json"}, value : {"json"}]
LogQuery(n) ==
  [matchers : BoundedSeq(Matcher, n), stages : BoundedSeq(Filter \cup Parser, n)]

(* from stream where name op value and ... *)
Condition == [name : Label, op : {"=", "!=", "<", ">"}, value : Number]
TraceQuery(n) ==
  [from : {"from", "FROM"}, where : {"where", "WHERE"}, stream : Stream,
   conditions : BoundedSeq(Condition, n)]

-----------------------------------------------------------------------------
(* How they are written. *)

Spell(op) == CASE op = "!=" -> <<"!", "=">>
               [] op = "!~" -> <<"!", "~">>
               [] OTHER -> <<op>>

Join(separator, parts) ==
  FlattenSeq([i \in DOMAIN parts |->
                (IF i = 1 THEN <<>> ELSE <<separator>>) \o parts[i]])

Compared(parts) ==
  [i \in DOMAIN parts |-> <<parts[i].name>> \o Spell(parts[i].op) \o <<parts[i].value>>]

StageText(stage) ==
  <<"|">> \o Spell(stage.op) \o (IF stage \in Parser THEN <<>> ELSE <<stage.value>>)

LogText(q) ==
  <<"{">> \o Join(",", Compared(q.matchers)) \o <<"}">>
    \o FlattenSeq([i \in DOMAIN q.stages |-> StageText(q.stages[i])])

TraceText(q) ==
  <<q.from, q.stream>>
    \o (IF q.conditions = <<>> THEN <<>>
        ELSE <<q.where>> \o Join("and", Compared(q.conditions)))

-----------------------------------------------------------------------------
(* Which records they select: those that satisfy every part.  A parser selects nothing. *)

Negated == "<>"

Selects(columns, part) ==
  Conjunct(columns \o <<part.name>>, IF part.op = "!=" THEN Negated ELSE part.op,
           <<part.value>>)

FilterOperator == [op \in {"=", "!=", "~", "!~"} |->
                     CASE op = "=" -> "ILIKE" [] op = "!=" -> "NOT ILIKE" [] OTHER -> op]

LogMeaning(q) ==
  UNION {Selects(<<"labels">>, m) : m \in ToSet(q.matchers)}
    \cup UNION {Conjunct(<<"message">>, FilterOperator[s.op], <<s.value>>) :
                  s \in ToSet(q.stages) \ Parser}

(* Equality is a matter of attributes, order one of columns. *)
TraceMeaning(q) ==
  Conjunct(<<"trace_stream">>, "=", <<q.stream>>)
    \cup UNION {Selects(IF c.op \in {"=", "!="} THEN <<"attributes">> ELSE <<>>, c) :
                  c \in ToSet(q.conditions)}
=============================================================================
