------------------------------- MODULE MCRules -------------------------------
(***************************************************************************)
(* Documents and events for the rule language: every predicate and action  *)
(* shape in a set of one rule, and pairs of rules in both orders, with     *)
(* equal and different ids and priorities.                                 *)
(***************************************************************************)
EXTENDS RuleLanguage

Pred == [all |-> {}, any |-> {}, not |-> {}, path |-> <<>>, op |-> "", value |-> Null]
Leaf(form, key, op, value) ==
  [Pred EXCEPT !.path = <<form, key>>, !.op = op, !.value = value]

One == Num(<<"int", 1>>)
Big == Num(<<"int", 9>>)
Point == Num(<<"dec", 2>>)
Word(w) == Str(<<"word", w>>)

AboveOne == Leaf("data", "a", "gt", One)
IsX      == Leaf("data", "b", "eq", Word("x"))
NotX     == Leaf("data", "b", "neq", Word("x"))
HasB     == Leaf("data", "b", "exists", Null)

AllOf(kids) == [Pred EXCEPT !.all = {kids}]
AnyOf(kids) == [Pred EXCEPT !.any = {kids}]
NotOf(kid)  == [Pred EXCEPT !.not = {kid}]

Predicates ==
  {AboveOne, IsX, NotX, HasB,
   Leaf("data", "a", "lte", One), Leaf("data", "b", "not_exists", Null),
   Leaf("data", "a", "in", List(<<One, Big>>)), Leaf("data", "a", "not_in", List(<<Big>>)),
   Leaf("data", "a", "in", One), Leaf("data", "a", "eq", Str(<<"int", 1>>)),
   Leaf("data", "b", "lt", Word("x")), Leaf("data", "b", "eq", Null),
   Leaf("facts", "a", "not_exists", Null), Leaf("bare", "a", "gte", One),
   Leaf("data", "a", "like", One), Pred,
   AllOf(<<{AboveOne}, {IsX}>>), AnyOf(<<{NotX}, {AboveOne}>>), NotOf(IsX), NotOf(NotOf(HasB)),
   NotOf(NotOf(NotOf(HasB))), AllOf(<<>>), AllOf(<<{HasB}, {}>>), AnyOf(<<{}, {HasB}>>),
   [AllOf(<<{HasB}>>) EXCEPT !.path = <<"data", "a">>],
   [AllOf(<<{HasB}>>) EXCEPT !.any = {<<{IsX}>>}],
   AnyOf(<<{HasB}, {IsX}, {NotX}, {AboveOne}>>)}

Act == [emit |-> {}, emit_event |-> {}, command |-> {}]
Payload(size) == {[size |-> size, fields |-> <<[kind |-> "literal", expr |-> "v"]>>]}
Template == {[size |-> 2, fields |->
  <<[kind |-> "sole", expr |-> "new_id"], [kind |-> "sole", expr |-> "now"],
    [kind |-> "sole", expr |-> "a"], [kind |-> "embedded", expr |-> "b"]>>]}

Emit(topic, size) == [Act EXCEPT !.emit = {[topic |-> topic, data |-> Payload(size)]}]
Command(name) ==
  [Act EXCEPT !.command = {[destination |-> "billing", name |-> name, data |-> {}]}]
EmitEvent(type, policy, key, path, data) ==
  [Act EXCEPT !.emit_event = {[type |-> type, policy |-> policy, key |-> key,
                               path |-> path, data |-> data]}]

Actionable ==
  {Emit("t", 1), Emit(" ", 1), Emit("", 1), Emit("t", 9), Command("run"), Command(""),
   Act, [Emit("t", 1) EXCEPT !.command = Command("run").command],
   EmitEvent("child", "", <<"word", "k">>, <<>>, Template),
   EmitEvent("child", "", Empty, <<>>, Template),
   EmitEvent("child", "inherit", Empty, <<>>, Template),
   EmitEvent("child", "from_data", Empty, <<"data", "a">>, Template),
   EmitEvent("child", "from_data", Empty, <<"bare", "a">>, Template),
   EmitEvent("child", "other", <<"word", "k">>, <<>>, Template),
   EmitEvent("*", "inherit", Empty, <<>>, Template),
   EmitEvent("child", "inherit", Empty, <<>>, {})}

Rule(id, priority, when, then, otherwise) ==
  [id |-> id, priority |-> priority, when |-> when, then |-> then, otherwise |-> otherwise]

Doc(mode, rules) ==
  [parses |-> TRUE, rule_set |-> "orders", revision |-> 1, mode |-> mode,
   rules |-> rules]

Modes == {"first_match", "all_matches"}
Fallback == {<<>>, <<Command("run")>>}

Singles ==
  {Doc(m, <<Rule("r1", 1, p, <<a>>, o)>>) :
     m \in Modes, p \in Predicates, a \in Actionable, o \in Fallback}

PairRules ==
  {Rule(id, n, p, t, o) : id \in {"r1", "r2"}, n \in 1 .. 2, p \in {AboveOne, IsX, NotX},
     t \in {<<Emit("t", 1)>>, <<Emit("t", 1), Command("run")>>}, o \in Fallback}

Pairs == {Doc(m, <<r, s>>) : m \in Modes, r \in PairRules, s \in PairRules}

Odd ==
  LET good == Doc("first_match", <<Rule("r1", 1, HasB, <<Emit("t", 1)>>, <<>>)>>)
  IN  {[good EXCEPT !.parses = FALSE], [good EXCEPT !.rule_set = ""],
       [good EXCEPT !.revision = 0], [good EXCEPT !.mode = "any_match"],
       [good EXCEPT !.rules = <<>>], [good EXCEPT !.rules[1].id = ""],
       [good EXCEPT !.rules[1].id = "long"], [good EXCEPT !.rules[1].then = <<>>],
       [good EXCEPT !.rules = [i \in 1 .. 3 |-> Rule(<<"r", "s", "q">>[i], i, HasB,
                                                     <<Emit("t", 1)>>, <<>>)]]}

MCSource == Singles \cup Pairs \cup Odd

With(a, b) == [id |-> "e", key |-> <<"word", "parent">>,
               data |-> {[k \in {"a", "b"} |-> IF k = "a" THEN a ELSE b]}]

MCEvent ==
  {With(One, Word("x")), With(Num(<<"int", 2>>), Word("y")), With(One, Null), With(Big, Null),
   With(Null, Bool("true")), With(Str(<<"int", 2>>), Point), With(Str(Empty), List(<<One>>)),
   [id |-> "e", key |-> <<"word", "parent">>, data |-> {}]}
=============================================================================
