---------------------------- MODULE RuleLanguage ----------------------------
(***************************************************************************)
(* The rule language: the compiler every revision passes before it is      *)
(* stored, the evaluator of the Go worker, and the evaluator of the Rust   *)
(* worker, which reads the revisions the Go compiler stored.               *)
(*                                                                         *)
(* A JSON text is a pair: <<"int", n>> is the integer n, <<"dec", n>> the  *)
(* same number written with a fraction (10.0), <<"word", w>> any other     *)
(* text.  A JSON value is its type and its text; Null also stands for a    *)
(* field that is not there, as both evaluators read it.  A pointer that    *)
(* may be nil is a set with at most one element.                           *)
(***************************************************************************)
EXTENDS Integers, FiniteSets, SequencesExt, TLC

CONSTANTS Source, Event,           \* rule documents submitted, events evaluated
          MaxRulesPerSet, MaxPredicates, MaxNestingDepth,
          MaxActionsPerSet, MaxPayloadBytes,
          LongID,                  \* rule ids beyond MaxRuleIDLen
          ExpFrom                  \* from here %v prints a float with an exponent

VARIABLES source, stage, revision, event, decision, rustDecision

langVars == <<source, stage, revision, event, decision, rustDecision>>

The(S) == CHOOSE x \in S : TRUE

Num(s)   == [t |-> "num", s |-> s]
Str(s)   == [t |-> "str", s |-> s]
Bool(w)  == [t |-> "bool", s |-> <<"word", w>>]
List(vs) == [t |-> "list", s |-> <<"list", vs>>]
Null     == [t |-> "null", s |-> <<"word", "<nil>">>]
Empty    == <<"word", "">>

Numeric(v) == v.t \in {"num", "str"} /\ v.s[1] \in {"int", "dec"}

(***************************************************************************)
(* The compiler.                                                           *)
(***************************************************************************)
ValidOp(op) ==
  op \in {"eq", "neq", "gt", "gte", "lt", "lte", "in", "not_in", "exists", "not_exists"}

hasComposite(p) == p.all # {} \/ p.any # {} \/ p.not # {}

validateCompositePredicateShape(p) ==
  /\ \A kids \in p.all \cup p.any : kids # <<>>
  /\ Cardinality(p.all) + Cardinality(p.any) + Cardinality(p.not) = 1

RECURSIVE validatePredicate(_, _)
validatePredicate(p, depth) ==
  LET hasLeaf == p.path # <<>>
      validateCompositeChildren ==
        /\ \A kids \in p.all \cup p.any : \A i \in DOMAIN kids :
             kids[i] # {} /\ validatePredicate(The(kids[i]), depth + 1)
        /\ \A kid \in p.not : validatePredicate(kid, depth + 1)
  IN  /\ depth <= MaxNestingDepth
      /\ hasLeaf # hasComposite(p)
      /\ IF hasLeaf THEN ValidOp(p.op)
         ELSE validateCompositePredicateShape(p) /\ validateCompositeChildren

RECURSIVE countPredicates(_)
countPredicates(p) ==
  LET child(kid)  == IF kid = {} THEN 0 ELSE countPredicates(The(kid))
      among(opt)  == IF opt = {} THEN 0
                     ELSE MapThenSumSet(LAMBDA i : child(The(opt)[i]), DOMAIN The(opt))
  IN  among(p.all) + among(p.any) + child(p.not) + (IF p.path # <<>> THEN 1 ELSE 0)

payloadSize(data) == IF data = {} THEN 4 ELSE The(data).size

validateEmitAction(a) == a.topic # "" /\ payloadSize(a.data) <= MaxPayloadBytes

validateCommandAction(a) ==
  a.destination # "" /\ a.name # "" /\ payloadSize(a.data) <= MaxPayloadBytes

Policy(a) == IF a.policy = "" THEN "explicit" ELSE a.policy

validatePartitionKeyPolicy(a, policy) ==
  CASE policy = "explicit"  -> a.key # Empty
    [] policy = "inherit"   -> TRUE
    [] policy = "from_data" -> a.path # <<>> /\ a.path[1] # "bare"
    [] OTHER                -> FALSE

validateEmitEventAction(a) ==
  /\ validatePartitionKeyPolicy(a, Policy(a))
  /\ a.type # "" /\ a.type # "*" /\ a.data # {}
  /\ payloadSize(a.data) <= MaxPayloadBytes

validateActionShape(a) ==
  Cardinality(a.emit) + Cardinality(a.emit_event) + Cardinality(a.command) = 1

validateAction(a) ==
  /\ validateActionShape(a)
  /\ \A x \in a.emit : validateEmitAction(x)
  /\ \A x \in a.emit_event : validateEmitEventAction(x)
  /\ \A x \in a.command : validateCommandAction(x)

validateRuleActions(rule) ==
  /\ validatePredicate(rule.when, 0)
  /\ countPredicates(rule.when) <= MaxPredicates
  /\ Len(rule.then) \in 1 .. MaxActionsPerSet
  /\ Len(rule.otherwise) <= MaxActionsPerSet
  /\ \A i \in DOMAIN rule.then : validateAction(rule.then[i])
  /\ \A i \in DOMAIN rule.otherwise : validateAction(rule.otherwise[i])

validateRuleIdentity(rules) ==
  /\ \A i \in DOMAIN rules : rules[i].id # "" /\ rules[i].id \notin LongID
  /\ \A i, j \in DOMAIN rules : i # j => rules[i].id # rules[j].id
  /\ \A i, j \in DOMAIN rules : i # j => rules[i].priority # rules[j].priority

validateRuleSetMetadata(rs) ==
  rs.rule_set # "" /\ rs.revision > 0 /\ rs.mode \in {"first_match", "all_matches"}

validateRuleSetBudgets(rules) ==
  /\ Len(rules) \in 1 .. MaxRulesPerSet
  /\ MapThenSumSet(LAMBDA i : countPredicates(rules[i].when), DOMAIN rules) <= MaxPredicates
  /\ MapThenSumSet(LAMBDA i : Len(rules[i].then) + Len(rules[i].otherwise), DOMAIN rules)
       <= MaxActionsPerSet

ByPriority(a, b) == a.priority > b.priority

\* A mistake: otherwise is accepted on any rule of a first_match set.
AnyOtherwise(rs, compiled) == TRUE

OtherwiseIsLast(rs, compiled) ==
  rs.mode = "first_match" => \A i \in 1 .. Len(compiled) - 1 : compiled[i].otherwise = <<>>

\* The revision a document compiles to, or none.
Compile(rs) ==
  IF /\ rs.parses
     /\ validateRuleSetMetadata(rs)
     /\ validateRuleSetBudgets(rs.rules)
     /\ validateRuleIdentity(rs.rules)
     /\ \A i \in DOMAIN rs.rules : validateRuleActions(rs.rules[i])
     /\ OtherwiseIsLast(rs, SortSeq(rs.rules, ByPriority))
  THEN {[rule_set |-> rs.rule_set, revision |-> rs.revision, mode |-> rs.mode,
         compiled |-> SortSeq(rs.rules, ByPriority)]}
  ELSE {}

(***************************************************************************)
(* The Go evaluator.  A predicate is "true", "false", "error" (the value   *)
(* cannot be compared or read) or "invalid" (the predicate is malformed).  *)
(***************************************************************************)
Truth(b) == IF b THEN "true" ELSE "false"

\* What fmt prints for a decoded value; JSON numbers decode to float64.
Sprint(v) == IF v.t # "num" THEN v.s
             ELSE IF v.s[2] >= ExpFrom THEN <<"exp", v.s[2]>> ELSE <<"int", v.s[2]>>

normalizeNumber(v) == IF v.t = "num" THEN <<"int", v.s[2]>> ELSE v.s

compareEq(a, b) == normalizeNumber(a) = normalizeNumber(b)

compareIn(v, list) == list.t = "list" /\ \E i \in DOMAIN list.s[2] : compareEq(v, list.s[2][i])

Ordered(op, a, b) ==
  CASE op = "gt" -> a > b [] op = "gte" -> a >= b [] op = "lt" -> a < b [] op = "lte" -> a <= b

compareNumericLeaf(op, a, b) ==
  IF Numeric(a) /\ Numeric(b) THEN Truth(Ordered(op, a.s[2], b.s[2])) ELSE "error"

\* Workers evaluate without facts; a value that cannot be resolved is {}.
resolvePath(path, data) ==
  IF path = <<>> \/ path[1] = "bare" THEN {}
  ELSE IF path[1] = "facts" THEN {Null}
  ELSE {d[path[2]] : d \in data}

evaluateLeafValue(op, actual, expected) ==
  CASE op = "eq"     -> Truth(compareEq(actual, expected))
    [] op = "neq"    -> Truth(~compareEq(actual, expected))
    [] op = "in"     -> Truth(compareIn(actual, expected))
    [] op = "not_in" -> Truth(~compareIn(actual, expected))
    [] op \in {"gt", "gte", "lt", "lte"} -> compareNumericLeaf(op, actual, expected)
    [] OTHER         -> "invalid"

evalLeaf(p, data) ==
  LET value == resolvePath(p.path, data)
  IN  CASE p.path = <<>>       -> "invalid"
        [] value = {}          -> "error"
        [] p.op = "exists"     -> Truth(value # {Null})
        [] p.op = "not_exists" -> Truth(value = {Null})
        [] value = {Null}      -> "false"
        [] OTHER               -> evaluateLeafValue(p.op, The(value), p.value)

\* The first of the results, in order, that ends the loop over the children.
FirstOf(results, ends, otherwise) ==
  LET stops == {i \in DOMAIN results : results[i] \in ends}
  IN  IF stops = {} THEN otherwise ELSE results[Min(stops)]

Negate(r) == CASE r = "true" -> "false" [] r = "false" -> "true" [] OTHER -> r

RECURSIVE evalPredicate(_, _)
evalPredicate(p, data) ==
  LET evalChild(kid, ifNil) == IF kid = {} THEN ifNil ELSE evalPredicate(The(kid), data)
      evalAll(kids) == FirstOf([i \in DOMAIN kids |-> evalChild(kids[i], "invalid")],
                               {"false", "error", "invalid"}, "true")
      evalAny(kids) == FirstOf([i \in DOMAIN kids |-> evalChild(kids[i], "false")],
                               {"true", "error", "invalid"}, "false")
  IN  CASE p.all # {} -> evalAll(The(p.all))
        [] p.all = {} /\ p.any # {} -> evalAny(The(p.any))
        [] p.all = {} /\ p.any = {} /\ p.not # {} -> Negate(evalPredicate(The(p.not), data))
        [] OTHER -> evalLeaf(p, data)

\* A placeholder: the child id, the time, or a field of the event; {} if missing.
lookup(expr, data, childID) ==
  CASE expr = "new_id" -> {Str(<<"child", childID>>)}
    [] expr = "now"    -> {Str(<<"word", "now">>)}
    [] OTHER           -> resolvePath(<<"data", expr>>, data) \ {Null}

\* A string that is one placeholder keeps the value's type; an embedded one is text.
expand(tpl, data, childID) ==
  LET found == lookup(tpl.expr, data, childID)
  IN  CASE tpl.kind = "literal"  -> Str(<<"word", tpl.expr>>)
        [] tpl.kind = "sole"     -> IF found = {} THEN Str(Empty) ELSE The(found)
        [] tpl.kind = "embedded" -> Str(<<"mix", IF found = {} THEN Empty
                                                 ELSE normalizeNumber(The(found))>>)

interpolateTemplates(data, parent, childID) ==
  [i \in DOMAIN data |-> expand(data[i], parent, childID)]

\* The child's partition key; {} when it cannot be resolved or is empty.
resolveEmitEventPartitionKey(a, ev) ==
  (CASE Policy(a) = "explicit"  -> {a.key}
     [] Policy(a) = "inherit"   -> {ev.key}
     [] Policy(a) = "from_data" -> {Sprint(v) : v \in resolvePath(a.path, ev.data) \ {Null}})
  \ {Empty}

ComputeEffectID(ev, rev, ruleID, index) == <<ev.id, rev.rule_set, rev.revision, ruleID, index>>

ComputeChildEventID(ev, ruleID, index) == <<"child", ev.id, ruleID, index>>

Effect(id, type, dest, name, child, key, data) ==
  [id |-> id, effect_type |-> type, destination |-> dest, name |-> name,
   child |-> child, key |-> key, data |-> data]

buildEmitEventEffect(id, childID, a, ev) ==
  {Effect(id, "emit_event", <<"events", a.type>>, a.type, childID, key,
          interpolateTemplates(The(a.data).fields, ev.data, childID))
     : key \in resolveEmitEventPartitionKey(a, ev)}

Fields(data) == IF data = {} THEN <<>> ELSE The(data).fields

\* The effect of one action, or {} when building it fails.
buildEffect(rev, ev, ruleID, index, action) ==
  LET id == ComputeEffectID(ev, rev, ruleID, index)
  IN  CASE action.emit # {} ->
             {Effect(id, "emit", a.topic, a.topic, <<>>, Empty, Fields(a.data)) : a \in action.emit}
        [] action.emit = {} /\ action.emit_event # {} ->
             buildEmitEventEffect(id, ComputeChildEventID(ev, ruleID, index),
                                  The(action.emit_event), ev)
        [] action.emit = {} /\ action.emit_event = {} /\ action.command # {} ->
             {Effect(id, "command", a.destination, a.name, <<>>, Empty, Fields(a.data))
                : a \in action.command}
        [] OTHER -> {Effect(id, "", "", "", <<>>, Empty, <<>>)}

Decision(err, matched, effects) == [err |-> err, matched |-> matched, effects |-> effects]

\* The decision of one rule: its id if it matched, and the effects of its branch.
processRuleResult(rule, ok, rev, ev) ==
  LET actions == IF ok = "true" THEN rule.then ELSE rule.otherwise
      built   == [i \in DOMAIN actions |-> buildEffect(rev, ev, rule.id, i, actions[i])]
  IN  IF ok \in {"error", "invalid"} THEN Decision(ok, <<>>, <<>>)
      ELSE IF \E i \in DOMAIN built : built[i] = {} THEN Decision("error", <<>>, <<>>)
      ELSE Decision("none", IF ok = "true" THEN <<rule.id>> ELSE <<>>,
                    [i \in DOMAIN built |-> The(built[i])])

Append2(d, rest) == IF rest.err # "none" THEN rest
                    ELSE Decision("none", d.matched \o rest.matched, d.effects \o rest.effects)

Undecided == Decision("none", <<>>, <<>>)

RECURSIVE evaluateRules(_, _, _)
evaluateRules(rules, rev, ev) ==
  IF rules = <<>> THEN Undecided
  ELSE LET rule == Head(rules)
           ok   == evalPredicate(rule.when, ev.data)
           mine == processRuleResult(rule, ok, rev, ev)
       IN  IF mine.err # "none" \/ (rev.mode = "first_match" /\ ok = "true") THEN mine
           ELSE Append2(mine, evaluateRules(Tail(rules), rev, ev))

(***************************************************************************)
(* The Rust evaluator.                                                     *)
(***************************************************************************)
resolve_path(path, data) ==
  IF path = <<>> \/ path[1] = "facts" THEN {} ELSE {d[path[2]] : d \in data} \ {Null}

compare_eq(actual, expected) ==
  /\ expected # Null
  /\ IF Numeric(actual) /\ Numeric(expected) THEN actual.s[2] = expected.s[2]
     ELSE actual = expected

rustIn(actual, expected) ==
  expected.t = "list" /\ \E i \in DOMAIN expected.s[2] : compare_eq(actual, expected.s[2][i])

evaluate_comparison(op, actual, expected) ==
  CASE op = "eq"     -> Truth(compare_eq(actual, expected))
    [] op = "neq"    -> Truth(~compare_eq(actual, expected))
    [] op = "in"     -> Truth(rustIn(actual, expected))
    [] op = "not_in" -> Truth(~rustIn(actual, expected))
    [] op \in {"gt", "gte", "lt", "lte"} ->
         Truth(Numeric(actual) /\ Numeric(expected) /\ Ordered(op, actual.s[2], expected.s[2]))
    [] OTHER         -> "invalid"

\* A mistake: a missing field differs from every value.
LeafMissingDiffers(p, data) ==
  LET found == resolve_path(p.path, data)
  IN  CASE p.path = <<>>       -> "invalid"
        [] p.op = "exists"     -> Truth(found # {})
        [] p.op = "not_exists" -> Truth(found = {})
        [] found = {}          -> Truth(p.op \in {"neq", "not_in"})
        [] OTHER               -> evaluate_comparison(p.op, The(found), p.value)

evaluate_leaf_predicate(p, data) ==
  LET found == resolve_path(p.path, data)
  IN  CASE p.path = <<>>       -> "invalid"
        [] p.op = "exists"     -> Truth(found # {})
        [] p.op = "not_exists" -> Truth(found = {})
        [] found = {}          -> "false"
        [] OTHER               -> evaluate_comparison(p.op, The(found), p.value)

RECURSIVE eval_predicate(_, _)
eval_predicate(p, data) ==
  LET results(kids) == [i \in DOMAIN kids |-> IF kids[i] = {} THEN "invalid"
                                              ELSE eval_predicate(The(kids[i]), data)]
  IN  CASE p.all # {} -> FirstOf(results(The(p.all)), {"false", "invalid"}, "true")
        [] p.all = {} /\ p.any # {} -> FirstOf(results(The(p.any)), {"true", "invalid"}, "false")
        [] p.all = {} /\ p.any = {} /\ p.not # {} -> Negate(eval_predicate(The(p.not), data))
        [] OTHER -> evaluate_leaf_predicate(p, data)

template_lookup(expr, data, childID) ==
  CASE expr = "new_id" -> {Str(<<"child", childID>>)}
    [] expr = "now"    -> {Str(<<"word", "now">>)}
    [] OTHER           -> resolve_path(<<"data", expr>>, data)

expand_template(tpl, data, childID) ==
  LET found == template_lookup(tpl.expr, data, childID)
  IN  CASE tpl.kind = "literal"  -> Str(<<"word", tpl.expr>>)
        [] tpl.kind = "sole"     -> IF found = {} THEN Str(Empty) ELSE The(found)
        [] tpl.kind = "embedded" -> Str(<<"mix", IF found = {} THEN Empty ELSE The(found).s>>)

resolve_child_partition_key(a, ev) ==
  (CASE Policy(a) = "explicit"  -> {a.key}
     [] Policy(a) = "inherit"   -> {ev.key}
     [] Policy(a) = "from_data" -> {v.s : v \in resolve_path(a.path, ev.data)})
  \ {Empty}

Blank(name) == name \in {"", " "}

build_child_event_effect(id, childID, a, ev) ==
  {Effect(id, "emit_event", <<"events", a.type>>, a.type, childID, key,
          LET fields == The(a.data).fields
          IN  [i \in DOMAIN fields |-> expand_template(fields[i], ev.data, childID)])
     : key \in resolve_child_partition_key(a, ev)}

build_effect(rev, ev, ruleID, index, action) ==
  LET id == ComputeEffectID(ev, rev, ruleID, index)
  IN  {Effect(id, "emit", a.topic, a.topic, <<>>, Empty, Fields(a.data))
         : a \in {x \in action.emit : ~Blank(x.topic)}}
      \cup
      {Effect(id, "command", a.destination, a.name, <<>>, Empty, Fields(a.data))
         : a \in {x \in action.command : ~Blank(x.destination) /\ ~Blank(x.name)}}
      \cup
      UNION {build_child_event_effect(id, ComputeChildEventID(ev, ruleID, index), a, ev)
               : a \in action.emit_event}

RECURSIVE rustEvaluate(_, _, _)
rustEvaluate(rules, rev, ev) ==
  IF rules = <<>> THEN Undecided
  ELSE LET rule    == Head(rules)
           ok      == eval_predicate(rule.when, ev.data)
           actions == IF ok = "true" THEN rule.then ELSE rule.otherwise
           built   == [i \in DOMAIN actions |-> build_effect(rev, ev, rule.id, i, actions[i])]
           mine    == Decision("none", IF ok = "true" THEN <<rule.id>> ELSE <<>>,
                               [i \in DOMAIN built |-> The(built[i])])
       IN  IF ok = "invalid" THEN Decision("invalid", <<>>, <<>>)
           ELSE IF \E i \in DOMAIN built : built[i] = {} THEN Decision("error", <<>>, <<>>)
           ELSE IF rev.mode = "first_match" /\ ok = "true" THEN mine
           ELSE Append2(mine, rustEvaluate(Tail(rules), rev, ev))

(***************************************************************************)
(* A document is compiled; the stored revision decides an event, first in  *)
(* a Go worker (or in the check endpoint), then in a Rust worker.          *)
(***************************************************************************)
LangInit ==
  /\ source \in Source
  /\ stage = "source" /\ revision = {} /\ event = {}
  /\ decision = Undecided /\ rustDecision = Undecided

CompileSource ==
  /\ stage = "source"
  /\ revision' = Compile(source)
  /\ stage' = IF revision' = {} THEN "rejected" ELSE "compiled"
  /\ UNCHANGED <<source, event, decision, rustDecision>>

Evaluate(ev) ==
  /\ stage = "compiled"
  /\ event' = {ev}
  /\ decision' = evaluateRules(The(revision).compiled, The(revision), ev)
  /\ stage' = "evaluated"
  /\ UNCHANGED <<source, revision, rustDecision>>

RustEvaluate ==
  /\ stage = "evaluated"
  /\ rustDecision' = rustEvaluate(The(revision).compiled, The(revision), The(event))
  /\ stage' = "both"
  /\ UNCHANGED <<source, revision, event, decision>>

LangNext == CompileSource \/ (\E ev \in Event : Evaluate(ev)) \/ RustEvaluate

-----------------------------------------------------------------------------
Evaluated == stage \in {"evaluated", "both"}

\* No document that compiles reaches, in either evaluator, the branches for a
\* malformed predicate or action (a null child, an unknown operator, an action
\* without exactly one kind): an accepted revision fails only on event data.
CompiledIsWellFormed ==
  /\ decision.err # "invalid" /\ rustDecision.err # "invalid"
  /\ \A i \in DOMAIN decision.effects : decision.effects[i].effect_type # ""

\* The rules of a document, in descending priority, that satisfy a test.
RulesWhere(Test(_)) == LET good == SelectSeq(source.rules, Test) IN SortSeq(good, ByPriority)

Actions(rule, branch) == {<<rule.id, i>> : i \in DOMAIN branch}

\* A decision follows from the document's own rule list, however it was ordered:
\* first_match runs the matching rule of the highest priority, or the otherwise of
\* the lowest rule when none matches; all_matches runs every matching rule by
\* priority, and the otherwise of every other.  The documentation gives the
\* first_match half and, for all_matches, the matched effects alone: docs/rules.md
\* calls otherwise "first_match only, last rule", which Compile enforces in
\* first_match alone.  For a document that follows it the two readings agree.
DecisionMeetsReference ==
  Evaluated /\ decision.err = "none" =>
    LET holds(r) == evalPredicate(r.when, The(event).data) = "true"
        hits     == RulesWhere(holds)
        lowest   == RulesWhere(LAMBDA r : TRUE)[Len(source.rules)]
        ran      == {<<decision.effects[i].id[4], decision.effects[i].id[5]>>
                       : i \in DOMAIN decision.effects}
    IN  IF source.mode = "first_match"
        THEN /\ decision.matched = IF hits = <<>> THEN <<>> ELSE <<hits[1].id>>
             /\ ran = IF hits = <<>> THEN Actions(lowest, lowest.otherwise)
                      ELSE Actions(hits[1], hits[1].then)
        ELSE /\ decision.matched = [i \in DOMAIN hits |-> hits[i].id]
             /\ ran = UNION {Actions(r, IF holds(r) THEN r.then ELSE r.otherwise)
                               : r \in ToSet(source.rules)}

\* The outbox keeps one row per effect id and ignores a second insert, so the
\* effects of one decision must carry different ids or one would be lost.
EffectIdsDistinct ==
  \A i, j \in DOMAIN decision.effects :
    i # j => decision.effects[i].id # decision.effects[j].id

\* An accepted document never reaches the evaluators' branches for malformed rules,
\* Evaluate's walk over the sorted revision decides what the unsorted document asks
\* for in its mode, and the decision's effects have distinct ids (ComputeEffectID),
\* so that none is dropped from the outbox as a duplicate.
DecisionsCorrect == CompiledIsWellFormed /\ DecisionMeetsReference /\ EffectIdsDistinct

\* Values both runtimes render alike, and rules that compare like with like.
Canonical(v) == v.t \in {"num", "str", "bool", "null"} /\ v.s[1] # "dec"
                /\ (v.t = "num" => v.s[2] < ExpFrom)

RECURSIVE WellTyped(_, _)
WellTyped(p, data) ==
  LET like(v) == Canonical(v) /\ (data[p.path[2]] = Null \/ v.t = data[p.path[2]].t)
  IN  /\ \A kids \in p.all \cup p.any : \A i \in DOMAIN kids : WellTyped(The(kids[i]), data)
      /\ \A kid \in p.not : WellTyped(kid, data)
      /\ p.path # <<>> =>
           /\ p.path[1] # "bare"
           /\ p.op \in {"eq", "neq"} => like(p.value)
           /\ p.op \in {"gt", "gte", "lt", "lte"} => like(p.value) /\ p.value.t = "num"
           /\ p.op \in {"in", "not_in"} =>
                p.value.t = "list" /\ \A i \in DOMAIN p.value.s[2] : like(p.value.s[2][i])

NamesWritten(action) ==
  /\ \A a \in action.emit : ~Blank(a.topic)
  /\ \A a \in action.command : ~Blank(a.destination) /\ ~Blank(a.name)

\* On rules that compare like with like, and event data both runtimes render
\* alike, the Go and the Rust evaluator reach the same decision: the same
\* matched rules, effects, child keys and payloads, or both an error.
RuntimesAgree ==
  LET data == The(The(event).data)
  IN  /\ stage = "both" /\ The(event).data # {}
      /\ \A k \in DOMAIN data : Canonical(data[k])
      /\ \A i \in DOMAIN source.rules :
           /\ WellTyped(source.rules[i].when, data)
           /\ \A a \in ToSet(source.rules[i].then \o source.rules[i].otherwise) : NamesWritten(a)
      => decision = rustDecision
=============================================================================
