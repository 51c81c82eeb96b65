----------------------- MODULE ConfigValidationProofs -----------------------
(***************************************************************************)
(* The two gates give one answer for any config, before and after JSON,    *)
(* and what panel-api renders passes both, after any number of readings    *)
(* and rollbacks.                                                          *)
(*                                                                         *)
(* JSON changes no verdict because a check takes an integer if and only if *)
(* it takes the float (TakesFloats, TakesIntegers), and a rollback only    *)
(* writes values the checks on their fields take (TakesRollback).          *)
(***************************************************************************)
EXTENDS ConfigValidation, TLAPS

-----------------------------------------------------------------------------
(* Gates *)

\* A check passes, or is one of a client that is not there.
Passes(check, fields) ==
  \/ fields[check.field] \in check.accepts
  \/ check.field \in ClientFields /\ fields["clients"] = "emptyList"

PassesAll(checks, fields) ==
  /\ Len(checks) \in Nat
  /\ \A i \in 1..Len(checks) :
       checks[i].field \in DOMAIN fields /\ Passes(checks[i], fields)

\* Where no check gives a reason, there is no first one.
LEMMA NoFirst ==
  ASSUME NEW reasons, \A i \in 1..Len(reasons) : reasons[i] = "none"
  PROVE  FirstReason(reasons) = "none"
BY DEF FirstReason, SelectInSeq

\* What each check answers.
Answers(checks, fields) ==
  [i \in 1..Len(checks) |->
     IF /\ fields[checks[i].field] \notin checks[i].accepts
        /\ ~(checks[i].field \in ClientFields /\ fields["clients"] = "emptyList")
       THEN checks[i].reason ELSE "none"]

\* A gate's answer depends on the answers of its checks only.
LEMMA FirstFailureIs ==
  \A checks, fields : FirstFailure(checks, fields) = FirstReason(Answers(checks, fields))
BY Zenon DEF FirstFailure, Answers

\* A list of checks without a failure gives no reason.
LEMMA NoFailure ==
  ASSUME NEW checks, NEW fields, PassesAll(checks, fields)
  PROVE  FirstFailure(checks, fields) = "none"
<1> DEFINE answers == Answers(checks, fields)
<1>1. Len(answers) = Len(checks) /\ \A i \in 1..Len(checks) : answers[i] = "none"
  BY DEF PassesAll, Passes, Answers
<1> HIDE DEF answers
<1>2. FirstReason(answers) = "none"
  BY <1>1, NoFirst
<1> QED BY <1>2, FirstFailureIs DEF answers

\* A list whose items all pass gives none either.
LEMMA NoItemFailure ==
  ASSUME NEW checks, NEW items, Len(items) \in Nat,
         \A i \in 1..Len(items) : PassesAll(checks, items[i])
  PROVE  FirstItemFailure(checks, items) = "none"
<1> DEFINE answers == [i \in 1..Len(items) |-> FirstFailure(checks, items[i])]
<1>1. Len(answers) = Len(items) /\ \A i \in 1..Len(items) : answers[i] = "none"
  BY NoFailure
<1> HIDE DEF answers
<1>2. FirstReason(answers) = "none"
  BY <1>1, NoFirst
<1> QED BY <1>2 DEF FirstItemFailure, answers

\* The two tables of fields are the same, line by line.
LEMMA SameChecks == PanelConfigChecks = AgentConfigChecks
BY DEF PanelConfigChecks, AgentConfigChecks

\* The outbounds are walked alike.
LEMMA SameOutbounds ==
  \A outbounds : PanelOutboundsReason(outbounds) = AgentOutboundsReason(outbounds)
<1>1. PanelOutboundChecks = AgentOutboundChecks
  BY DEF PanelOutboundChecks, AgentOutboundChecks
<1> QED BY <1>1, Zenon DEF PanelOutboundsReason, AgentOutboundsReason

\* So are the rules.
LEMMA SameRouting ==
  \A rules, inboundTag, outboundTags :
    PanelRoutingReason(rules, inboundTag, outboundTags)
      = AgentRoutingReason(rules, inboundTag, outboundTags)
<1>1. \A inboundTag, outboundTags :
        PanelRuleChecks(inboundTag, outboundTags) = AgentRuleChecks(inboundTag, outboundTags)
  BY DEF PanelRuleChecks, AgentRuleChecks
<1> QED BY <1>1, Zenon DEF PanelRoutingReason, AgentRoutingReason

\* Given the same document, so not yet JSON's, the two copies answer alike.
LEMMA SameGates == \A doc : PanelConfigReason(doc) = AgentConfigReason(doc)
BY SameChecks, SameOutbounds, SameRouting, Zenon DEF PanelConfigReason, AgentConfigReason

\* The lists of what is rendered: one outbound, and one rule that sends the one
\* inbound to it.
GoodRule == [item |-> "object", type |-> "expected", outboundTag |-> "expected",
             inboundTag |-> {"expected"}]

GoodLists(doc) == doc.outbounds = <<DirectFreedom>> /\ doc.rules = <<GoodRule>>

\* Its rule names its inbound and an outbound there is.
LEMMA RuleIsRight ==
  ASSUME NEW tags, "expected" \in tags
  PROVE  PanelRoutingReason(<<GoodRule>>, "expected", tags) = "none"
<1> DEFINE checks == PanelRuleChecks("expected", tags)
           rules == <<GoodRule>>
<1>1. Len(rules) = 1 /\ rules[1] = GoodRule /\ rules # <<>>
  OBVIOUS
<1>2. PassesAll(checks, GoodRule)
  BY DEF PassesAll, Passes, PanelRuleChecks, Check, GoodRule, Object, Expected
<1> HIDE DEF checks, rules
<1>3. FirstItemFailure(checks, rules) = "none"
  BY <1>1, <1>2, NoItemFailure
<1> QED BY <1>1, <1>3 DEF PanelRoutingReason, checks, rules

\* Its outbound is the direct one.
LEMMA OutboundIsRight == PanelOutboundsReason(<<DirectFreedom>>) = "none"
<1> DEFINE outbounds == <<DirectFreedom>>
<1>1. /\ Len(outbounds) = 1 /\ outbounds[1] = DirectFreedom /\ outbounds # <<>>
      /\ DirectFreedom \in ToSet(outbounds)
  BY DEF ToSet
<1>2. PassesAll(PanelOutboundChecks, DirectFreedom)
  BY DEF PassesAll, Passes, PanelOutboundChecks, Check, DirectFreedom, Object, Nonblank
<1> HIDE DEF outbounds
<1>3. FirstItemFailure(PanelOutboundChecks, outbounds) = "none"
  BY <1>1, <1>2, NoItemFailure
<1>4. FirstReason(<<"none", "none">>) = "none"
  <2> DEFINE reasons == <<"none", "none">>
  <2>1. \A i \in 1..Len(reasons) : reasons[i] = "none"
    OBVIOUS
  <2> HIDE DEF reasons
  <2>2. FirstReason(reasons) = "none"
    BY <2>1, NoFirst
  <2> QED BY <2>2 DEF reasons
<1>5. PanelOutboundsReason(outbounds) = "none"
  BY <1>1, <1>3, <1>4 DEF PanelOutboundsReason
<1> QED BY <1>5 DEF outbounds

\* A config whose fields and lists pass is accepted.
LEMMA NoReason ==
  ASSUME NEW doc, PassesAll(PanelConfigChecks, doc.fields), GoodLists(doc),
         doc.fields["routing"] = "object", doc.fields["inbound.tag"] = "expected"
  PROVE  PanelConfigReason(doc) = "none"
<1>1. FirstFailure(PanelConfigChecks, doc.fields) = "none"
  BY NoFailure
<1>2. PanelOutboundsReason(doc.outbounds) = "none"
  BY OutboundIsRight DEF GoodLists
<1>3. PanelRoutingReason(doc.rules, "expected", TagsOf(doc.outbounds)) = "none"
  <2> DEFINE outbounds == <<DirectFreedom>>
  <2>1. outbounds[1] = DirectFreedom /\ Len(outbounds) = 1
    OBVIOUS
  <2>2. DirectFreedom \in ToSet(outbounds) /\ DirectFreedom.tag = "expected"
    BY <2>1 DEF ToSet, DirectFreedom
  <2> HIDE DEF outbounds
  <2>3. "expected" \in TagsOf(outbounds)
    BY <2>2 DEF TagsOf
  <2>4. doc.outbounds = outbounds /\ doc.rules = <<GoodRule>>
    BY DEF GoodLists, outbounds
  <2> QED BY <2>3, <2>4, RuleIsRight
<1> DEFINE reasons == <<"none", "none", "none", "none">>
<1>4. \A i \in 1..Len(reasons) : reasons[i] = "none"
  OBVIOUS
<1>5. PanelConfigReason(doc) = FirstReason(reasons)
  BY <1>1, <1>2, <1>3 DEF PanelConfigReason, Object
<1> HIDE DEF reasons
<1> QED BY <1>4, <1>5, NoFirst

-----------------------------------------------------------------------------
(* Documents *)

\* All the sequences of checks a document goes through.
Tables == {PanelPayloadChecks, AgentPayloadChecks, PanelConfigChecks, AgentConfigChecks}

\* A document is a record of the four parts the model gives one.
IsDocument(doc) ==
  /\ doc = [damage |-> doc.damage, fields |-> doc.fields,
            outbounds |-> doc.outbounds, rules |-> doc.rules]
  /\ doc.damage \in Nat

\* A document both gates accept.
Sound(doc) ==
  /\ \A checks \in Tables : PassesAll(checks, doc.fields)
  /\ {"clients", "routing", "inbound.tag"} \subseteq DOMAIN doc.fields
  /\ doc.fields["routing"] = "object"
  /\ doc.fields["inbound.tag"] = "expected"
  /\ GoodLists(doc)

\* Both gates answer with no reason.
LEMMA SoundIsAccepted ==
  ASSUME NEW doc, Sound(doc)
  PROVE  PanelReason(doc) = "none" /\ AgentReason(doc) = "none"
BY NoFailure, NoReason, SameGates DEF Sound, Tables, PanelReason, AgentReason

\* Where an integer passes, the float it is after JSON does.
LEMMA TakesFloats ==
  \A checks \in Tables : \A i \in 1..Len(checks) :
    "int" \in checks[i].accepts => "float" \in checks[i].accepts
<1> USE DEF Check, Object, Bool, List, Lists, AnyList, Expected, Nonblank, Strings,
            Positive, Numbers
<1>1. \A i \in 1..Len(PanelConfigChecks) :
        "int" \in PanelConfigChecks[i].accepts => "float" \in PanelConfigChecks[i].accepts
  BY DEF PanelConfigChecks
<1>2. \A i \in 1..Len(PanelPayloadChecks) :
        "int" \in PanelPayloadChecks[i].accepts => "float" \in PanelPayloadChecks[i].accepts
  BY DEF PanelPayloadChecks
<1>3. \A i \in 1..Len(AgentPayloadChecks) :
        "int" \in AgentPayloadChecks[i].accepts => "float" \in AgentPayloadChecks[i].accepts
  BY DEF AgentPayloadChecks
<1> QED BY <1>1, <1>2, <1>3, SameChecks DEF Tables

\* What a rollback writes passes the checks on the fields it writes.
LEMMA TakesRollback ==
  \A checks \in Tables : \A i \in 1..Len(checks) :
    /\ checks[i].field = "revision_number" => "int" \in checks[i].accepts
    /\ checks[i].field \in {"operation_kind", "config_kind"} =>
         "expected" \in checks[i].accepts
<1> USE DEF Check, Object, Bool, List, Lists, AnyList, Expected, Nonblank, Strings,
            Positive, Numbers
<1> DEFINE Takes(checks) == \A i \in 1..Len(checks) :
             /\ checks[i].field = "revision_number" => "int" \in checks[i].accepts
             /\ checks[i].field \in {"operation_kind", "config_kind"} =>
                  "expected" \in checks[i].accepts
<1>1. Takes(PanelConfigChecks)
  BY DEF PanelConfigChecks
<1>2. Takes(PanelPayloadChecks)
  BY DEF PanelPayloadChecks
<1>3. Takes(AgentPayloadChecks)
  BY DEF AgentPayloadChecks
<1> QED BY <1>1, <1>2, <1>3, SameChecks DEF Tables

\* The fields of what is rendered pass every check, one by one.
LEMMA RenderedPasses ==
  ASSUME NEW clients \in BOOLEAN
  PROVE  LET fields == Rendered(clients).fields
         IN  /\ \A checks \in Tables : PassesAll(checks, fields)
             /\ {"clients", "routing", "inbound.tag"} \subseteq DOMAIN fields
             /\ fields["routing"] = "object"
             /\ fields["inbound.tag"] = "expected"
<1> DEFINE fields == Rendered(clients).fields
           kind(field) == RenderedKind(field, clients)
<1>1. fields = [field \in Field |-> kind(field)]
  BY DEF Rendered
<1> HIDE DEF fields
<1>2. \A checks \in Tables : \A i \in 1..Len(checks) : checks[i].field \in Field
  <2>1. ASSUME NEW checks \in Tables, NEW i \in 1..Len(checks)
        PROVE  checks[i] \in ToSet(PanelPayloadChecks) \cup ToSet(AgentPayloadChecks)
                               \cup ToSet(PanelConfigChecks)
    <3>1. checks \in {PanelPayloadChecks, AgentPayloadChecks, PanelConfigChecks}
      BY SameChecks DEF Tables
    <3>2. checks[i] \in ToSet(checks)
      <4>1. DOMAIN checks = 1..Len(checks)
        BY <3>1 DEF PanelPayloadChecks, AgentPayloadChecks, PanelConfigChecks
      <4> QED BY <4>1 DEF ToSet
    <3> QED BY <3>1, <3>2
  <2> QED BY <2>1 DEF Field
<1> DEFINE Fits(check) == \/ kind(check.field) \in check.accepts
                          \/ check.field \in ClientFields /\ ~clients
<1>3. \A checks \in Tables : \A i \in 1..Len(checks) : Fits(checks[i])
  <2> USE DEF Check, Object, Bool, List, Lists, AnyList, Expected, Nonblank, Strings,
              Positive, Numbers, ClientFields, RenderedKind
  <2>1. \A i \in 1..Len(PanelConfigChecks) : Fits(PanelConfigChecks[i])
    BY DEF PanelConfigChecks
  <2>2. \A i \in 1..Len(PanelPayloadChecks) : Fits(PanelPayloadChecks[i])
    BY DEF PanelPayloadChecks
  <2>3. \A i \in 1..Len(AgentPayloadChecks) : Fits(AgentPayloadChecks[i])
    BY DEF AgentPayloadChecks
  <2> HIDE DEF Fits
  <2> QED BY <2>1, <2>2, <2>3, SameChecks DEF Tables
<1>4. ~clients => kind("clients") = "emptyList"
  BY DEF RenderedKind, ClientFields
<1>5. kind("routing") = "object" /\ kind("inbound.tag") = "expected"
  BY DEF RenderedKind, ClientFields
<1>6. {"clients", "routing", "inbound.tag"} \subseteq Field
  <2>1. "routing" \in Field
    BY DEF Field
  <2>2. /\ PanelConfigChecks[12].field = "clients"
        /\ PanelConfigChecks[7].field = "inbound.tag"
        /\ 12 \in 1..Len(PanelConfigChecks) /\ 7 \in 1..Len(PanelConfigChecks)
    BY DEF PanelConfigChecks, Check
  <2>3. PanelConfigChecks \in Tables
    BY DEF Tables
  <2> QED BY <1>2, <2>1, <2>2, <2>3
<1> HIDE DEF kind
<1>7. \A checks \in Tables : PassesAll(checks, fields)
  <2>1. \A checks \in Tables : Len(checks) \in Nat
    BY SameChecks DEF Tables, PanelConfigChecks, PanelPayloadChecks, AgentPayloadChecks
  <2> QED BY <1>1, <1>2, <1>3, <1>4, <1>6, <2>1 DEF PassesAll, Passes
<1> QED BY <1>1, <1>5, <1>6, <1>7 DEF fields

\* So is the document.
LEMMA RenderedSound ==
  ASSUME NEW clients \in BOOLEAN
  PROVE  Sound(Rendered(clients)) /\ IsDocument(Rendered(clients))
<1>1. GoodLists(Rendered(clients)) /\ IsDocument(Rendered(clients))
  BY DEF Rendered, GoodLists, GoodRule, IsDocument
<1> QED BY <1>1, RenderedPasses DEF Sound

\* A sound document is sound after JSON.
LEMMA WireSound ==
  ASSUME NEW doc, IsDocument(doc), Sound(doc)
  PROVE  Sound(OnWire(doc)) /\ IsDocument(OnWire(doc))
<1> DEFINE wire == [f \in DOMAIN doc.fields |->
                      IF doc.fields[f] = "int" THEN "float" ELSE doc.fields[f]]
<1>1. /\ OnWire(doc).fields = wire
      /\ GoodLists(OnWire(doc))
      /\ IsDocument(OnWire(doc))
  BY DEF OnWire, IsDocument, Sound, GoodLists
<1>2. \A f \in DOMAIN doc.fields :
        wire[f] = IF doc.fields[f] = "int" THEN "float" ELSE doc.fields[f]
  OBVIOUS
<1>3. DOMAIN wire = DOMAIN doc.fields
  OBVIOUS
<1> HIDE DEF wire
<1>4. {"routing", "inbound.tag", "clients"} \subseteq DOMAIN doc.fields
  BY DEF Sound
<1>5. ASSUME NEW checks \in Tables
      PROVE  PassesAll(checks, wire)
  <2> SUFFICES ASSUME NEW i \in 1..Len(checks)
               PROVE  checks[i].field \in DOMAIN wire /\ Passes(checks[i], wire)
    BY DEF Sound, PassesAll
  <2>1. checks[i].field \in DOMAIN doc.fields /\ Passes(checks[i], doc.fields)
    BY DEF Sound, PassesAll
  <2>2. "int" \in checks[i].accepts => "float" \in checks[i].accepts
    BY TakesFloats
  <2> QED BY <1>2, <1>3, <1>4, <2>1, <2>2 DEF Passes
<1> QED BY <1>1, <1>2, <1>3, <1>4, <1>5 DEF Sound

\* And after it became a rollback.
LEMMA RollbackSound ==
  ASSUME NEW doc, IsDocument(doc), Sound(doc)
  PROVE  Sound(RolledBack(doc)) /\ IsDocument(RolledBack(doc))
<1> DEFINE old == OnWire(doc)
           new == [old.fields EXCEPT !["revision_number"] = "int",
                                     !["operation_kind"] = "expected",
                                     !["config_kind"] = "expected"]
<1>1. Sound(old) /\ IsDocument(old)
  BY WireSound
<1>2. RolledBack(doc) = [old EXCEPT !.fields = new]
  BY DEF RolledBack
<1> HIDE DEF old
<1>3. DOMAIN new = DOMAIN old.fields
      /\ \A f \in DOMAIN new :
           new[f] = IF f = "revision_number" THEN "int"
                    ELSE IF f \in {"operation_kind", "config_kind"} THEN "expected"
                    ELSE old.fields[f]
  OBVIOUS
<1> HIDE DEF new
<1>4. /\ RolledBack(doc).fields = new
      /\ GoodLists(RolledBack(doc))
      /\ IsDocument(RolledBack(doc))
  BY <1>1, <1>2 DEF IsDocument, Sound, GoodLists
<1>5. {"routing", "inbound.tag", "clients"} \subseteq DOMAIN old.fields
  BY <1>1 DEF Sound
<1>6. ASSUME NEW checks \in Tables
      PROVE  PassesAll(checks, new)
  <2> SUFFICES ASSUME NEW i \in 1..Len(checks)
               PROVE  checks[i].field \in DOMAIN new /\ Passes(checks[i], new)
    BY <1>1 DEF Sound, PassesAll
  <2>1. checks[i].field \in DOMAIN old.fields /\ Passes(checks[i], old.fields)
    BY <1>1 DEF Sound, PassesAll
  <2>2. /\ checks[i].field = "revision_number" => "int" \in checks[i].accepts
        /\ checks[i].field \in {"operation_kind", "config_kind"} =>
             "expected" \in checks[i].accepts
    BY TakesRollback
  <2> QED BY <1>3, <1>5, <2>1, <2>2 DEF Passes
<1> QED BY <1>1, <1>3, <1>4, <1>5, <1>6 DEF Sound

-----------------------------------------------------------------------------
(* One verdict before and after JSON *)

\* And where the float passes, the integer it was does.
LEMMA TakesIntegers ==
  \A i \in 1..Len(PanelConfigChecks) :
    "float" \in PanelConfigChecks[i].accepts <=> "int" \in PanelConfigChecks[i].accepts
BY DEF PanelConfigChecks, Check, Object, Bool, List, Lists, AnyList, Expected, Nonblank,
   Strings, Positive, Numbers

\* Every config check is on a field documents have.
LEMMA ChecksAreOfFields ==
  \A i \in 1..Len(PanelConfigChecks) : PanelConfigChecks[i].field \in Field
<1>1. DOMAIN PanelConfigChecks = 1..Len(PanelConfigChecks)
  BY DEF PanelConfigChecks
<1> QED BY <1>1 DEF Field, ToSet

\* A document whatever was done to it: it has all fields, of any kind, and its rules
\* name tags an inbound can have.
Typed(doc) ==
  /\ IsDocument(doc)
  /\ doc.fields = [f \in Field |-> doc.fields[f]]
  /\ \A i \in 1..Len(doc.rules) : doc.rules[i].inboundTag \subseteq Tag

\* A rule names no tag that is a number, whether JSON had it in its hands or not.
LEMMA NumbersAreNoTags ==
  ASSUME NEW rule, rule.inboundTag \subseteq Tag, NEW tags
  PROVE  FirstFailure(PanelRuleChecks("float", tags), rule)
           = FirstFailure(PanelRuleChecks("int", tags), rule)
<1>1. rule.inboundTag # {"float"} /\ rule.inboundTag # {"int"}
  BY DEF Tag, Nonblank
<1>2. rule["inboundTag"] = rule.inboundTag
  OBVIOUS
<1> DEFINE floats == PanelRuleChecks("float", tags)
           ints == PanelRuleChecks("int", tags)
<1>3. /\ Len(floats) = 4 /\ Len(ints) = 4
      /\ \A i \in 1..3 : floats[i] = ints[i]
      /\ floats[4].field = "inboundTag" /\ ints[4].field = "inboundTag"
      /\ floats[4].reason = ints[4].reason
      /\ floats[4].accepts = {{"float"}} /\ ints[4].accepts = {{"int"}}
  BY DEF PanelRuleChecks, Check
<1> HIDE DEF floats, ints
<1>4. Answers(floats, rule) = Answers(ints, rule)
  <2> DEFINE Answer(check) == IF /\ rule[check.field] \notin check.accepts
                                 /\ ~(check.field \in ClientFields
                                        /\ rule["clients"] = "emptyList")
                                THEN check.reason ELSE "none"
  <2>1. Answers(floats, rule) = [i \in 1..4 |-> Answer(floats[i])]
        /\ Answers(ints, rule) = [i \in 1..4 |-> Answer(ints[i])]
    BY <1>3 DEF Answers
  <2>2. ASSUME NEW i \in 1..4 PROVE Answer(floats[i]) = Answer(ints[i])
    <3>1. CASE i \in 1..3
      BY <1>3, <3>1
    <3>2. CASE i = 4
      BY <1>1, <1>2, <1>3, <3>2
    <3> QED BY <3>1, <3>2
  <2> HIDE DEF Answer
  <2> QED BY <2>1, <2>2
<1> QED BY <1>4, FirstFailureIs DEF floats, ints

\* JSON changes no verdict on a config, and no reason: integers and floats pass the
\* same checks, and a tag that is a number is no rule's.
LEMMA WireVerdict ==
  ASSUME NEW doc, Typed(doc)
  PROVE  PanelConfigReason(OnWire(doc)) = PanelConfigReason(doc)
<1> DEFINE old == doc.fields
           new == [f \in Field |-> IF old[f] = "int" THEN "float" ELSE old[f]]
           checks == PanelConfigChecks
<1>1. DOMAIN old = Field
  BY DEF Typed
<1>2. OnWire(doc).fields = new /\ OnWire(doc).outbounds = doc.outbounds
      /\ OnWire(doc).rules = doc.rules
  BY <1>1 DEF OnWire, Typed, IsDocument
<1>3. \A f \in Field : new[f] = IF old[f] = "int" THEN "float" ELSE old[f]
  OBVIOUS
<1> HIDE DEF new, old
<1>4. {"clients", "routing", "inbound.tag"} \subseteq Field
  <2>1. Sound(Rendered(TRUE))
    BY RenderedSound
  <2>2. DOMAIN Rendered(TRUE).fields = Field
    BY DEF Rendered
  <2> QED BY <2>1, <2>2 DEF Sound
<1>5. FirstFailure(checks, new) = FirstFailure(checks, old)
  <2>1. ASSUME NEW i \in 1..Len(checks)
        PROVE  new[checks[i].field] \in checks[i].accepts
                 <=> old[checks[i].field] \in checks[i].accepts
    <3>1. checks[i].field \in Field
      BY ChecksAreOfFields
    <3>2. "float" \in checks[i].accepts <=> "int" \in checks[i].accepts
      BY TakesIntegers
    <3> QED BY <1>3, <3>1, <3>2
  <2>2. new["clients"] = "emptyList" <=> old["clients"] = "emptyList"
    BY <1>3, <1>4
  <2>3. Answers(checks, new) = Answers(checks, old)
    BY <2>1, <2>2 DEF Answers
  <2> QED BY <2>3, FirstFailureIs
<1> DEFINE tags == TagsOf(doc.outbounds)
           rules == doc.rules
<1>6. PanelRoutingReason(rules, new["inbound.tag"], tags)
        = PanelRoutingReason(rules, old["inbound.tag"], tags)
  <2> HIDE DEF tags
  <2>1. CASE old["inbound.tag"] # "int"
    BY <1>3, <1>4, <2>1
  <2>2. CASE old["inbound.tag"] = "int"
    <3>1. new["inbound.tag"] = "float"
      BY <1>3, <1>4, <2>2
    <3>2. \A i \in 1..Len(rules) :
            FirstFailure(PanelRuleChecks("float", tags), rules[i])
              = FirstFailure(PanelRuleChecks("int", tags), rules[i])
      BY NumbersAreNoTags DEF Typed
    <3> HIDE DEF rules
    <3>3. [i \in 1..Len(rules) |-> FirstFailure(PanelRuleChecks("float", tags), rules[i])]
            = [i \in 1..Len(rules) |-> FirstFailure(PanelRuleChecks("int", tags), rules[i])]
      BY <3>2
    <3>4. FirstItemFailure(PanelRuleChecks("float", tags), rules)
            = FirstItemFailure(PanelRuleChecks("int", tags), rules)
      BY <3>3, Zenon DEF FirstItemFailure
    <3> QED BY <2>2, <3>1, <3>4, Zenon DEF PanelRoutingReason
  <2> QED BY <2>1, <2>2
<1>7. (new["routing"] \in Object) = (old["routing"] \in Object)
  BY <1>3, <1>4 DEF Object
<1> DEFINE Verdict(first, routing, rest) ==
             FirstReason(<< first, PanelOutboundsReason(doc.outbounds),
                            IF routing THEN "none" ELSE "missing_routing", rest >>)
<1>8. PanelConfigReason(doc)
        = Verdict(FirstFailure(checks, old), old["routing"] \in Object,
                  PanelRoutingReason(rules, old["inbound.tag"], tags))
  BY Zenon DEF PanelConfigReason, old
<1>9. PanelConfigReason(OnWire(doc))
        = Verdict(FirstFailure(checks, new), new["routing"] \in Object,
                  PanelRoutingReason(rules, new["inbound.tag"], tags))
  BY <1>2, Zenon DEF PanelConfigReason
<1> HIDE DEF Verdict, tags, rules
<1> QED BY <1>5, <1>6, <1>7, <1>8, <1>9

\* What is rendered has all the fields.
LEMMA RenderedTyped ==
  ASSUME NEW clients \in BOOLEAN
  PROVE  Typed(Rendered(clients))
<1>1. IsDocument(Rendered(clients))
  BY RenderedSound
<1>2. Rendered(clients).rules = <<GoodRule>> /\ GoodRule.inboundTag \subseteq Tag
  BY DEF Rendered, GoodRule, Tag, Nonblank
<1>3. Rendered(clients).fields = [f \in Field |-> Rendered(clients).fields[f]]
  BY DEF Rendered
<1> QED BY <1>1, <1>2, <1>3 DEF Typed

\* Everything that changes a document keeps its fields and the tags of its rules.
TypedDocument == Typed(document)

LEMMA StepTyped == TypedDocument /\ [Changes]_document => TypedDocument'
<1> SUFFICES ASSUME Typed(document), [Changes]_document PROVE Typed(document')
  BY DEF TypedDocument
<1>1. CASE RenderNext
  BY <1>1, RenderedTyped DEF RenderNext
<1>2. Typed(OnWire(document))
  BY DEF OnWire, Typed, IsDocument
<1>3. CASE Reread
  BY <1>2, <1>3 DEF Reread
<1>4. CASE Rollback
  BY <1>2, <1>4 DEF Rollback, RolledBack, Typed, IsDocument
<1>5. CASE DamageField
  <2>1. PICK f, kind :
          document' = [document EXCEPT !.fields[f] = kind, !.damage = @ + 1]
    BY <1>5 DEF DamageField
  <2> DEFINE changed == [document.fields EXCEPT ![f] = kind]
  <2>2. changed = [g \in Field |-> changed[g]]
    BY DEF Typed
  <2>3. document' = [document EXCEPT !.fields = changed, !.damage = @ + 1]
    BY <2>1
  <2> HIDE DEF changed
  <2>4. document' = [damage    |-> document.damage + 1, fields |-> changed,
                     outbounds |-> document.outbounds, rules |-> document.rules]
    BY <2>3 DEF Typed, IsDocument
  <2>5. IsDocument(document') /\ document'.fields = changed
        /\ document'.rules = document.rules
    BY <2>4 DEF Typed, IsDocument
  <2> QED BY <2>2, <2>5 DEF Typed
<1>6. CASE DamageLists
  <2>1. IsDocument(document') /\ document'.fields = document.fields
        /\ document'.rules = document.rules
    BY <1>6, DamageAssumption DEF DamageLists, DamageAssumption, Typed, IsDocument
  <2> QED BY <2>1 DEF Typed
<1>7. CASE DamageRules
  <2>1. PICK rules \in BoundedSeq(Rule, 2) :
          document' = [document EXCEPT !.rules = rules, !.damage = MaxDamage]
    BY <1>7 DEF DamageRules
  <2>2. PICK m \in 0..2 : rules \in [1..m -> Rule]
    BY DEF BoundedSeq, SeqOf
  <2>3. Len(rules) = m
    BY <2>2
  <2>4. \A i \in 1..Len(rules) : rules[i].inboundTag \subseteq Tag
    BY <2>2, <2>3 DEF Rule
  <2>5. IsDocument(document') /\ document'.fields = document.fields
        /\ document'.rules = rules
    BY <2>1, DamageAssumption DEF DamageAssumption, Typed, IsDocument
  <2> QED BY <2>4, <2>5 DEF Typed
<1>8. CASE UNCHANGED document
  BY <1>8
<1> QED BY <1>1, <1>3, <1>4, <1>5, <1>6, <1>7, <1>8 DEF Changes

-----------------------------------------------------------------------------
(* Theorems *)

\* Whatever field, outbounds or rules of a config were changed, Validate-
\* VLESSRealityConfig on what panel-api holds and ValidateXrayConfigArtifact on what
\* node-agent decoded answer alike, with the same reason: a check edited in one of the
\* services only, or one that takes integers but no floats, breaks it.
THEOREM SameVerdict == Renders /\ [][Changes]_document => []SameConfigVerdict
<1>1. Renders => TypedDocument
  BY RenderedTyped DEF Renders, TypedDocument
<1>2. TypedDocument => SameConfigVerdict
  BY WireVerdict, SameGates DEF SameConfigVerdict, TypedDocument
<1> QED BY <1>1, <1>2, StepTyped, PTL

\* A document that nothing damaged is sound.
DocumentInv ==
  /\ IsDocument(document)
  /\ document.damage = 0 => Sound(document)

\* Every way to make a document, or to change one, keeps that.
LEMMA StepDocument == DocumentInv /\ [Changes]_document => DocumentInv'
<1> SUFFICES ASSUME DocumentInv, [Changes]_document PROVE DocumentInv'
  OBVIOUS
<1> USE DEF DocumentInv
<1>1. CASE RenderNext
  BY <1>1, RenderedSound DEF RenderNext
<1>2. CASE Reread
  BY <1>2, WireSound DEF Reread
<1>3. CASE Rollback
  BY <1>3, RollbackSound DEF Rollback
<1>4. CASE DamageField
  <2>1. PICK f, kind :
          document' = [document EXCEPT !.fields[f] = kind, !.damage = @ + 1]
    BY <1>4 DEF DamageField
  <2> DEFINE changed == [document.fields EXCEPT ![f] = kind]
  <2>2. document' = [document EXCEPT !.fields = changed, !.damage = @ + 1]
    BY <2>1
  <2> HIDE DEF changed
  <2>3. document' = [damage    |-> document.damage + 1, fields |-> changed,
                     outbounds |-> document.outbounds, rules |-> document.rules]
    BY <2>2 DEF IsDocument
  <2>4. IsDocument(document') /\ document'.damage = document.damage + 1
    BY <2>3 DEF IsDocument
  <2> QED BY <2>4 DEF IsDocument
<1>5. CASE DamageLists
  <2>1. IsDocument(document') /\ document'.damage = MaxDamage
    BY <1>5, DamageAssumption DEF DamageLists, DamageAssumption, IsDocument
  <2> QED BY <2>1, DamageAssumption DEF DamageAssumption
<1>6. CASE DamageRules
  <2>1. IsDocument(document') /\ document'.damage = MaxDamage
    BY <1>6, DamageAssumption DEF DamageRules, DamageAssumption, IsDocument
  <2> QED BY <2>1, DamageAssumption DEF DamageAssumption
<1>7. CASE UNCHANGED document
  BY <1>7
<1> QED BY <1>1, <1>2, <1>3, <1>4, <1>5, <1>6, <1>7 DEF Changes

\* What RenderVLESSRealityPayload renders, with clients or without, and what any
\* chain of readings and rollbacks makes of it, passes the panel's gate as it is
\* and the agent's after JSON.
THEOREM RenderedPass == Renders /\ [][Changes]_document => []RenderedPassesBoth
<1>1. Renders => DocumentInv
  BY RenderedSound DEF Renders, DocumentInv
<1>2. DocumentInv => RenderedPassesBoth
  <2> SUFFICES ASSUME DocumentInv, document.damage = 0
               PROVE  PanelReason(document) = "none" /\ AgentReason(OnWire(document)) = "none"
    BY DEF RenderedPassesBoth
  <2> QED BY SoundIsAccepted, WireSound DEF DocumentInv
<1> QED BY <1>1, <1>2, StepDocument, PTL
=============================================================================
