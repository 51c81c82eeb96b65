-------------------------- MODULE ConfigValidation --------------------------
(***************************************************************************)
(* The two gates a rendered config passes: panel-api validates the payload *)
(* before it stores a revision (configrender/validate.go), node-agent the  *)
(* bundle it fetched (agent/xray_validator.go and validateRenderedConfig-  *)
(* Payload in agent/service.go).  Both are written by hand, field by       *)
(* field, and the agent sees the payload after JSON turned its integers    *)
(* into float64.                                                           *)
(*                                                                         *)
(* A document gives each field the kind of value it has; a gate is a       *)
(* sequence of checks, and its answer the reason of the first that fails.  *)
(* 'document' is one the panel rendered, its rollback, or one that was     *)
(* damaged by whatever else can write or send a bundle: another version,   *)
(* an edited row.                                                          *)
(***************************************************************************)
EXTENDS Integers, Sequences, SequencesExt

CONSTANT MaxDamage     \* bound: fields or lists changed

ASSUME DamageAssumption == MaxDamage \in Nat \ {0}

VARIABLE document

Object   == {"object"}
Bool     == {"bool"}
List     == {"list"}                        \* of strings, or of objects
Lists    == {"list", "emptyList"}
AnyList  == Lists \cup {"mixedList"}        \* a later item is of another type
Expected == {"expected"}                    \* the string the code compares with
Nonblank == {"expected", "string"}          \* stringField
Strings  == {"expected", "string", "blank"}

\* Mutation: a float64 is no number.
OnlyInts == {"int"}

Positive == {"int", "float"}                \* integers; after JSON, float64

\* numberAsInt: a float64 with a fraction is no number.
Numbers == {"int", "float", "zero"}

Kind == {"absent", "object", "bool", "list", "emptyList", "mixedList", "expected",
         "string", "blank", "int", "float", "zero", "fraction"}

Check(field, accepts, reason) ==
  [field |-> field, accepts |-> accepts, reason |-> reason]

-----------------------------------------------------------------------------
(* The config: single fields *)

\* ValidateVLESSRealityConfig of panel-api, up to the outbounds.
PanelConfigChecks ==
  << Check("log", Object, "missing_log"),
     Check("policy", Object, "missing_policy"),
     Check("stats", Object, "missing_stats"),
     Check("inbounds", AnyList, "missing_inbounds"),
     Check("inbounds", List, "invalid_inbound_count"),
     Check("inbound", Object, "invalid_inbound"),
     Check("inbound.tag", Nonblank, "missing_inbound_tag"),
     Check("inbound.protocol", Expected, "invalid_inbound_protocol"),
     Check("inbound.port", Positive, "invalid_inbound_port"),
     Check("settings", Object, "missing_inbound_settings"),
     Check("settings.decryption", Expected, "invalid_vless_decryption"),
     Check("clients", AnyList, "missing_vless_clients"),
     Check("client", Object, "invalid_vless_client"),
     Check("client.id", Nonblank, "missing_vless_client_id"),
     Check("client.email", Nonblank, "missing_vless_client_email"),
     Check("client.flow", Expected, "invalid_vless_client_flow"),
     Check("client.level", Numbers, "missing_vless_client_level"),
     Check("clients", Lists, "invalid_vless_client"),
     Check("streamSettings", Object, "missing_stream_settings"),
     Check("streamSettings.network", Expected, "invalid_stream_network"),
     Check("streamSettings.security", Expected, "invalid_stream_security"),
     Check("realitySettings", Object, "missing_reality_settings"),
     Check("show", Bool, "missing_reality_show"),
     Check("dest", Nonblank, "missing_reality_dest"),
     Check("privateKey", Nonblank, "missing_reality_privateKey"),
     Check("minClientVer", Strings, "missing_reality_minClientVer"),
     Check("maxClientVer", Strings, "missing_reality_maxClientVer"),
     Check("serverNames", List, "missing_reality_server_names"),
     Check("shortIds", Lists, "missing_reality_short_ids"),
     Check("xver", Numbers, "missing_reality_xver"),
     Check("maxTimeDiff", Numbers, "missing_reality_max_time_diff") >>

\* ValidateXrayConfigArtifact of node-agent, up to the outbounds.
AgentConfigChecks ==
  << Check("log", Object, "missing_log"),
     Check("policy", Object, "missing_policy"),
     Check("stats", Object, "missing_stats"),
     Check("inbounds", AnyList, "missing_inbounds"),
     Check("inbounds", List, "invalid_inbound_count"),
     Check("inbound", Object, "invalid_inbound"),
     Check("inbound.tag", Nonblank, "missing_inbound_tag"),
     Check("inbound.protocol", Expected, "invalid_inbound_protocol"),
     Check("inbound.port", Positive, "invalid_inbound_port"),
     Check("settings", Object, "missing_inbound_settings"),
     Check("settings.decryption", Expected, "invalid_vless_decryption"),
     Check("clients", AnyList, "missing_vless_clients"),
     Check("client", Object, "invalid_vless_client"),
     Check("client.id", Nonblank, "missing_vless_client_id"),
     Check("client.email", Nonblank, "missing_vless_client_email"),
     Check("client.flow", Expected, "invalid_vless_client_flow"),
     Check("client.level", Numbers, "missing_vless_client_level"),
     Check("clients", Lists, "invalid_vless_client"),
     Check("streamSettings", Object, "missing_stream_settings"),
     Check("streamSettings.network", Expected, "invalid_stream_network"),
     Check("streamSettings.security", Expected, "invalid_stream_security"),
     Check("realitySettings", Object, "missing_reality_settings"),
     Check("show", Bool, "missing_reality_show"),
     Check("dest", Nonblank, "missing_reality_dest"),
     Check("privateKey", Nonblank, "missing_reality_privateKey"),
     Check("minClientVer", Strings, "missing_reality_minClientVer"),
     Check("maxClientVer", Strings, "missing_reality_maxClientVer"),
     Check("serverNames", List, "missing_reality_server_names"),
     Check("shortIds", Lists, "missing_reality_short_ids"),
     Check("xver", Numbers, "missing_reality_xver"),
     Check("maxTimeDiff", Numbers, "missing_reality_max_time_diff") >>

\* The fields of a client that is not there are not looked at.
ClientFields == {"client", "client.id", "client.email", "client.flow", "client.level"}

FirstReason(reasons) ==
  LET given(reason) == reason # "none"
      first == SelectInSeq(reasons, given)
  IN  IF first = 0 THEN "none" ELSE reasons[first]

\* The reason of the first check that fails.
FirstFailure(checks, fields) ==
  LET fails(check) ==
        /\ fields[check.field] \notin check.accepts
        /\ ~(check.field \in ClientFields /\ fields["clients"] = "emptyList")
  IN  FirstReason([i \in 1..Len(checks) |->
                     IF fails(checks[i]) THEN checks[i].reason ELSE "none"])

\* Of a list, the reason of the first item that fails.
FirstItemFailure(checks, items) ==
  FirstReason([i \in 1..Len(items) |-> FirstFailure(checks, items[i])])

-----------------------------------------------------------------------------
(* The config: outbounds and routing rules, which refer to each other *)

\* Two names a tag can have: the one the code compares with, or another.
Tag == Nonblank

\* Items that are no objects have no fields.
Outbound ==
  [item : Object, tag : Tag \cup {"blank"}, protocol : Tag \cup {"blank"}]
    \cup {[item |-> "string", tag |-> "absent", protocol |-> "absent"]}

\* An inboundTag that is no list of strings is refused as the empty one.
Rule ==
  [item : Object, type : Tag, outboundTag : Tag \cup {"blank"}, inboundTag : SUBSET Tag]
    \cup {[item |-> "string", type |-> "absent", outboundTag |-> "absent",
           inboundTag |-> {}]}

DirectFreedom == [item |-> "object", tag |-> "expected", protocol |-> "expected"]

TagsOf(outbounds) == {o.tag : o \in ToSet(outbounds)}

\* validateOutbounds and validateRouting of panel-api; outbounds and rules that are
\* no lists are refused as empty ones.
PanelOutboundChecks ==
  << Check("item", Object, "invalid_outbound"),
     Check("tag", Nonblank, "missing_outbound_tag"),
     Check("protocol", Nonblank, "missing_outbound_protocol") >>

PanelOutboundsReason(outbounds) ==
  IF outbounds = <<>> THEN "missing_outbounds"
  ELSE FirstReason(
    << FirstItemFailure(PanelOutboundChecks, outbounds),
       IF DirectFreedom \in ToSet(outbounds) THEN "none"
         ELSE "missing_direct_freedom_outbound" >>)

PanelRuleChecks(inboundTag, outboundTags) ==
  << Check("item", Object, "invalid_routing_rule"),
     Check("type", Expected, "invalid_routing_rule_type"),
     Check("outboundTag", outboundTags, "invalid_routing_outbound_reference"),
     Check("inboundTag", {{inboundTag}}, "invalid_routing_inbound_reference") >>

PanelRoutingReason(rules, inboundTag, outboundTags) ==
  IF rules = <<>> THEN "missing_routing_rules"
  ELSE FirstItemFailure(PanelRuleChecks(inboundTag, outboundTags), rules)

\* ValidateVLESSRealityConfig.
PanelConfigReason(doc) ==
  FirstReason(
    << FirstFailure(PanelConfigChecks, doc.fields),
       PanelOutboundsReason(doc.outbounds),
       IF doc.fields["routing"] \in Object THEN "none" ELSE "missing_routing",
       PanelRoutingReason(doc.rules, doc.fields["inbound.tag"], TagsOf(doc.outbounds)) >>)

\* The same of node-agent, which has its own copies.
AgentOutboundChecks ==
  << Check("item", Object, "invalid_outbound"),
     Check("tag", Nonblank, "missing_outbound_tag"),
     Check("protocol", Nonblank, "missing_outbound_protocol") >>

AgentOutboundsReason(outbounds) ==
  IF outbounds = <<>> THEN "missing_outbounds"
  ELSE FirstReason(
    << FirstItemFailure(AgentOutboundChecks, outbounds),
       IF DirectFreedom \in ToSet(outbounds) THEN "none"
         ELSE "missing_direct_freedom_outbound" >>)

\* Mutation: in one of the two copies a rule need not name an inbound.
AgentTakesNoInbound(inboundTag, outboundTags) ==
  << Check("item", Object, "invalid_routing_rule"),
     Check("type", Expected, "invalid_routing_rule_type"),
     Check("outboundTag", outboundTags, "invalid_routing_outbound_reference"),
     Check("inboundTag", {{}, {inboundTag}}, "invalid_routing_inbound_reference") >>

AgentRuleChecks(inboundTag, outboundTags) ==
  << Check("item", Object, "invalid_routing_rule"),
     Check("type", Expected, "invalid_routing_rule_type"),
     Check("outboundTag", outboundTags, "invalid_routing_outbound_reference"),
     Check("inboundTag", {{inboundTag}}, "invalid_routing_inbound_reference") >>

AgentRoutingReason(rules, inboundTag, outboundTags) ==
  IF rules = <<>> THEN "missing_routing_rules"
  ELSE FirstItemFailure(AgentRuleChecks(inboundTag, outboundTags), rules)

\* ValidateXrayConfigArtifact.
AgentConfigReason(doc) ==
  FirstReason(
    << FirstFailure(AgentConfigChecks, doc.fields),
       AgentOutboundsReason(doc.outbounds),
       IF doc.fields["routing"] \in Object THEN "none" ELSE "missing_routing",
       AgentRoutingReason(doc.rules, doc.fields["inbound.tag"], TagsOf(doc.outbounds)) >>)

-----------------------------------------------------------------------------
(* The payload around the config *)

\* ValidateVLESSRealityPayload.
PanelPayloadChecks ==
  << Check("schema_version", Expected, "invalid_schema_version"),
     Check("generated_by", Expected, "invalid_generated_by"),
     Check("protocol", Expected, "invalid_protocol"),
     Check("core_type", Expected, "invalid_core_type"),
     Check("config_kind", Expected, "invalid_config_kind"),
     Check("operation_kind", Expected, "invalid_operation_kind"),
     Check("config", Object, "missing_config") >>

\* validateRenderedConfigPayload: one reason for all.
AgentPayloadChecks ==
  LET reason == "invalid_config_payload"
  IN  << Check("schema_version", Expected, reason),
         Check("generated_by", Expected, reason),
         Check("protocol", Expected, reason),
         Check("core_type", Expected, reason),
         Check("config_kind", Expected, reason),
         Check("revision_number", Positive, reason),
         Check("node", Object, reason),
         Check("transport", Object, reason),
         Check("config", Object, reason),
         Check("operation_kind", Expected, reason),
         Check("subscription_inputs", AnyList, reason),
         Check("access_entries", AnyList, reason) >>

PanelReason(doc) ==
  LET reason == FirstFailure(PanelPayloadChecks, doc.fields)
  IN  IF reason # "none" THEN reason ELSE PanelConfigReason(doc)

AgentReason(doc) ==
  LET reason == FirstFailure(AgentPayloadChecks, doc.fields)
  IN  IF reason # "none" THEN reason ELSE AgentConfigReason(doc)

-----------------------------------------------------------------------------
(* The documents the gates are given *)

Field == {check.field : check \in ToSet(PanelPayloadChecks) \cup ToSet(AgentPayloadChecks)
                                    \cup ToSet(PanelConfigChecks)} \cup {"routing"}

\* RenderVLESSRealityPayload, with clients or without.
RenderedKind(field, clients) ==
  CASE field \in {"inbounds", "serverNames", "shortIds"} -> "list"
    [] field \in {"clients", "subscription_inputs", "access_entries"} ->
         IF clients THEN "list" ELSE "emptyList"
    [] field \in {"dest", "privateKey"} -> "string"
    [] field \in {"minClientVer", "maxClientVer"} -> "blank"
    [] field \in {"inbound.port", "revision_number"} -> "int"
    [] field \in {"xver", "maxTimeDiff"} -> "zero"
    [] field = "show" -> "bool"
    [] field \in {"log", "policy", "stats", "inbound", "settings", "streamSettings",
                  "realitySettings", "routing", "node", "transport", "config"} -> "object"
    [] field \in ClientFields /\ ~clients -> "absent"
    [] field = "client" /\ clients -> "object"
    [] field \in {"client.id", "client.email"} /\ clients -> "string"
    [] field = "client.level" /\ clients -> "zero"
    [] OTHER -> "expected"

Rendered(clients) ==
  [damage    |-> 0,
   fields    |-> [field \in Field |-> RenderedKind(field, clients)],
   outbounds |-> <<DirectFreedom>>,
   rules     |-> <<[item |-> "object", type |-> "expected", outboundTag |-> "expected",
                    inboundTag |-> {"expected"}]>>]

\* encoding/json into map[string]any.
OnWire(doc) ==
  [doc EXCEPT !.fields = [f \in DOMAIN doc.fields |->
     IF doc.fields[f] = "int" THEN "float" ELSE doc.fields[f]]]

\* RenderRollbackPayload: a clone with new numbers.
RolledBack(doc) ==
  [OnWire(doc) EXCEPT !.fields = [@ EXCEPT !["revision_number"] = "int",
                                           !["operation_kind"] = "expected",
                                           !["config_kind"] = "expected"]]

Renders == document \in {Rendered(TRUE), Rendered(FALSE)}

\* The payload is read back from jsonb.
Reread ==
  /\ document.damage = 0
  /\ document' = OnWire(document)

Rollback ==
  /\ document.damage = 0
  /\ document' = RolledBack(document)

\* Bound: the second field is taken away.
DamageField ==
  /\ document.damage < MaxDamage
  /\ \E f \in DOMAIN document.fields :
       \E kind \in IF document.damage = 0 THEN Kind ELSE {"absent"} :
         document' = [document EXCEPT !.fields[f] = kind, !.damage = @ + 1]

\* Bound: two outbounds, two rules.
DamageLists ==
  /\ document.damage = 0
  /\ \E outbounds \in BoundedSeq(Outbound, 2) :
       document' = [document EXCEPT !.outbounds = outbounds, !.damage = MaxDamage]

DamageRules ==
  /\ document.damage = 0
  /\ \E rules \in BoundedSeq(Rule, 2) :
       document' = [document EXCEPT !.rules = rules, !.damage = MaxDamage]

\* A config is rendered anew for every deploy.
RenderNext ==
  /\ document.damage > 0
  /\ document' \in {Rendered(TRUE), Rendered(FALSE)}

Changes == RenderNext \/ Reread \/ Rollback \/ DamageField \/ DamageLists \/ DamageRules

-----------------------------------------------------------------------------
(* Properties *)

\* The two copies of the config checks, of fields, outbounds and routing rules, give
\* the same answer for the same reason, whatever was done to the document, though the
\* agent's copy sees it after JSON.
SameConfigVerdict == PanelConfigReason(document) = AgentConfigReason(OnWire(document))

\* What panel-api renders passes its own gate, and after JSON the agent's, as a
\* deploy, as a rollback of one, and as a rollback of that, without clients too.
RenderedPassesBoth ==
  document.damage = 0 =>
    PanelReason(document) = "none" /\ AgentReason(OnWire(document)) = "none"
=============================================================================
