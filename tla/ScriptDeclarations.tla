------------------------- MODULE ScriptDeclarations -------------------------
(***************************************************************************)
(* What a Lua script declares and when the Host takes it.  script_runtime   *)
(* .cpp runs the source, reads the table it returns field by field, throws  *)
(* on the first thing that is wrong, and merges the values the user has     *)
(* stored.  A Lua value is a record with its type; a table has named fields *)
(* and a sequence part.  Names and titles are strings whose length in bytes *)
(* a constant gives; a number Lua would convert to a text is not used where *)
(* a text is read.  Any exception refuses the script, so that the order of  *)
(* the checks does not show.                                                *)
(***************************************************************************)
EXTENDS Integers, Sequences, FiniteSets

CONSTANTS
  Identifiers,                  \* the well-formed identifiers
  Bytes(_),                     \* size of a text in UTF-8
  MaxItems, MaxSections,        \* kMaximumItems, kMaximumUiSections
  MaxTitle, MaxDescription, MaxUnit, MaxText,    \* kMaximum...Length
  MaxSegments                   \* options a segmented control can show

(* Lua values, and lua_getfield.                                            *)
Nil == [type |-> "nil"]
Table(fields, items) == [type |-> "table", fields |-> fields, items |-> items]
Scalar(type, value) == [type |-> type, value |-> value]
Field(table, name) == IF name \in DOMAIN table.fields THEN table.fields[name] ELSE Nil
Has(table, name) == Field(table, name).type # "nil"
IsText(value) == value.type = "string"

-----------------------------------------------------------------------------
(* Readers shared by the declarations.                                      *)

ValidIdentifier(name) == name \in Identifiers
ValidTitle(value) == IsText(value) /\ Bytes(value.value) \in 1..MaxTitle
KnownFields(table, allowed) == table.items = <<>> /\ DOMAIN table.fields \subseteq allowed
IsSequence(table) == DOMAIN table.fields = {}

OptionalBoolean(table, name) == Field(table, name).type \in {"nil", "boolean"}
OptionalInteger(table, name) == Field(table, name).type \in {"nil", "integer"}
OptionalNumber(table, name) ==
  LET number == Field(table, name)
  IN number.type \in {"nil", "integer"} \/ (number.type = "number" /\ number.finite)
OptionalText(table, name, size) ==
  Has(table, name) => IsText(Field(table, name)) /\ Bytes(Field(table, name).value) <= size

BooleanOf(table, name, default) == IF Has(table, name) THEN Field(table, name).value ELSE default
IntegerOf(table, name, default) == IF Has(table, name) THEN Field(table, name).value ELSE default
TextOf(table, name) == IF Has(table, name) THEN Field(table, name).value ELSE ""
(* std::optional<double>: a set of at most one number.                       *)
NumberOf(table, name) == IF Has(table, name) THEN {Field(table, name).value} ELSE {}

-----------------------------------------------------------------------------
(* Bindings and their default keys.  Devices and keys are read in any case; *)
(* a name of the key table stands for the scan code it is listed with.      *)

CONSTANTS KeyboardKeys, MouseButtons     \* kNamedKeyboardKeys and the digits; the five buttons
Modifiers == {"ctrl", "alt", "shift", "win"}

ValidModifiers(value) ==
  \/ value.type = "nil"
  \/ /\ value.type = "table" /\ IsSequence(value) /\ Len(value.items) <= 4
     /\ \A i \in DOMAIN value.items : IsText(value.items[i]) /\ value.items[i].value \in Modifiers
     /\ \A i, j \in DOMAIN value.items : value.items[i] = value.items[j] => i = j
ModifiersOf(value) ==
  IF value.type = "nil" THEN {} ELSE {value.items[i].value : i \in DOMAIN value.items}

ValidDefaultKey(value) ==
  \/ value.type = "nil"
  \/ /\ value.type = "table"
     /\ KnownFields(value, {"device", "key", "modifiers"})
     /\ IsText(Field(value, "device")) /\ IsText(Field(value, "key"))
     /\ \/ TextOf(value, "device") = "keyboard" /\ TextOf(value, "key") \in KeyboardKeys
        \/ TextOf(value, "device") = "mouse" /\ TextOf(value, "key") \in MouseButtons
     /\ ValidModifiers(Field(value, "modifiers"))

NoKey == [device |-> "none", code |-> "none", modifiers |-> {}]
DefaultKeyOf(value) ==
  IF value.type = "nil" THEN NoKey
  ELSE [device |-> TextOf(value, "device"), code |-> TextOf(value, "key"),
        modifiers |-> ModifiersOf(Field(value, "modifiers"))]

ValidEvents(value) ==
  /\ value.type = "table"
  /\ Len(value.items) \in 1..2
  /\ \A i \in DOMAIN value.items :
       IsText(value.items[i]) /\ value.items[i].value \in {"pressed", "released"}
  /\ \A i, j \in DOMAIN value.items : value.items[i] = value.items[j] => i = j
Delivers(binding, phase) ==
  \E i \in DOMAIN Field(binding, "events").items : Field(binding, "events").items[i].value = phase

ValidBinding(id, binding) ==
  /\ ValidIdentifier(id)
  /\ binding.type = "table"
  /\ ValidTitle(Field(binding, "title"))
  /\ OptionalBoolean(binding, "enabled")
  /\ ValidDefaultKey(Field(binding, "default_key"))
  /\ ValidEvents(Field(binding, "events"))
ValidBindings(value) ==
  \/ value.type = "nil"
  \/ /\ value.type = "table" /\ value.items = <<>>
     /\ Cardinality(DOMAIN value.fields) <= MaxItems
     /\ \A id \in DOMAIN value.fields : ValidBinding(id, value.fields[id])
BindingsOf(value) ==
  [id \in (IF value.type = "nil" THEN {} ELSE DOMAIN value.fields) |->
    LET binding == value.fields[id]
    IN [title |-> TextOf(binding, "title"),
        pressed |-> Delivers(binding, "pressed"), released |-> Delivers(binding, "released"),
        enabled |-> BooleanOf(binding, "enabled", TRUE),
        key |-> DefaultKeyOf(Field(binding, "default_key"))]]

-----------------------------------------------------------------------------
(* Settings.  A canonical value is the text of a value, which keeps the     *)
(* type it is read back with: [type, value].                                *)

SettingTypes == {"boolean", "integer", "double", "string", "enum"}
Numeric(type) == type \in {"integer", "double"}

HasCanonicalValue(value, type) ==
  \/ type = "boolean" /\ value.type = "boolean"
  \/ type = "integer" /\ value.type = "integer"
  \/ type = "double" /\ (value.type = "integer" \/ (value.type = "number" /\ value.finite))
  \/ type \in {"string", "enum"} /\ IsText(value) /\ Bytes(value.value) <= MaxText
Canonical(value, type) == [type |-> type, value |-> value.value]

InRange(setting, value) ==
  Numeric(setting.type) => /\ \A low \in setting.low : low <= value.value
                           /\ \A high \in setting.high : value.value <= high
IsOption(setting, value) ==
  setting.type = "enum" => \E i \in DOMAIN setting.options : setting.options[i] = value.value

ValidOptions(value) ==
  /\ value.type = "table"
  /\ Len(value.items) \in 1..MaxItems
  /\ \A i \in DOMAIN value.items : IsText(value.items[i]) /\ value.items[i].value # ""
  /\ \A i, j \in DOMAIN value.items : value.items[i] = value.items[j] => i = j
OptionsOf(setting) ==
  IF TextOf(setting, "type") # "enum" THEN <<>>
  ELSE LET items == Field(setting, "options").items IN [i \in DOMAIN items |-> items[i].value]

SettingOf(setting) ==
  [title |-> TextOf(setting, "title"), type |-> TextOf(setting, "type"),
   options |-> OptionsOf(setting),
   low |-> NumberOf(setting, "minimum"), high |-> NumberOf(setting, "maximum"),
   default |-> Canonical(Field(setting, "default"), TextOf(setting, "type"))]

ValidSetting(id, setting) ==
  /\ ValidIdentifier(id)
  /\ setting.type = "table"
  /\ ValidTitle(Field(setting, "title"))
  /\ IsText(Field(setting, "type")) /\ TextOf(setting, "type") \in SettingTypes
  /\ OptionalNumber(setting, "minimum") /\ OptionalNumber(setting, "maximum")
  /\ \A low \in NumberOf(setting, "minimum"), high \in NumberOf(setting, "maximum") : low <= high
  /\ TextOf(setting, "type") = "enum" => ValidOptions(Field(setting, "options"))
  /\ HasCanonicalValue(Field(setting, "default"), TextOf(setting, "type"))
  /\ InRange(SettingOf(setting), SettingOf(setting).default)
  /\ IsOption(SettingOf(setting), SettingOf(setting).default)
ValidSettings(value) ==
  \/ value.type = "nil"
  \/ /\ value.type = "table" /\ value.items = <<>>
     /\ Cardinality(DOMAIN value.fields) <= MaxItems
     /\ \A id \in DOMAIN value.fields : ValidSetting(id, value.fields[id])
SettingsOf(value) ==
  [id \in (IF value.type = "nil" THEN {} ELSE DOMAIN value.fields) |-> SettingOf(value.fields[id])]

-----------------------------------------------------------------------------
(* The layout of the settings (ui), of API version 2.                       *)

Controls == {"auto", "switch", "checkbox", "slider", "number", "textbox", "select", "segmented"}

ControlFits(control, setting) ==
  CASE control \in {"switch", "checkbox"} -> setting.type = "boolean"
    [] control = "slider" -> Numeric(setting.type) /\ setting.low # {} /\ setting.high # {}
    [] control = "number" -> Numeric(setting.type)
    [] control = "textbox" -> setting.type = "string"
    [] control = "select" -> setting.type = "enum"
    [] control = "segmented" -> setting.type = "enum" /\ Len(setting.options) <= MaxSegments
    [] OTHER -> TRUE
StepFits(step, control, setting) ==
  step # {} => Numeric(setting.type) /\ control \in {"auto", "slider", "number"}

ConditionValueFits(setting, value) == InRange(setting, value) /\ IsOption(setting, value)

ValidCondition(value, item, settings) ==
  \/ value.type = "nil"
  \/ /\ value.type = "table" /\ KnownFields(value, {"setting", "equals"})
     /\ IsText(Field(value, "setting"))
     /\ LET controlling == TextOf(value, "setting")
        IN /\ ValidIdentifier(controlling)
           /\ controlling # item
           /\ controlling \in DOMAIN settings
           /\ HasCanonicalValue(Field(value, "equals"), settings[controlling].type)
           /\ ConditionValueFits(settings[controlling],
                Canonical(Field(value, "equals"), settings[controlling].type))
ConditionOf(value, settings) ==
  IF value.type = "nil" THEN {}
  ELSE {[setting |-> TextOf(value, "setting"),
         equals |-> Canonical(Field(value, "equals"), settings[TextOf(value, "setting")].type)]}

ControlOf(item) == IF Has(item, "control") THEN TextOf(item, "control") ELSE "auto"
ItemOf(item, settings) ==
  [setting |-> TextOf(item, "setting"), control |-> ControlOf(item),
   description |-> TextOf(item, "description"), unit |-> TextOf(item, "unit"),
   step |-> NumberOf(item, "step"), when |-> ConditionOf(Field(item, "visible_when"), settings)]
ValidItem(item, settings) ==
  /\ item.type = "table"
  /\ KnownFields(item, {"setting", "control", "description", "unit", "step", "visible_when"})
  /\ IsText(Field(item, "setting")) /\ TextOf(item, "setting") \in DOMAIN settings
  /\ Has(item, "control") => IsText(Field(item, "control"))
  /\ ControlOf(item) \in Controls
  /\ OptionalText(item, "description", MaxDescription) /\ OptionalText(item, "unit", MaxUnit)
  /\ OptionalNumber(item, "step") /\ \A step \in NumberOf(item, "step") : step > 0
  /\ ValidCondition(Field(item, "visible_when"), TextOf(item, "setting"), settings)
  /\ LET setting == settings[TextOf(item, "setting")]
     IN ControlFits(ControlOf(item), setting) /\ StepFits(NumberOf(item, "step"), ControlOf(item), setting)

ValidSection(section, settings) ==
  /\ section.type = "table"
  /\ KnownFields(section, {"id", "title", "description", "collapsible", "default_expanded", "columns", "items"})
  /\ IsText(Field(section, "id")) /\ ValidIdentifier(TextOf(section, "id"))
  /\ ValidTitle(Field(section, "title"))
  /\ OptionalText(section, "description", MaxDescription)
  /\ OptionalBoolean(section, "collapsible") /\ OptionalBoolean(section, "default_expanded")
  /\ OptionalInteger(section, "columns") /\ IntegerOf(section, "columns", 1) \in 1..2
  /\ Field(section, "items").type = "table" /\ IsSequence(Field(section, "items"))
  /\ Field(section, "items").items # <<>>
  /\ \A i \in DOMAIN Field(section, "items").items : ValidItem(Field(section, "items").items[i], settings)
SectionOf(section, settings) ==
  LET items == Field(section, "items").items
  IN [id |-> TextOf(section, "id"), title |-> TextOf(section, "title"),
      description |-> TextOf(section, "description"),
      collapsible |-> BooleanOf(section, "collapsible", FALSE),
      expanded |-> BooleanOf(section, "default_expanded", TRUE),
      columns |-> IntegerOf(section, "columns", 1),
      items |-> [i \in DOMAIN items |-> ItemOf(items[i], settings)]]

NoLayout == [layout |-> FALSE, sections |-> <<>>]
LayoutOf(value, settings) ==
  IF value.type = "nil" THEN NoLayout
  ELSE [layout |-> TRUE,
        sections |-> LET given == Field(value, "sections").items
                     IN [i \in DOMAIN given |-> SectionOf(given[i], settings)]]

(* The places of the items of a layout: <<section, item>>.                  *)
Places(sections) == UNION {{s} \X DOMAIN sections[s].items : s \in DOMAIN sections}
SettingAt(sections, place) == sections[place[1]].items[place[2]].setting
(* Every setting is shown once.                                              *)
ShowsEachOnce(sections, ids) ==
  /\ Cardinality(Places(sections)) <= MaxItems
  /\ \A p, q \in Places(sections) : SettingAt(sections, p) = SettingAt(sections, q) => p = q
  /\ {SettingAt(sections, p) : p \in Places(sections)} = ids
DistinctSections(sections) ==
  \A i, j \in DOMAIN sections : sections[i].id = sections[j].id => i = j

ValidLayout(value, api, settings) ==
  \/ value.type = "nil"
  \/ /\ api = "2"
     /\ value.type = "table" /\ KnownFields(value, {"sections"})
     /\ LET sections == Field(value, "sections")
        IN /\ sections.type = "table" /\ IsSequence(sections)
           /\ Len(sections.items) <= MaxSections
           /\ \A i \in DOMAIN sections.items : ValidSection(sections.items[i], settings)
           /\ DistinctSections(LayoutOf(value, settings).sections)
           /\ ShowsEachOnce(LayoutOf(value, settings).sections, DOMAIN settings)

-----------------------------------------------------------------------------
(* The whole descriptor.                                                    *)

ApiVersions == {"1", "2"}
ApiOf(descriptor) == IF Has(descriptor, "api_version") THEN TextOf(descriptor, "api_version") ELSE "1"
ValidApi(descriptor) ==
  /\ Has(descriptor, "api_version") => IsText(Field(descriptor, "api_version"))
  /\ ApiOf(descriptor) \in ApiVersions
ValidCallback(descriptor, name) == Field(descriptor, name).type \in {"nil", "function"}

DeclarationsOf(descriptor) ==
  LET settings == SettingsOf(Field(descriptor, "settings"))
  IN [api |-> ApiOf(descriptor), bindings |-> BindingsOf(Field(descriptor, "bindings")),
      settings |-> settings, layout |-> LayoutOf(Field(descriptor, "ui"), settings)]

ValidDescriptor(descriptor) ==
  /\ descriptor.type = "table"
  /\ KnownFields(descriptor, {"api_version", "bindings", "settings", "ui", "on_start", "on_input"})
  /\ ValidApi(descriptor)
  /\ ValidBindings(Field(descriptor, "bindings"))
  /\ ValidSettings(Field(descriptor, "settings"))
  /\ ValidLayout(Field(descriptor, "ui"), ApiOf(descriptor), SettingsOf(Field(descriptor, "settings")))
  /\ ValidCallback(descriptor, "on_start") /\ ValidCallback(descriptor, "on_input")

(* The stored values take the place of the defaults; one that does not fit  *)
(* its declaration refuses the script, one that has none is left out.       *)
PushableValue(value) ==
  value.type \in {"string", "enum"} => Bytes(value.value) <= MaxText
FitsDeclaration(value, setting) ==
  value.type = setting.type /\ InRange(setting, value) /\ IsOption(setting, value) /\ PushableValue(value)
MergeAccepts(descriptor, settings, values) ==
  Has(descriptor, "settings") =>
    /\ \A id \in DOMAIN values : ValidIdentifier(id)
    /\ \A id \in DOMAIN settings \cap DOMAIN values : FitsDeclaration(values[id], settings[id])
=============================================================================
