------------------------- MODULE DocumentValidation -------------------------
(***************************************************************************)
(* The validator of the user interface (ConfigurationValidation.cs), for    *)
(* scripts and switches.  It is a second implementation, in C#, of rules    *)
(* the Host checks in ScriptDeclarations, ScriptCandidate and InputPlan, on *)
(* the stored document instead of the Lua table; where the two state the    *)
(* same rule of two settings (a control, a step, a condition) the operator  *)
(* is shared, and where they differ it is not: this one counts characters,  *)
(* not bytes, refuses blank texts, and asks of no key whether RegisterHotKey *)
(* takes it.                                                                *)
(***************************************************************************)
EXTENDS InputPlan

CONSTANTS Chars(_),             \* length of a text in UTF-16
          Blank,                \* texts of white space only
          MaxScripts            \* MaxScriptsPerTarget

UiTitle(text) == text \notin Blank \cup {""} /\ Chars(text) <= MaxTitle
UiKey(key) == key # NoKeyJson => ParsesKey(key) /\ ValidKey(ParseKey(key))
UiBinding(id, binding) ==
  ValidIdentifier(id) /\ UiTitle(binding.title) /\ (binding.pressed \/ binding.released) /\ UiKey(binding.key)

UiValue(setting) ==
  /\ setting.value.type = setting.type
  /\ setting.type \in {"string", "enum"} => Chars(setting.value.value) <= MaxText
  /\ InRange(setting, setting.value) /\ IsOption(setting, setting.value)
UiSetting(id, setting) ==
  /\ ValidIdentifier(id) /\ UiTitle(setting.title) /\ setting.type \in SettingTypes
  /\ \A low \in setting.low, high \in setting.high : low <= high
  /\ setting.type = "string" => setting.options = <<>>
  /\ setting.type = "enum" =>
       /\ Len(setting.options) \in 1..MaxItems
       /\ \A i \in DOMAIN setting.options : setting.options[i] \notin Blank \cup {""}
       /\ \A i, j \in DOMAIN setting.options : setting.options[i] = setting.options[j] => i = j
  /\ UiValue(setting)

UiItem(item, settings) ==
  /\ item.setting \in DOMAIN settings /\ item.control \in Controls
  /\ Chars(item.description) <= MaxDescription /\ Chars(item.unit) <= MaxUnit
  /\ ControlFits(item.control, settings[item.setting])
  /\ StepFits(item.step, item.control, settings[item.setting]) /\ \A step \in item.step : step > 0
  /\ \A when \in item.when :
       /\ when.setting # item.setting /\ when.setting \in DOMAIN settings
       /\ ConditionValueFits(settings[when.setting], when.equals)
UiSection(section, settings) ==
  /\ ValidIdentifier(section.id) /\ UiTitle(section.title) /\ Chars(section.description) <= MaxDescription
  /\ section.columns \in 1..2 /\ section.items # <<>>
  /\ \A i \in DOMAIN section.items : UiItem(section.items[i], settings)
UiLayout(script) ==
  script.layout # NoLayout =>
    LET sections == script.layout.sections
    IN /\ script.api = "2" /\ Len(sections) <= MaxSections
       /\ \A i \in DOMAIN sections : UiSection(sections[i], script.settings)
       /\ DistinctSections(sections)
       /\ ShowsEachOnce(sections, DOMAIN script.settings)

(* A script, enabled or not.                                                *)
UiScript(script) ==
  /\ script.api \in ApiVersions
  /\ Cardinality(DOMAIN script.bindings) <= MaxItems
  /\ \A id \in DOMAIN script.bindings : UiBinding(id, script.bindings[id])
  /\ \A a, b \in Bound(script) : script.bindings[a].key = script.bindings[b].key => a = b
  /\ Cardinality(DOMAIN script.settings) <= MaxItems
  /\ \A id \in DOMAIN script.settings : UiSetting(id, script.settings[id])
  /\ UiLayout(script)
UiStack(stack) ==
  /\ Len(stack) <= MaxScripts
  /\ \A i, j \in DOMAIN stack : stack[i].id = stack[j].id => i = j
  /\ \A i \in DOMAIN stack : UiScript(stack[i])

UiSwitch(binding) == FieldsFit(SwitchBinding(binding)) /\ \A field \in KeyFields : UiKey(binding.keys[field])

(* ValidateActiveInputConflicts: the keys of the active profile's switches, *)
(* whatever its control mode, and of the scripts that are active with it.   *)
NoActiveConflict(scripts, lua, switches, active) ==
  NoKeyTwice(SwitchActions(switches[active]), CandidateInputs(scripts, active, lua[active]))

UiAccepts(scripts, lua, switches, active) ==
  /\ \A target \in Targets : UiStack(scripts[target])
  /\ \A profile \in Profiles :
       /\ lua[profile] => EnabledIn(scripts[profile]) # {}
       /\ \A switch \in DOMAIN switches[profile] : UiSwitch(switches[profile][switch])
       /\ NoKeyTwice(SwitchActions(switches[profile]), {})
  /\ NoActiveConflict(scripts, lua, switches, active)
=============================================================================
