-------------------------------- MODULE Config --------------------------------
(***************************************************************************)
(* From the configuration files and the extensions that are installed to   *)
(* what the server starts with.  A text is Blank, a number, a word, a list *)
(* of texts (with commas or newlines) or a pair of them; the letters, and  *)
(* their escapes, are left out.                                            *)
(***************************************************************************)
EXTENDS Values, SeqOps, SequencesExt

CONSTANTS
    AppSchemas, Defaults,   \* schemas and default configuration of Mopidy itself
    Extensions,             \* schema and default configuration of those installed
    Resolvable              \* hostnames that can be resolved

-----------------------------------------------------------------------------
(* Types of values. *)

\* ValueError
Invalid == [form |-> "invalid"]

Type(kind, optional) == [kind |-> kind, optional |-> optional]

Boolean(optional) == Type("boolean", optional)
Integer(optional, minimum, maximum, choices) ==
    [kind |-> "integer", optional |-> optional, minimum |-> minimum, maximum |-> maximum,
     choices |-> choices]
Port(optional) == Integer(optional, 0, 65535, None)
String(optional, choices) == [kind |-> "string", optional |-> optional, choices |-> choices]
Secret(optional) == [kind |-> "secret", optional |-> optional, choices |-> None]
Hostname(optional) == Type("hostname", optional)
Path(optional) == Type("path", optional)
LogLevel == Type("loglevel", FALSE)
Deprecated == Type("deprecated", TRUE)
PairOf(optional, optionalPair, subtypes) ==
    [kind |-> "pair", optional |-> optional, optionalPair |-> optionalPair,
     subtypes |-> subtypes]
ListOf(optional, unique, subtype) ==
    [kind |-> "list", optional |-> optional, unique |-> unique, subtype |-> subtype]

IsChoice(value, choices) == choices = None \/ value \in choices

TrueTexts == {Number(1)} \union {Word(w) : w \in {"yes", "true", "on"}}
FalseTexts == {Number(0)} \union {Word(w) : w \in {"no", "false", "off"}}

LogLevels ==
    {Word(w) : w \in {"critical", "error", "warning", "info", "debug", "trace", "all"}}

ToBoolean(text) ==
    CASE text \in TrueTexts -> Bool(TRUE) [] text \in FalseTexts -> Bool(FALSE)
      [] OTHER -> Invalid

InRange(n, type) ==
    /\ type.minimum # None => n >= type.minimum
    /\ type.maximum # None => n <= type.maximum

ToInteger(type, text) ==
    IF /\ text.form = "number" /\ IsChoice(text, type.choices)
       /\ InRange(text.number, type)
    THEN text ELSE Invalid

\* A unix socket is a pair of "unix" and its path.
ToHostname(text) ==
    IF (text.form = "pair" /\ text.first = Word("unix")) \/ text \in Resolvable
    THEN text ELSE Invalid

\* deserialize() of the types that have no subtypes.
ToScalar(type, text) ==
    IF type.kind = "deprecated" THEN Blank
    ELSE IF type.kind = "loglevel" THEN IF text \in LogLevels THEN text ELSE Invalid
    ELSE IF text = Blank THEN IF type.optional THEN None ELSE Invalid
    ELSE CASE type.kind = "boolean" -> ToBoolean(text)
           [] type.kind = "integer" -> ToInteger(type, text)
           [] type.kind = "hostname" -> ToHostname(text)
           [] type.kind = "path" -> text
           [] OTHER -> IF IsChoice(text, type.choices) THEN text ELSE Invalid

ToPair(type, text) ==
    LET values == IF text.form = "pair"
                  THEN <<ToScalar(type.subtypes[1], text.first),
                         ToScalar(type.subtypes[2], text.second)>>
                  ELSE <<ToScalar(type.subtypes[1], text), ToScalar(type.subtypes[2], text)>>
    IN  IF text = Blank THEN IF type.optional THEN None ELSE Invalid
        ELSE IF \/ text.form # "pair" /\ ~type.optionalPair
                \/ \E i \in 1 .. 2 : values[i] = Invalid
        THEN Invalid ELSE Pair(values[1], values[2])

ToElement(type, text) == IF type.kind = "pair" THEN ToPair(type, text) ELSE ToScalar(type, text)

\* Blank items are dropped.
Items(text) ==
    IF text.form = "list" THEN SelectSeq(text.items, LAMBDA item : item # Blank)
    ELSE IF text = Blank THEN << >> ELSE <<text>>

ToList(type, text) ==
    LET items == Items(text)
        values == [i \in 1 .. Len(items) |-> ToElement(type.subtype, items[i])]
    IN  IF (items = << >> /\ ~type.optional) \/ \E i \in DOMAIN values : values[i] = Invalid
        THEN Invalid
        ELSE List(IF type.unique THEN SetToSeq(ToSet(values)) ELSE values)

Deserialize(type, text) ==
    IF type.kind = "list" THEN ToList(type, text) ELSE ToElement(type, text)

\* serialize(), to be saved, or with secrets masked.  An unset boolean is false.
FromScalar(type, value, display) ==
    IF type.kind = "boolean" THEN Word(IF value = Bool(TRUE) THEN "true" ELSE "false")
    ELSE IF value = None THEN Blank
    ELSE IF type.kind = "secret" /\ display THEN Word("********") ELSE value

FromPair(type, value, display) ==
    LET first == FromScalar(type.subtypes[1], value.first, display)
        second == FromScalar(type.subtypes[2], value.second, display)
    IN  IF ~display /\ type.optionalPair /\ first = second THEN first ELSE Pair(first, second)

FromElement(type, value, display) ==
    IF type.kind = "pair" THEN FromPair(type, value, display)
    ELSE FromScalar(type, value, display)

\* Mistake: of a list only one item is kept.
SerializeFirst(type, value, display) ==
    IF type.kind = "list"
    THEN IF value.items = << >> THEN Blank
         ELSE FromElement(type.subtype, value.items[1], display)
    ELSE FromElement(type, value, display)

Serialize(type, value, display) ==
    IF type.kind # "list" THEN FromElement(type, value, display)
    ELSE IF value.items = << >> THEN Blank
    ELSE List([i \in 1 .. Len(value.items) |->
                  FromElement(type.subtype, value.items[i], display)])

-----------------------------------------------------------------------------
(* Schemas.  A schema has the types of its keys, or one type for any key.   *)

Schema(types) == [map |-> FALSE, types |-> types]
MapSchema(type) == [map |-> TRUE, types |-> [any |-> type]]

TypeOf(schema, key) == IF schema.map THEN schema.types.any ELSE schema.types[key]

Keys(schema, values) == IF schema.map THEN DOMAIN values ELSE DOMAIN schema.types

IsDeprecated(schema, key) == TypeOf(schema, key).kind = "deprecated"

\* The keys that are unknown, missing, or have an invalid value.
KeyErrors(schema, values) ==
    (DOMAIN values \ Keys(schema, values))
        \union {key \in Keys(schema, values) :
                   IF key \in DOMAIN values
                   THEN Deserialize(TypeOf(schema, key), values[key]) = Invalid
                   ELSE ~IsDeprecated(schema, key)}

\* A key that has no valid value is None.
Validated(schema, values) ==
    [key \in {k \in Keys(schema, values) : ~IsDeprecated(schema, k)} |->
        IF key \in KeyErrors(schema, values) THEN None
        ELSE Deserialize(TypeOf(schema, key), values[key])]

Serialized(schema, config, display) ==
    [key \in DOMAIN config |-> Serialize(TypeOf(schema, key), config[key], display)]

-----------------------------------------------------------------------------
(* Extensions.  `flaws` has for each the flaw that shows when it is loaded, *)
(* or when its environment is looked at, or "none".                         *)

LoadFlaws == {"entry_point", "instance", "ext_name", "schema", "enabled", "defaults", "command"}

Flaws == LoadFlaws \union {"environment", "none"}

\* An extension has a section of its own, with a key that enables it.
ASSUME ExtensionsAssumption ==
    /\ DOMAIN Extensions \intersect (DOMAIN AppSchemas \union DOMAIN Defaults) = {}
    /\ \A e \in DOMAIN Extensions :
          LET schema == Extensions[e].schema
          IN  /\ ~schema.map /\ "enabled" \in DOMAIN schema.types
              /\ schema.types["enabled"].kind = "boolean"

Loaded(flaws) == {e \in DOMAIN Extensions : flaws[e] \notin LoadFlaws}

\* The configuration of section s: later sources have higher precedence, and a
\* file that cannot be read, or has no sections, is skipped.
Sources(flaws, files, overrides) ==
    <<Defaults, [e \in Loaded(flaws) |-> Extensions[e].defaults]>>
        \o Chosen(files, ToSet(files) \ {None})
        \o (IF overrides = None THEN << >> ELSE <<overrides>>)

LastWith(sources, s, key) ==
    CHOOSE i \in 1 .. Len(sources) :
        /\ s \in DOMAIN sources[i] /\ key \in DOMAIN sources[i][s]
        /\ \A j \in i + 1 .. Len(sources) :
              s \in DOMAIN sources[j] => key \notin DOMAIN sources[j][s]

RawSection(sources, s) ==
    [key \in UNION {IF s \in DOMAIN sources[i] THEN DOMAIN sources[i][s] ELSE {}
                       : i \in 1 .. Len(sources)} |->
        sources[LastWith(sources, s, key)][s][key]]

\* All schemas, of Mopidy itself and of extensions.
Schemas(flaws) ==
    [s \in DOMAIN AppSchemas \union Loaded(flaws) |->
        IF s \in DOMAIN AppSchemas THEN AppSchemas[s] ELSE Extensions[s].schema]

\* Sections of extensions that are not loaded have no schema, and are skipped.
Validate(schemas, sources) ==
    [s \in DOMAIN schemas |-> Validated(schemas[s], RawSection(sources, s))]

Errors(schemas, sources) ==
    [s \in DOMAIN schemas |-> KeyErrors(schemas[s], RawSection(sources, s))]

\* Mistake: errors of an extension do not matter if it is enabled.
StatusDespiteErrors(flaw, config, errors) ==
    IF config["enabled"] # Bool(TRUE) THEN "disabled"
    ELSE IF flaw = "environment" THEN "stopped_by_self_check" ELSE "enabled"

\* check_config_and_env: `enabled` that is not valid is None, which is not true.
Status(flaw, config, errors) ==
    IF config["enabled"] # Bool(TRUE) THEN "disabled"
    ELSE IF errors # {} THEN "stopped_by_config_error"
    ELSE IF flaw = "environment" THEN "stopped_by_self_check" ELSE "enabled"

ExtensionStatuses(flaws, config, errors) ==
    [e \in DOMAIN Extensions |->
        IF e \in Loaded(flaws) THEN Status(flaws[e], config[e], errors[e])
        ELSE "stopped_by_load_error"]

Enabled(statuses) == {e \in DOMAIN statuses : statuses[e] = "enabled"}

\* disable_extension
Disable(config, statuses) ==
    [s \in DOMAIN config |->
        IF s \in DOMAIN statuses \ Enabled(statuses)
        THEN [config[s] EXCEPT !["enabled"] = Bool(FALSE)]
        ELSE config[s]]

\* Whether the process exits before any command: nothing is enabled, or a
\* section of Mopidy itself has errors.
Exits(statuses, errors) ==
    \/ Enabled(statuses) = {}
    \/ \E s \in DOMAIN AppSchemas : errors[s] # {}
=============================================================================
