--------------------- MODULE ExecuteWorkflowTriggerNode ---------------------
(***************************************************************************)
(* The Execute Workflow Trigger node                                       *)
(* (nodes/ExecuteWorkflowTrigger/ExecuteWorkflowTrigger.node.ts): how     *)
(* execute() finds the workflow's input fields (from the fields list, a    *)
(* JSON schema or a JSON example) and the loop that builds each output     *)
(* item from the caller's item.  Field values are abstracted to how they   *)
(* stand to the declared type; error messages to which error was thrown.   *)
(***************************************************************************)
EXTENDS Integers, Sequences
LOCAL INSTANCE SequencesExt

CONSTANTS
  NumItems,    \* items the calling workflow passes
  Names,       \* field names
  FieldTypes,  \* the TYPE_OPTIONS values enumerated
  MaxEntries   \* fields a list, schema or example declares at most

Items == 1..NumItems

ASSUME FieldTypes \subseteq {"any", "string", "number", "boolean", "array", "object"}

\* The values of the 'inputSource' options, and the constants execute() tests.
InputSources == {"workflowInputs", "jsonExample", "jsonSchema"}
FIELDS == "fields"

\* SUPPORTED_TYPES: the TYPE_OPTIONS values.
SupportedTypes == {"any", "string", "number", "boolean", "array", "object"}

(* What a JSON schema property's value can be, for parseJsonSchema: not an *)
(* object, type null, an array of types, a non-string type, a string type  *)
(* outside SUPPORTED_TYPES, or a supported type.                           *)
SchemaValues == {"notObject", "null", "typeArray", "notString", "unsupported"}
                  \cup FieldTypes

\* JSON values of an example's properties.
JsonKinds == {"null", "string", "number", "boolean", "object", "array"}

DistinctNames(ps) == \A k, l \in DOMAIN ps : ps[k].name = ps[l].name => k = l

\* The parameter values each source reads (jsonParse input abstracted).
FieldsInputs == BoundedSeq([name : Names, type : FieldTypes], MaxEntries)
SchemaInputs ==
  {[kind |-> k, props |-> <<>>] : k \in {"malformed", "noProperties", "propertiesNotObject"}}
  \cup {[kind |-> "object", props |-> ps] :
          ps \in {s \in BoundedSeq([name : Names, v : SchemaValues], MaxEntries) :
                    DistinctNames(s)}}
ExampleInputs ==
  {[kind |-> k, props |-> <<>>] : k \in {"malformed", "notObject"}}
  \cup {[kind |-> "object", props |-> ps] :
          ps \in {s \in BoundedSeq([name : Names, v : JsonKinds], MaxEntries) :
                    DistinctNames(s)}}

\* getFieldEntries' result: the entries, or the error it throws.
Entries(es) == [ok |-> TRUE, entries |-> es, error |-> "none"]
Failed(e)   == [ok |-> FALSE, entries |-> <<>>, error |-> e]

(* parseJsonSchema's loop over the properties: any invalid property makes *)
(* the whole result an error string; type null becomes 'any'.             *)
RECURSIVE ParseProperties(_)
ParseProperties(ps) ==
  IF ps = <<>> THEN Entries(<<>>)
  ELSE LET p    == Head(ps)
           rest == ParseProperties(Tail(ps))
       IN IF p.v \in {"notObject", "typeArray", "notString", "unsupported"}
             \/ ~rest.ok
          THEN Failed("schema")
          ELSE Entries(<<[name |-> p.name,
                          type |-> IF p.v = "null" THEN "any" ELSE p.v]>>
                       \o rest.entries)

\* parseJsonSchema(schema).
ParseJsonSchema(s) ==
  IF s.kind = "object" THEN ParseProperties(s.props) ELSE Failed("schema")

(* generate-schema's json(): an object's properties typed by their JSON    *)
(* values (null stays null); anything else has no properties.             *)
GenerateSchema(ex) ==
  [kind  |-> IF ex.kind = "object" THEN "object" ELSE "noProperties",
   props |-> ex.props]

(* getFieldEntries: the branch for inputSource, inside a try that turns a *)
(* jsonParse throw into the error; the default result is 'Internal Error: *)
(* Invalid input source'.                                                  *)
GetFieldEntries(src, fi, si, ei) ==
  CASE src = FIELDS        -> Entries(fi)
    [] src = "jsonSchema"  -> IF si.kind = "malformed" THEN Failed("parse")
                              ELSE ParseJsonSchema(si)
    [] src = "jsonExample" -> IF ei.kind = "malformed" THEN Failed("parse")
                              ELSE ParseJsonSchema(GenerateSchema(ei))
    [] OTHER               -> Failed("invalidSource")

(* How a caller's value stands to a declared type: absent, of the type,   *)
(* of the type only after conversion, or of another type.                 *)
ValueKinds == {"absent", "typed", "convertible", "mismatched"}

\* The options of one item (each read with fallback false).
Options == [convert : BOOLEAN, ignore : BOOLEAN, binary : BOOLEAN]

(* One field of newItem.json: the placeholder null for an absent field,   *)
(* the (converted) value when validateFieldType accepts it (strict unless *)
(* attemptToConvertTypes), the raw value with ignoreTypeErrors, a throw   *)
(* otherwise.                                                              *)
FieldOutcome(type, v, opts) ==
  CASE v = "absent"                                              -> "null"
    [] type = "any" \/ v = "typed" \/ (v = "convertible" /\ opts.convert) -> "typed"
    [] opts.ignore                                               -> "raw"
    [] OTHER                                                     -> "throw"

(* The loop over newParams: a later entry of the same name overwrites an  *)
(* earlier one; the first rejected value throws.                          *)
RECURSIVE BuildJson(_, _, _, _)
BuildJson(ps, value, opts, json) ==
  IF ps = <<>> THEN [threw |-> FALSE, json |-> json]
  ELSE LET n == Head(ps).name
           o == FieldOutcome(Head(ps).type, value[n], opts)
       IN IF o = "throw" THEN [threw |-> TRUE, json |-> json]
          ELSE BuildJson(Tail(ps), value, opts, [json EXCEPT ![n] = o])

NoJson == [n \in Names |-> "missing"]

VARIABLES
  version,        \* the node's typeVersion: "1" or "1.1"
  source,         \* the 'inputSource' parameter
  fieldEntries,   \* what getFieldEntries returns or throws (index-0 parameters)
  continueOnFail, \* the node's "Continue On Fail" setting
  next,           \* the item loop's itemIndex
  output,         \* the items pushed
  dropped,        \* items whose processing failed under continueOnFail
  status,         \* "start", "running", "passedThrough", "returned", "threw"
  thrown          \* the error execute() threw: "none", "invalidSource", "parse", "schema", "item"

vars == <<version, source, fieldEntries, continueOnFail, next, output, dropped,
          status, thrown>>

Init ==
  /\ version \in {"1", "1.1"} /\ source \in InputSources
  /\ fieldEntries \in {GetFieldEntries(source, fi, si, ei) :
                        fi \in FieldsInputs, si \in SchemaInputs, ei \in ExampleInputs}
  /\ continueOnFail \in BOOLEAN
  /\ next = 1 /\ output = <<>> /\ dropped = {}
  /\ status = "start" /\ thrown = "none"

(* execute() up to the loop: version 1 returns the input; otherwise        *)
(* hasFields calls getFieldEntries outside any try (its error escapes),   *)
(* and no fields return the input too.                                     *)
Start ==
  /\ status = "start"
  /\ UNCHANGED <<version, source, fieldEntries, continueOnFail, next, output, dropped>>
  /\ \/ version = "1" /\ status' = "passedThrough" /\ UNCHANGED thrown
     \/ version = "1.1" /\ ~fieldEntries.ok
        /\ status' = "threw" /\ thrown' = fieldEntries.error
     \/ version = "1.1" /\ fieldEntries.ok
        /\ status' = (IF fieldEntries.entries = <<>> THEN "passedThrough" ELSE "running")
        /\ UNCHANGED thrown

(* One item: its options, getFieldEntries again (same index-0 result),    *)
(* the json built from the caller's values, then the push (with the        *)
(* item's binary data when includeBinaryData).  A rejected value: with    *)
(* continueOnFail the catch does nothing, otherwise it rethrows.          *)
ProcessItem ==
  /\ status = "running" /\ next \in Items
  /\ next' = next + 1
  /\ UNCHANGED <<version, source, fieldEntries, continueOnFail>>
  /\ \E value \in [Names -> ValueKinds], opts \in Options :
       LET r == BuildJson(fieldEntries.entries, value, opts, NoJson) IN
       \/ ~r.threw /\ UNCHANGED <<dropped, status, thrown>>
          /\ output' = Append(output, [item |-> next, json |-> r.json,
                                       binary |-> opts.binary])
       \/ r.threw /\ continueOnFail /\ dropped' = dropped \cup {next}
          /\ UNCHANGED <<output, status, thrown>>
       \/ r.threw /\ ~continueOnFail /\ status' = "threw" /\ thrown' = "item"
          /\ UNCHANGED <<output, dropped>>

\* After the loop: return [items].
Return ==
  /\ status = "running" /\ next = NumItems + 1
  /\ status' = "returned"
  /\ UNCHANGED <<version, source, fieldEntries, continueOnFail, next, output,
                 dropped, thrown>>

\* execute() has returned or thrown.
Done == status \in {"passedThrough", "returned", "threw"} /\ UNCHANGED vars

Next == Start \/ ProcessItem \/ Return \/ Done

Spec == Init /\ [][Next]_vars

-----------------------------------------------------------------------------
(* Properties.                                                             *)

TypeOK ==
  /\ version \in {"1", "1.1"} /\ source \in InputSources
  /\ continueOnFail \in BOOLEAN /\ next \in 1..(NumItems + 1)
  /\ output \in Seq([item : Items, json : [Names -> {"missing", "null", "typed", "raw"}],
                     binary : BOOLEAN])
  /\ dropped \subseteq Items
  /\ status \in {"start", "running", "passedThrough", "returned", "threw"}
  /\ thrown \in {"none", "invalidSource", "parse", "schema", "item"}

(* Every input source the description offers is one execute() knows: the *)
(* node never fails with 'Internal Error: Invalid input source' (the      *)
(* description says the fields below define the inputs, and that without *)
(* fields the caller's data passes through).                              *)
InputSourceRecognized == thrown # "invalidSource"

(* With continueOnFail, every item the caller passed reaches the output:  *)
(* execute() returns the item or an error for it, never nothing.          *)
ItemsAccountedFor ==
  status = "returned" =>
    \A i \in Items : \E k \in 1..Len(output) : output[k].item = i

=============================================================================
