--------------------------- MODULE DocumentReview ---------------------------
(***************************************************************************)
(* How a document comes to be validated or reviewed: what the stages of    *)
(* services/ingestion compute, one document at a time.  The classifier     *)
(* looks at the file name, the extractor (libs/common/ai.py) asks Vertex   *)
(* or answers from a table, the rules engine (services/validation) judges  *)
(* what was extracted, and the pipeline routes the document.  Afterwards   *)
(* an operator may send the extracted values to the stateless checks of    *)
(* modules/awb, modules/aeca and modules/dg, which have rules of their own.*)
(*                                                                         *)
(* Module Ingestion has the concurrency of the pipeline and a              *)
(* nondeterministic doubt in place of these computations.  Confidences are *)
(* in thousandths; a value is what the rules can see of a string.          *)
(***************************************************************************)
EXTENDS Integers, FiniteSets, Functions

CONSTANTS
  Readings,   \* Readings[f]: values Vertex may read for the field named f
  Levels,     \* confidences Vertex may give, in thousandths
  MaxFields,  \* bound on the fields of one answer of Vertex
  NaN,        \* the float that is not a number
  None        \* NULL

ASSUME LevelAssumption ==
  /\ Levels \subseteq Int
  /\ NaN \notin Int
  /\ None \notin Int \cup {NaN}

(* What the rules see of a string: its make-up, its length and the number    *)
(* that float() makes of it, or None.  "dashed" is three digits, a dash and  *)
(* digits, "un" UN and digits, "roman" one of I, II and III, "iran" IR or    *)
(* ir, and "restricted" has a restricted keyword in it.                      *)
Shapes == {"digits", "dashed", "un", "roman", "iran", "restricted", "other"}

Values ==
  {v \in [shape : Shapes, length : Nat, number : Int \cup {NaN, None}] :
    /\ v.length = 0 => v.shape = "other" /\ v.number = None
    /\ v.shape \in {"dashed", "un", "roman", "iran", "restricted"} => v.number = None
    /\ v.shape = "digits" => v.number # NaN
    /\ v.shape = "dashed" => v.length > 4
    /\ v.shape = "un" => v.length > 2
    /\ v.shape = "roman" => v.length \in 1..3
    /\ v.shape = "iran" => v.length = 2
    /\ v.shape = "restricted" => v.length >= 10}

Str(shape, length) == [shape |-> shape, length |-> length, number |-> None]

Num(length, number) == [shape |-> "other", length |-> length, number |-> number]

Empty == Str("other", 0)

ASSUME ReadingAssumption == \A f \in DOMAIN Readings : Readings[f] \subseteq Values

VARIABLES
  settings,        \* the ai_backend and validation_rule_pack_id of the deployment
  stage,           \* the stage that ran last
  file,            \* what the classifier and the extractor see of the file name
  classification,  \* the DocumentClassification row
  entity,          \* entity[f]: the ExtractedEntity row of the field f
  average,         \* average_confidence
  passed,          \* passed[c]: the verdict of the ValidationResult row of rule c
  status,          \* the status of the document
  task,            \* the confidence of the ReviewTask row, or None
  issues           \* the endpoint asked last and what it found wrong, or None

vars == <<settings, stage, file, classification, entity, average, passed, status,
          task, issues>>

Packs == {"global-default", "australia-export", "dg-iata"}

Threshold == 800

Stages == {"received", "classified", "extracted", "validated", "routed"}

Unclassified == [doc_type |-> "none", confidence |-> 0]

Endpoints == {"awb", "aeca", "dg"}

Codes == {"awb.format", "shipment.weight", "compliance.hs_code", "aeca.destination",
          "aeca.restricted_destination", "dg.un_number", "dg.packing_group",
          "compliance.sanctions"}

Confidences == Int \cup {NaN}

Init ==
  /\ settings \in [ai_backend : {"mock", "gcp"}, rule_pack : Packs]
  /\ stage = "received"
  /\ file \in [name : {"awb", "invoice", "other"}, lowconf : BOOLEAN]
  /\ classification = Unclassified
  /\ entity = << >>
  /\ average = 0
  /\ passed = << >>
  /\ status = "received"
  /\ task = None
  /\ issues = None

(* Python's order on floats: nothing is less than NaN, nor NaN than anything.*)
Less(a, b) == a # NaN /\ b # NaN /\ a < b

-----------------------------------------------------------------------------
(* Classification and extraction. *)

ClassificationOf(name) ==
  CASE name = "awb" -> [doc_type |-> "awb", confidence |-> 940]
    [] name = "invoice" -> [doc_type |-> "fiar_invoice", confidence |-> 920]
    [] name = "other" -> [doc_type |-> "unclassified", confidence |-> 550]

Classify ==
  /\ stage = "received"
  /\ stage' = "classified"
  /\ classification' = ClassificationOf(file.name)
  /\ UNCHANGED <<settings, file, entity, average, passed, status, task, issues>>

(* The answer of the mock extractor: an air waybill, or else an invoice.     *)
MockAnswer(doc_type, lowconf) ==
  IF doc_type = "awb"
  THEN [fields |-> [awb_number |-> IF lowconf THEN Str("other", 11) ELSE Str("dashed", 12),
                    shipper |-> Str("other", 20),
                    consignee |-> Str("other", 22),
                    weight_kg |-> Num(7, 1200)],
        confidence |-> [awb_number |-> IF lowconf THEN 550 ELSE 950,
                        shipper |-> 940, consignee |-> 930, weight_kg |-> 920]]
  ELSE [fields |-> [invoice_number |-> Str("other", 7), amount |-> Num(7, 1000),
                    currency |-> Str("other", 3)],
        confidence |-> [invoice_number |-> 900, amount |-> 910, currency |-> 900]]

(* Any error of the OCR, of Vertex or of reading its answer (one without     *)
(* fields is an error): the mock's answer is taken in its place.             *)
AnswerOf(doc_type, lowconf, vertex) ==
  IF settings.ai_backend = "mock" \/ vertex = None
  THEN MockAnswer(doc_type, lowconf)
  ELSE vertex

(* The mean of the confidences the answer gives; the fields it gives none    *)
(* for are stored with 500 and do not count.                                 *)
Average(confidence) ==
  IF NaN \in Range(confidence) THEN NaN
  ELSE IF confidence = << >> THEN 0
  ELSE FoldFunction(+, 0, confidence) \div Cardinality(DOMAIN confidence)

Entities(answer) ==
  [f \in DOMAIN answer.fields |->
    [value |-> answer.fields[f],
     confidence |-> IF f \in DOMAIN answer.confidence THEN answer.confidence[f] ELSE 500]]

Extract(vertex) ==
  /\ stage = "classified"
  /\ stage' = "extracted"
  /\ LET answer == AnswerOf(classification.doc_type, file.lowconf, vertex)
     IN /\ entity' = Entities(answer)
        /\ average' = Average(answer.confidence)
  /\ UNCHANGED <<settings, file, classification, passed, status, task, issues>>

(* Vertex answers with some fields, and with confidences for some of them    *)
(* and for a name that is no field.                                          *)
ExtractAnswered ==
  /\ stage = "classified"
  /\ settings.ai_backend = "gcp"
  /\ \E names \in {S \in SUBSET DOMAIN Readings :
                      IsFiniteSet(S) /\ Cardinality(S) \in 1..MaxFields} :
       \E fields \in [names -> UNION {Readings[f] : f \in names}],
          scored \in SUBSET (names \cup {"remark"}) :
         /\ \A f \in names : fields[f] \in Readings[f]
         /\ \E confidence \in [scored -> Levels \cup {NaN}] :
              Extract([fields |-> fields, confidence |-> confidence])

-----------------------------------------------------------------------------
(* The rules engine. *)

Value(f) == IF f \in DOMAIN entity THEN entity[f].value ELSE Empty

(* The rules that have a result: some only for a type, a pack or a field.    *)
Applicable(doc_type, pack) ==
  {c \in Codes :
    \/ c = "awb.format" /\ doc_type = "awb"
    \/ c = "shipment.weight" /\ "weight_kg" \in DOMAIN entity
    \/ c = "compliance.hs_code" /\ Value("hs_code").length > 0
    \/ c = "aeca.destination" /\ pack = "australia-export"
    \/ /\ c = "aeca.restricted_destination"
       /\ pack = "australia-export"
       /\ Value("destination_country").shape = "iran"
    \/ c \in {"dg.un_number", "dg.packing_group"} /\ pack = "dg-iata"
    \/ c = "compliance.sanctions"}

\* Mutant: the engine takes any HS code of a right length.
PassesHsLength(c) ==
  LET awb == Value("awb_number")
      weight == Value("weight_kg").number
  IN \/ c = "awb.format" /\ awb.shape = "dashed" /\ awb.length = 12
     \/ c = "shipment.weight" /\ weight # None /\ Less(0, weight)
     \/ c = "compliance.hs_code" /\ Value("hs_code").length \in {6, 8, 10}
     \/ c = "aeca.destination" /\ Value("destination_country").length > 0
     \/ c = "dg.un_number" /\ Value("un_number").shape = "un"
     \/ c = "dg.packing_group" /\ Value("packing_group").shape = "roman"
     \/ c = "compliance.sanctions" /\ \A f \in DOMAIN entity : Value(f).shape # "restricted"

(* aeca.restricted_destination has a result only when it fails.              *)
Passes(c) ==
  LET awb == Value("awb_number")
      weight == Value("weight_kg").number
      hs == Value("hs_code")
  IN \/ c = "awb.format" /\ awb.shape = "dashed" /\ awb.length = 12
     \/ c = "shipment.weight" /\ weight # None /\ Less(0, weight)
     \/ c = "compliance.hs_code" /\ hs.shape = "digits" /\ hs.length \in {6, 8, 10}
     \/ c = "aeca.destination" /\ Value("destination_country").length > 0
     \/ c = "dg.un_number" /\ Value("un_number").shape = "un"
     \/ c = "dg.packing_group" /\ Value("packing_group").shape = "roman"
     \/ c = "compliance.sanctions" /\ \A f \in DOMAIN entity : Value(f).shape # "restricted"

Validate ==
  /\ stage = "extracted"
  /\ stage' = "validated"
  /\ passed' = [c \in Applicable(classification.doc_type, settings.rule_pack) |-> Passes(c)]
  /\ UNCHANGED <<settings, file, classification, entity, average, status, task, issues>>

-----------------------------------------------------------------------------
(* Routing. *)

\* Mutant: a confidence at the threshold is low, too.
LowOrEqual(confidence) == ~Less(Threshold, confidence)

Low(confidence) == Less(confidence, Threshold)

\* Mutant: the verdict of the rules replaces the one on the confidences.
ReviewAnew == \E c \in DOMAIN passed : ~passed[c]

ReviewRequired ==
  \/ Low(classification.confidence)
  \/ Low(average)
  \/ \E c \in DOMAIN passed : ~passed[c]

\* Mutant: the document gets the status of its task.
StatusOpen(review_required) == IF review_required THEN "open" ELSE "validated"

StatusOf(review_required) == IF review_required THEN "review_required" ELSE "validated"

\* Mutant: the arguments of min are swapped.
MinimumSwapped(a, b) == IF Less(a, b) THEN a ELSE b

(* min(a, b) of two floats, which is the first one when they are unordered.  *)
Minimum(a, b) == IF Less(b, a) THEN b ELSE a

Route ==
  /\ stage = "validated"
  /\ stage' = "routed"
  /\ status' = StatusOf(ReviewRequired)
  /\ task' = IF ReviewRequired THEN Minimum(classification.confidence, average) ELSE None
  /\ UNCHANGED <<settings, file, classification, entity, average, passed, issues>>

-----------------------------------------------------------------------------
(* The stateless checks, asked about the values of the document. *)

\* Mutant: the weight is tested the way the engine tests it.
AwbIssuesNotPositive ==
  {c \in {"awb.format"} : Value("awb_number").shape # "dashed" \/ Value("awb_number").length # 12}
    \cup {c \in {"shipment.weight"} : ~Less(0, Value("weight_kg").number)}

(* validate_awb takes the weight as a number and asks whether it is <= 0.    *)
AwbIssues ==
  LET awb == Value("awb_number")
      weight == Value("weight_kg").number
  IN {c \in {"awb.format"} : awb.shape # "dashed" \/ awb.length # 12}
       \cup {c \in {"shipment.weight"} : weight = 0 \/ Less(weight, 0)}

\* Mutant: a country code has two letters.
AecaIssuesTwoLetters ==
  {c \in {"compliance.hs_code"} :
     Value("hs_code").length \notin {6, 8, 10} \/ Value("hs_code").shape # "digits"}
    \cup {c \in {"aeca.destination"} : Value("destination_country").length # 2}

(* Any country code of two or three letters will do, IR too.                 *)
AecaIssues ==
  LET hs == Value("hs_code")
  IN {c \in {"compliance.hs_code"} : hs.length \notin {6, 8, 10} \/ hs.shape # "digits"}
       \cup {c \in {"aeca.destination"} : Value("destination_country").length \notin {2, 3}}

DgIssues ==
  {c \in {"dg.un_number"} : Value("un_number").shape # "un"}
    \cup {c \in {"dg.packing_group"} : Value("packing_group").shape # "roman"}

Ask(endpoint) ==
  /\ stage = "routed"
  /\ endpoint = "awb" => Value("weight_kg").number # None
  /\ issues' = [endpoint |-> endpoint,
                found |-> CASE endpoint = "awb" -> AwbIssues
                            [] endpoint = "aeca" -> AecaIssues
                            [] endpoint = "dg" -> DgIssues]
  /\ UNCHANGED <<settings, stage, file, classification, entity, average, passed, status, task>>

Next ==
  \/ Classify
  \/ Extract(None)
  \/ ExtractAnswered
  \/ Validate
  \/ Route
  \/ \E endpoint \in Endpoints : Ask(endpoint)

Spec == Init /\ [][Next]_vars

-----------------------------------------------------------------------------
TypeOK ==
  /\ settings \in [ai_backend : {"mock", "gcp"}, rule_pack : Packs]
  /\ stage \in Stages
  /\ file \in [name : {"awb", "invoice", "other"}, lowconf : BOOLEAN]
  /\ classification \in
       [doc_type : {"awb", "fiar_invoice", "unclassified"}, confidence : Int] \cup {Unclassified}
  /\ \A f \in DOMAIN entity : entity[f] \in [value : Values, confidence : Confidences]
  /\ average \in Confidences
  /\ DOMAIN passed \subseteq Codes
  /\ \A c \in DOMAIN passed : passed[c] \in BOOLEAN
  /\ status \in {"received", "validated", "review_required"}
  /\ task \in Confidences \cup {None}
  /\ issues \in [endpoint : Endpoints, found : SUBSET Codes] \cup {None}

(* A document that passes without a human was recognised, its extraction was *)
(* on average not below the threshold (a NaN is below no threshold), and     *)
(* none of its values is restricted or fails the format its type and the     *)
(* rule pack of the deployment ask for.                                      *)
ValidatedIsSound ==
  status = "validated" =>
    /\ file.name # "other"
    /\ ~Less(average, Threshold)
    /\ \A f \in DOMAIN entity :
         LET v == entity[f].value
         IN /\ v.shape # "restricted"
            /\ f = "weight_kg" => v.number \in Int /\ v.number > 0
            /\ f = "hs_code" =>
                 v = Empty \/ (v.shape = "digits" /\ v.length \in {6, 8, 10})
    /\ file.name = "awb" => Value("awb_number") = Str("dashed", 12)
    /\ settings.rule_pack = "australia-export" =>
         Value("destination_country") # Empty /\ Value("destination_country").shape # "iran"
    /\ settings.rule_pack = "dg-iata" =>
         Value("un_number").shape = "un" /\ Value("packing_group").shape = "roman"

(* No reviewer is asked without a reason in the rows: a task has a           *)
(* confidence below the threshold or a rule of its document failed, and a    *)
(* document has a task exactly when its status says so.                      *)
ReviewHasReason ==
  /\ task # None <=> status = "review_required"
  /\ task # None => Less(task, Threshold) \/ \E c \in DOMAIN passed : ~passed[c]

(* The rules of the engine about what an endpoint checks.                    *)
EngineRules(endpoint) ==
  CASE endpoint = "awb" -> {"awb.format", "shipment.weight"}
    [] endpoint = "aeca" ->
         {"compliance.hs_code", "aeca.destination", "aeca.restricted_destination"}
    [] endpoint = "dg" -> {"dg.un_number", "dg.packing_group"}

(* Where the two copies of a rule say different things about a value.        *)
KnownDivergence(c) ==
  \/ c = "shipment.weight" /\ Value("weight_kg").number = NaN
  \/ c = "aeca.destination" /\ Value("destination_country").length \notin {0, 2, 3}
  \/ c = "aeca.restricted_destination"

(* The engine and the modules have rules of their own for the same fields.   *)
(* An endpoint that is asked about the values of a document says of each     *)
(* rule the engine had a result for what the engine said, but in three cases *)
(* and in these always: a NaN weight, which is not <= 0 and passes the awb   *)
(* endpoint; a country whose length is not 0, 2 or 3, which only the aeca    *)
(* endpoint refuses; and IR, which only the engine refuses.                  *)
CopiesDifferOnlyThere ==
  issues # None =>
    \A c \in EngineRules(issues.endpoint) \cap DOMAIN passed :
      (passed[c] <=> c \notin issues.found) <=> ~KnownDivergence(c)

=============================================================================
