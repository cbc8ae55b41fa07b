------------------------ MODULE DocumentReviewProofs ------------------------
(***************************************************************************)
(* What module DocumentReview promises of a validated document, and where  *)
(* the two copies of the rules differ, for every answer of Vertex: any     *)
(* fields, values and confidences, and any number of them.                 *)
(*                                                                         *)
(* The stages run once each, so the inductive invariant says of every row  *)
(* what the stage that wrote it computed it from.  The average is a sum    *)
(* over the confidences of an answer; its type, and with it the type       *)
(* invariant, needs that such a sum exists and is an integer.              *)
(***************************************************************************)
EXTENDS DocumentReview, FiniteSetTheorems, WellFoundedInduction, TLAPS

IssuesFound(endpoint) ==
  CASE endpoint = "awb" -> AwbIssues
    [] endpoint = "aeca" -> AecaIssues
    [] endpoint = "dg" -> DgIssues

(* The settings and the file are what Init chose, and each stage's rows are  *)
(* what it made of the rows before it.                                       *)
RowsInv ==
  /\ settings \in [ai_backend : {"mock", "gcp"}, rule_pack : Packs]
  /\ file \in [name : {"awb", "invoice", "other"}, lowconf : BOOLEAN]
  /\ stage \in Stages
  /\ stage # "received" => classification = ClassificationOf(file.name)
  /\ stage \in {"validated", "routed"} =>
       passed = [c \in Applicable(classification.doc_type, settings.rule_pack) |-> Passes(c)]
  /\ status = IF stage = "routed" THEN StatusOf(ReviewRequired) ELSE "received"
  /\ task = IF stage = "routed" /\ ReviewRequired
            THEN Minimum(classification.confidence, average)
            ELSE None

(* An endpoint was asked about the rows of a routed document.                *)
AskedInv ==
  issues # None =>
    /\ stage = "routed"
    /\ issues.endpoint \in Endpoints
    /\ issues.found = IssuesFound(issues.endpoint)
    /\ issues.endpoint = "awb" => Value("weight_kg").number # None

Inv == RowsInv /\ AskedInv

LEMMA InitInv == Init => Inv
BY DEF Init, Inv, RowsInv, AskedInv, Stages

(* Only the stage that writes a row changes what it is computed from.        *)
LEMMA NextInv == Inv /\ [Next]_vars => Inv'
<1> SUFFICES ASSUME Inv, [Next]_vars PROVE Inv'
  OBVIOUS
<1> USE DEF Inv, RowsInv, AskedInv, Stages
<1>1. CASE Classify
  BY <1>1 DEF Classify
<1>2. ASSUME NEW vertex, Extract(vertex) PROVE Inv'
  BY <1>2 DEF Extract
<1>3. CASE Validate
  <2>1. /\ Applicable(classification.doc_type, settings.rule_pack)'
             = Applicable(classification.doc_type, settings.rule_pack)
        /\ \A c : Passes(c)' = Passes(c)
    BY <1>3 DEF Validate, Applicable, Passes, Value, Codes
  <2>. QED  BY <1>3, <2>1 DEF Validate
<1>4. CASE Route
  <2>1. /\ Applicable(classification.doc_type, settings.rule_pack)'
             = Applicable(classification.doc_type, settings.rule_pack)
        /\ \A c : Passes(c)' = Passes(c)
        /\ ReviewRequired' = ReviewRequired
    BY <1>4 DEF Route, Applicable, Passes, Value, Codes, ReviewRequired, Low, Less
  <2>. QED  BY <1>4, <2>1 DEF Route
<1>5. ASSUME NEW endpoint \in Endpoints, Ask(endpoint) PROVE Inv'
  <2>1. /\ Applicable(classification.doc_type, settings.rule_pack)'
             = Applicable(classification.doc_type, settings.rule_pack)
        /\ \A c : Passes(c)' = Passes(c)
        /\ ReviewRequired' = ReviewRequired
    BY <1>5 DEF Ask, Applicable, Passes, Value, Codes, ReviewRequired, Low, Less
  <2>2. RowsInv'
    BY <1>5, <2>1 DEF Ask
  <2>3. /\ AwbIssues' = AwbIssues
        /\ AecaIssues' = AecaIssues
        /\ DgIssues' = DgIssues
    BY <1>5 DEF Ask, AwbIssues, AecaIssues, DgIssues, Value
  <2>4. stage' = "routed" /\ issues'.endpoint = endpoint
    BY <1>5 DEF Ask
  <2>5. issues'.found = CASE endpoint = "awb" -> AwbIssues
                          [] endpoint = "aeca" -> AecaIssues
                          [] endpoint = "dg" -> DgIssues
    BY <1>5 DEF Ask
  <2>6. endpoint = "awb" => Value("weight_kg").number' # None
    BY <1>5 DEF Ask, Value
  <2>7. AskedInv'
    BY <2>3, <2>4, <2>5, <2>6 DEF IssuesFound, Endpoints
  <2>. QED  BY <2>2, <2>7
<1>6. CASE UNCHANGED vars
  <2>1. /\ Applicable(classification.doc_type, settings.rule_pack)'
             = Applicable(classification.doc_type, settings.rule_pack)
        /\ \A c : Passes(c)' = Passes(c)
        /\ ReviewRequired' = ReviewRequired
        /\ \A e : IssuesFound(e)' = IssuesFound(e)
        /\ Value("weight_kg")' = Value("weight_kg")
    BY <1>6 DEF vars, Applicable, Passes, Value, Codes, ReviewRequired, Low, Less,
                IssuesFound, AwbIssues, AecaIssues, DgIssues
  <2>. QED  BY <1>6, <2>1 DEF vars
<1>. QED
  BY <1>1, <1>2, <1>3, <1>4, <1>5, <1>6 DEF Next, ExtractAnswered

(* The inductive invariant holds in every reachable state.                   *)
THEOREM ReviewRowsInvariance == Spec => []Inv
BY InitInv, NextInv, PTL DEF Spec

-----------------------------------------------------------------------------
(* In a validated document every rule that applies passes.                   *)
LEMMA ValidatedPasses ==
  ASSUME Inv, status = "validated"
  PROVE  /\ classification = ClassificationOf(file.name)
         /\ ~Low(classification.confidence)
         /\ ~Low(average)
         /\ \A c \in Applicable(classification.doc_type, settings.rule_pack) : Passes(c)
<1>1. stage = "routed" /\ ~ReviewRequired
  BY DEF Inv, RowsInv, StatusOf
<1>. QED
  BY <1>1 DEF Inv, RowsInv, ReviewRequired

(* Empty is the one value without a character.                               *)
LEMMA EmptyValue ==
  /\ Empty \in Values
  /\ \A v \in Values : v.length = 0 => v = Empty
BY LevelAssumption DEF Values, Shapes, Empty, Str

(* A value with a dash is no number, so its shape and length say all of it.  *)
LEMMA ShapedValue ==
  \A v \in Values : v.shape = "dashed" => v = Str("dashed", v.length)
BY DEF Values, Str

LEMMA ValidatedSound == TypeOK /\ Inv => ValidatedIsSound
<1> SUFFICES ASSUME TypeOK, Inv, status = "validated" PROVE ValidatedIsSound
  BY DEF ValidatedIsSound
<1>1. /\ classification = ClassificationOf(file.name)
      /\ ~Low(classification.confidence)
      /\ ~Less(average, Threshold)
  BY ValidatedPasses DEF Low
<1>2. \A c \in Applicable(classification.doc_type, settings.rule_pack) : Passes(c)
  BY ValidatedPasses
<1>3. file.name # "other"
  BY <1>1, LevelAssumption DEF ClassificationOf, Low, Less, Threshold
<1>4. \A f \in DOMAIN entity : Value(f).shape # "restricted"
  <2>1. Passes("compliance.sanctions")
    BY <1>2 DEF Applicable, Codes
  <2>. QED  BY <2>1 DEF Passes
<1>5. "weight_kg" \in DOMAIN entity =>
        Value("weight_kg").number # None /\ Less(0, Value("weight_kg").number)
  <2>1. "weight_kg" \in DOMAIN entity => Passes("shipment.weight")
    BY <1>2 DEF Applicable, Codes
  <2>. QED  BY <2>1 DEF Passes
<1>6. Value("hs_code").length > 0 =>
        Value("hs_code").shape = "digits" /\ Value("hs_code").length \in {6, 8, 10}
  <2>1. Value("hs_code").length > 0 => Passes("compliance.hs_code")
    BY <1>2 DEF Applicable, Codes
  <2>. QED  BY <2>1 DEF Passes
<1>7. file.name = "awb" =>
        Value("awb_number").shape = "dashed" /\ Value("awb_number").length = 12
  <2>1. file.name = "awb" => Passes("awb.format")
    BY <1>1, <1>2 DEF Applicable, Codes, ClassificationOf
  <2>. QED  BY <2>1 DEF Passes
<1>8. settings.rule_pack = "australia-export" =>
        /\ Value("destination_country").length > 0
        /\ Value("destination_country").shape # "iran"
  <2>1. settings.rule_pack = "australia-export" => Passes("aeca.destination")
    BY <1>2 DEF Applicable, Codes
  <2>2. settings.rule_pack = "australia-export"
          /\ Value("destination_country").shape = "iran"
          => Passes("aeca.restricted_destination")
    BY <1>2 DEF Applicable, Codes
  <2>3. ~Passes("aeca.restricted_destination")
    BY DEF Passes
  <2>4. Passes("aeca.destination") => Value("destination_country").length > 0
    BY DEF Passes
  <2>. QED  BY <2>1, <2>2, <2>3, <2>4
<1>9. settings.rule_pack = "dg-iata" =>
        Value("un_number").shape = "un" /\ Value("packing_group").shape = "roman"
  <2>1. settings.rule_pack = "dg-iata" =>
          Passes("dg.un_number") /\ Passes("dg.packing_group")
    BY <1>2 DEF Applicable, Codes
  <2>. QED  BY <2>1 DEF Passes
<1>10. \A f \in DOMAIN entity : entity[f].value \in Values
  BY DEF TypeOK
<1>11. ASSUME NEW f \in DOMAIN entity
       PROVE  LET v == entity[f].value
              IN /\ v.shape # "restricted"
                 /\ f = "weight_kg" => v.number \in Int /\ v.number > 0
                 /\ f = "hs_code" =>
                      v = Empty \/ (v.shape = "digits" /\ v.length \in {6, 8, 10})
  <2>1. Value(f) = entity[f].value /\ Value(f) \in Values
    BY <1>10 DEF Value
  <2>2. f = "weight_kg" => Value(f).number \in Int /\ Value(f).number > 0
    BY <1>5, <2>1 DEF Less, Values
  <2>3. f = "hs_code" /\ Value(f).length = 0 => Value(f) = Empty
    BY <2>1, EmptyValue
  <2>4. Value(f).length \in Nat
    BY <2>1 DEF Values
  <2>. QED  BY <1>4, <1>6, <2>1, <2>2, <2>3, <2>4
<1>12. file.name = "awb" => Value("awb_number") = Str("dashed", 12)
  <2>1. Value("awb_number") \in Values
    BY <1>10, EmptyValue DEF Value
  <2>. QED  BY <1>7, <2>1, ShapedValue
<1>13. settings.rule_pack = "australia-export" =>
         /\ Value("destination_country") # Empty
         /\ Value("destination_country").shape # "iran"
  BY <1>8 DEF Empty, Str
<1>. QED
  BY <1>1, <1>3, <1>9, <1>11, <1>12, <1>13 DEF ValidatedIsSound

-----------------------------------------------------------------------------
(* Sums over a finite set.  The library folds a set by taking away the       *)
(* element CHOOSE gives; a function with that equation exists, adds up       *)
(* integers to an integer, and can be reasoned about by induction on the     *)
(* size of the subsets.                                                      *)
Pick(s) == CHOOSE x \in s : TRUE

Unfolds(g, f, D) ==
  g = [s \in D |-> IF s = {} THEN 0 ELSE f[Pick(s)] + g[s \ {Pick(s)}]]

(* A set of natural numbers has a least one.                                 *)
LEMMA LeastNatural ==
  ASSUME NEW B \in SUBSET Nat, B # {}
  PROVE  \E n \in B : \A m \in B : n <= m
<1>1. IsWellFoundedOn(OpToRel(<, Nat), Nat)
  BY NatLessThanWellFounded, Zenon
<1>2. \E n \in B : \A m \in B : ~ (<<m, n>> \in OpToRel(<, Nat))
  BY <1>1, WFMin, Zenon
<1>3. PICK n \in B : \A m \in B : ~ (<<m, n>> \in OpToRel(<, Nat))
  BY <1>2, Zenon
<1>4. \A m \in Nat : m < n => <<m, n>> \in OpToRel(<, Nat)
  BY <1>3, Zenon DEF OpToRel
<1>5. \A m \in B : ~ (m < n)
  BY <1>3, <1>4, Zenon
<1> QED
  BY <1>5

(* A subset is no larger than the set, and smaller without its pick.         *)
LEMMA SubsetSizes ==
  ASSUME NEW S, IsFiniteSet(S), NEW T \in SUBSET S
  PROVE  /\ Cardinality(T) \in Nat
         /\ Cardinality(T) <= Cardinality(S)
         /\ T = {} <=> Cardinality(T) = 0
         /\ T # {} => /\ Pick(T) \in T
                      /\ Cardinality(T \ {Pick(T)}) = Cardinality(T) - 1
<1>1. IsFiniteSet(T) /\ Cardinality(T) <= Cardinality(S)
  BY FS_Subset
<1>2. Cardinality(T) \in Nat /\ (Cardinality(T) = 0 <=> T = {})
  BY <1>1, FS_CardinalityType, FS_EmptySet
<1>3. T # {} => Pick(T) \in T
  BY DEF Pick
<1>4. T # {} => Cardinality(T \ {Pick(T)}) = Cardinality(T) - 1
  BY <1>1, <1>3, FS_RemoveElement
<1> QED
  BY <1>1, <1>2, <1>3, <1>4

(* What holds of {} and of T whenever it holds of T without its pick holds   *)
(* of every subset.                                                          *)
LEMMA SubsetInduction ==
  ASSUME NEW S, IsFiniteSet(S), NEW G, {} \in G,
         \A T \in SUBSET S : T # {} /\ T \ {Pick(T)} \in G => T \in G
  PROVE  SUBSET S \subseteq G
<1> DEFINE Missing == {T \in SUBSET S : T \notin G}
           B == {Cardinality(T) : T \in Missing}
<1> SUFFICES ASSUME Missing # {} PROVE FALSE
  OBVIOUS
<1>1. B \in SUBSET Nat /\ B # {}
  <2>1. \A T \in SUBSET S : Cardinality(T) \in Nat
    BY SubsetSizes
  <2> QED  BY <2>1
<1>2. PICK n \in B : \A m \in B : n <= m
  <2> HIDE DEF B
  <2> QED  BY <1>1, LeastNatural
<1>3. PICK T \in Missing : n = Cardinality(T)
  OBVIOUS
<1>4. T \in SUBSET S /\ T \notin G /\ T # {}
  OBVIOUS
<1>5. T \ {Pick(T)} \in Missing
  BY <1>4
<1>6. n <= Cardinality(T \ {Pick(T)})
  BY <1>2, <1>5
<1>7. Cardinality(T \ {Pick(T)}) = n - 1 /\ n \in Nat
  BY <1>3, <1>4, SubsetSizes
<1> QED
  BY <1>6, <1>7

(* The equation of the fold has a solution on all subsets: one for those of  *)
(* size n - 1 extends to those of size n.                                    *)
LEMMA FoldExists ==
  ASSUME NEW S, IsFiniteSet(S), NEW f \in [S -> Int]
  PROVE  \E g \in [SUBSET S -> Int] : Unfolds(g, f, SUBSET S)
<1> DEFINE Small(n) == {s \in SUBSET S : Cardinality(s) <= n}
           Has(n) == \E g \in [Small(n) -> Int] : Unfolds(g, f, Small(n))
           B == {n \in Nat : ~Has(n)}
<1>0. \A s \in SUBSET S : /\ Cardinality(s) \in Nat
                          /\ Cardinality(s) <= Cardinality(S)
                          /\ s = {} <=> Cardinality(s) = 0
                          /\ s # {} => /\ Pick(s) \in s
                                       /\ Cardinality(s \ {Pick(s)}) = Cardinality(s) - 1
  BY SubsetSizes
<1>1. Has(0)
  <2> DEFINE z == [s \in Small(0) |-> 0]
  <2>1. \A s \in Small(0) : s = {}
    <3> SUFFICES ASSUME NEW s \in SUBSET S, Cardinality(s) <= 0 PROVE s = {}
      OBVIOUS
    <3>1. Cardinality(s) \in Nat
      BY <1>0
    <3>2. Cardinality(s) = 0
      BY <3>1
    <3> QED
      BY <1>0, <3>2
  <2>2. z \in [Small(0) -> Int]
    OBVIOUS
  <2>3. Unfolds(z, f, Small(0))
    BY <2>1 DEF Unfolds
  <2> QED
    BY <2>2, <2>3
<1>2. ASSUME NEW n \in Nat, n # 0, Has(n - 1)
      PROVE  Has(n)
  <2>1. PICK g \in [Small(n - 1) -> Int] : Unfolds(g, f, Small(n - 1))
    BY <1>2
  <2> DEFINE h == [s \in Small(n) |-> IF s = {} THEN 0 ELSE f[Pick(s)] + g[s \ {Pick(s)}]]
  <2>2. \A s \in Small(n - 1) : s \in Small(n)
    <3> SUFFICES ASSUME NEW s \in SUBSET S, Cardinality(s) <= n - 1
                 PROVE  Cardinality(s) <= n
      OBVIOUS
    <3>1. Cardinality(s) \in Nat
      BY <1>0
    <3> QED
      BY <3>1
  <2>3. ASSUME NEW s \in Small(n), s # {}
        PROVE  s \ {Pick(s)} \in Small(n - 1) /\ Pick(s) \in S
    <3>1. /\ s \in SUBSET S /\ Cardinality(s) <= n /\ Cardinality(s) \in Nat
          /\ Pick(s) \in s /\ Cardinality(s \ {Pick(s)}) = Cardinality(s) - 1
      BY <1>0, <2>3
    <3>2. Cardinality(s \ {Pick(s)}) <= n - 1
      BY <3>1
    <3> QED
      BY <3>1, <3>2
  <2> HIDE DEF Small
  <2>4. \A s \in Small(n - 1) : h[s] = g[s]
    BY <2>1, <2>2 DEF Unfolds
  <2>5. h \in [Small(n) -> Int]
    BY <2>3
  <2>6. h = [s \in Small(n) |-> IF s = {} THEN 0 ELSE f[Pick(s)] + h[s \ {Pick(s)}]]
    BY <2>3, <2>4
  <2> HIDE DEF h
  <2> QED
    BY <2>5, <2>6 DEF Unfolds
<1>3. \A n \in Nat : Has(n)
  <2> HIDE DEF Has
  <2> SUFFICES ASSUME B # {} PROVE FALSE
    OBVIOUS
  <2>1. PICK n \in B : \A m \in B : n <= m
    <3>1. B \in SUBSET Nat
      OBVIOUS
    <3> HIDE DEF B
    <3> QED  BY <3>1, LeastNatural
  <2>2. n # 0
    BY <1>1
  <2>3. n - 1 \in Nat /\ n - 1 \notin B
    BY <2>1, <2>2
  <2> QED
    BY <1>2, <2>2, <2>3
<1>4. Cardinality(S) \in Nat /\ Small(Cardinality(S)) = SUBSET S
  BY <1>0
<1>5. Has(Cardinality(S))
  BY <1>3, <1>4
<1> QED
  BY <1>4, <1>5

(* The sum of a function is the value of such a solution at its domain.      *)
LEMMA SumUnfolds ==
  ASSUME NEW S, IsFiniteSet(S), NEW f \in [S -> Int]
  PROVE  \E g \in [SUBSET S -> Int] : Unfolds(g, f, SUBSET S) /\ SumFunction(f) = g[S]
<1> DEFINE g == CHOOSE h : Unfolds(h, f, SUBSET S)
<1>1. Unfolds(g, f, SUBSET S)
  BY FoldExists
<1>2. SumFunction(f) = g[S]
  BY DEF SumFunction, SumFunctionOnSet, FoldFunctionOnSet, MapThenFoldSet, Unfolds, Pick
<1>3. g \in [SUBSET S -> Int]
  <2> DEFINE G == {T \in SUBSET S : g[T] \in Int}
  <2> HIDE DEF g
  <2>1. {} \in G
    BY <1>1 DEF Unfolds
  <2>2. \A T \in SUBSET S : T # {} /\ T \ {Pick(T)} \in G => T \in G
    BY <1>1 DEF Unfolds, Pick
  <2>3. SUBSET S \subseteq G
    <3> HIDE DEF G
    <3> QED  BY <2>1, <2>2, SubsetInduction
  <2> QED
    BY <1>1, <2>3 DEF Unfolds
<1> QED
  BY <1>1, <1>2, <1>3

LEMMA SumType ==
  ASSUME NEW S, IsFiniteSet(S), NEW f \in [S -> Int]
  PROVE  SumFunction(f) \in Int
<1>1. PICK g \in [SUBSET S -> Int] : SumFunction(f) = g[S]
  BY SumUnfolds
<1> QED
  BY <1>1

-----------------------------------------------------------------------------
(* An answer has values of their classes and a confidence for finitely many  *)
(* names.                                                                    *)
IsAnswer(a) ==
  /\ \A f \in DOMAIN a.fields : a.fields[f] \in Values
  /\ IsFiniteSet(DOMAIN a.confidence)
  /\ a.confidence \in [DOMAIN a.confidence -> Confidences]

LEMMA AverageType ==
  ASSUME NEW D, IsFiniteSet(D), NEW c \in [D -> Confidences]
  PROVE  Average(c) \in Confidences
<1>1. CASE NaN \in Range(c)
  BY <1>1 DEF Average, Confidences
<1>2. CASE NaN \notin Range(c) /\ c = << >>
  <2>1. Average(c) = 0
    BY <1>2, Zenon DEF Average
  <2> QED
    BY <2>1 DEF Confidences
<1>3. CASE NaN \notin Range(c) /\ c # << >>
  <2>1. c \in [D -> Int]
    BY <1>3 DEF Range, Confidences
  <2>2. SumFunction(c) \in Int
    BY <2>1, SumType
  <2>3. FoldFunction(+, 0, c) = SumFunction(c)
    BY DEF FoldFunction, SumFunction, SumFunctionOnSet
  <2>4. D # {}
    BY <1>3
  <2>5. Cardinality(D) \in Nat /\ Cardinality(D) # 0
    BY <2>4, FS_CardinalityType, FS_EmptySet
  <2>6. SumFunction(c) \div Cardinality(D) \in Int
    BY <2>2, <2>5
  <2>7. Average(c) = FoldFunction(+, 0, c) \div Cardinality(DOMAIN c) /\ DOMAIN c = D
    BY <1>3 DEF Average
  <2> QED
    BY <2>3, <2>6, <2>7 DEF Confidences
<1> QED
  BY <1>1, <1>2, <1>3

LEMMA MockIsAnswer ==
  ASSUME NEW doc_type, NEW lowconf \in BOOLEAN
  PROVE  IsAnswer(MockAnswer(doc_type, lowconf))
<1>1. /\ IsFiniteSet({"awb_number", "shipper", "consignee", "weight_kg"})
      /\ IsFiniteSet({"invoice_number", "amount", "currency"})
  <2> SUFFICES ASSUME NEW a, NEW b, NEW c, NEW d
               PROVE  IsFiniteSet({a, b, c}) /\ IsFiniteSet({a, b, c, d})
    OBVIOUS
  <2>1. IsFiniteSet({a, b})
    <3>1. {a, b} = {a} \cup {b}
      OBVIOUS
    <3>2. IsFiniteSet({a})
      BY FS_Singleton
    <3> QED
      BY <3>1, <3>2, FS_AddElement
  <2>2. IsFiniteSet({a, b, c})
    <3>1. {a, b, c} = {a, b} \cup {c}
      OBVIOUS
    <3> QED
      BY <2>1, <3>1, FS_AddElement
  <2>3. IsFiniteSet({a, b, c, d})
    <3>1. {a, b, c, d} = {a, b, c} \cup {d}
      OBVIOUS
    <3> QED
      BY <2>2, <3>1, FS_AddElement
  <2> QED
    BY <2>2, <2>3
<1>2. /\ {Str("other", n) : n \in {3, 7, 11, 20, 22}} \subseteq Values
      /\ Str("dashed", 12) \in Values
      /\ {Num(7, 1000), Num(7, 1200)} \subseteq Values
  BY LevelAssumption DEF Values, Shapes, Str, Num
<1>3. CASE doc_type = "awb"
  BY <1>1, <1>2, <1>3 DEF MockAnswer, IsAnswer, Confidences
<1>4. CASE doc_type # "awb"
  BY <1>1, <1>2, <1>4 DEF MockAnswer, IsAnswer, Confidences
<1> QED
  BY <1>3, <1>4

LEMMA ExtractTypes ==
  ASSUME TypeOK, NEW vertex, vertex = None \/ IsAnswer(vertex), Extract(vertex)
  PROVE  TypeOK'
<1>1. PICK answer : answer = AnswerOf(classification.doc_type, file.lowconf, vertex)
  OBVIOUS
<1>2. IsAnswer(answer)
  BY <1>1, MockIsAnswer DEF AnswerOf, TypeOK
<1>3. entity' = Entities(answer) /\ average' = Average(answer.confidence)
  BY <1>1 DEF Extract
<1>4. average' \in Confidences
  BY <1>2, <1>3, AverageType DEF IsAnswer
<1>5. \A f \in DOMAIN entity' : entity'[f] \in [value : Values, confidence : Confidences]
  BY <1>2, <1>3 DEF Entities, IsAnswer, Confidences
<1> QED
  BY <1>4, <1>5 DEF TypeOK, Extract, Stages

LEMMA AnsweredTypes == TypeOK /\ ExtractAnswered => TypeOK'
<1> SUFFICES ASSUME TypeOK, ExtractAnswered PROVE TypeOK'
  OBVIOUS
<1>1. PICK names \in {S \in SUBSET DOMAIN Readings :
                        IsFiniteSet(S) /\ Cardinality(S) \in 1..MaxFields} :
        \E fields \in [names -> UNION {Readings[f] : f \in names}], scored \in SUBSET (names \cup {"remark"}) :
          /\ \A f \in names : fields[f] \in Readings[f]
          /\ \E confidence \in [scored -> Levels \cup {NaN}] :
               Extract([fields |-> fields, confidence |-> confidence])
  BY DEF ExtractAnswered
<1>2. PICK fields \in [names -> UNION {Readings[f] : f \in names}],
           scored \in SUBSET (names \cup {"remark"}) :
        /\ \A f \in names : fields[f] \in Readings[f]
        /\ \E confidence \in [scored -> Levels \cup {NaN}] :
             Extract([fields |-> fields, confidence |-> confidence])
  BY <1>1
<1>3. PICK confidence \in [scored -> Levels \cup {NaN}] :
        Extract([fields |-> fields, confidence |-> confidence])
  BY <1>2
<1>4. IsFiniteSet(scored)
  BY <1>1, FS_AddElement, FS_Subset
<1>5. confidence \in [scored -> Confidences]
  BY LevelAssumption DEF Confidences
<1>6. IsAnswer([fields |-> fields, confidence |-> confidence])
  <2>1. \A f \in names : fields[f] \in Values
    BY <1>1, <1>2, ReadingAssumption
  <2> QED
    BY <1>4, <1>5, <2>1 DEF IsAnswer
<1> QED
  BY <1>3, <1>6, ExtractTypes

LEMMA NextTypes == TypeOK /\ [Next]_vars => TypeOK'
<1> SUFFICES ASSUME TypeOK, [Next]_vars PROVE TypeOK'
  OBVIOUS
<1>1. CASE Classify
  BY <1>1 DEF Classify, TypeOK, Stages, ClassificationOf
<1>2. CASE Extract(None)
  BY <1>2, ExtractTypes
<1>3. CASE ExtractAnswered
  BY <1>3, AnsweredTypes
<1>4. CASE Validate
  <2>1. \A c : Passes(c) \in BOOLEAN
    BY DEF Passes
  <2>2. Applicable(classification.doc_type, settings.rule_pack) \subseteq Codes
    BY DEF Applicable
  <2> QED
    BY <1>4, <2>1, <2>2 DEF Validate, TypeOK, Stages
<1>5. CASE Route
  <2>1. classification.confidence \in Confidences /\ average \in Confidences
    BY DEF TypeOK, Unclassified, Confidences
  <2>2. Minimum(classification.confidence, average) \in Confidences
    BY <2>1 DEF Minimum
  <2> QED
    BY <1>5, <2>2 DEF Route, TypeOK, Stages, StatusOf
<1>6. ASSUME NEW endpoint \in Endpoints, Ask(endpoint) PROVE TypeOK'
  <2>1. IssuesFound(endpoint) \subseteq Codes
    BY DEF IssuesFound, AwbIssues, AecaIssues, DgIssues, Codes, Endpoints
  <2> QED
    BY <1>6, <2>1 DEF Ask, TypeOK, IssuesFound
<1>7. CASE UNCHANGED vars
  BY <1>7 DEF vars, TypeOK
<1> QED
  BY <1>1, <1>2, <1>3, <1>4, <1>5, <1>6, <1>7 DEF Next

LEMMA InitTypes == Init => TypeOK
BY DEF Init, TypeOK, Stages, Unclassified, Confidences

(* Every row stays of its type, the average of any answer included           *)
(* (extraction/service.py 27-53, ai.py 18-116).                            *)
THEOREM ReviewTypeCorrect == Spec => []TypeOK
BY InitTypes, NextTypes, PTL DEF Spec

-----------------------------------------------------------------------------
(* A task has the smaller of the two confidences.  If either is low, so is   *)
(* that; if neither is, a rule failed.                                       *)
LEMMA ReasonGiven == TypeOK /\ Inv => ReviewHasReason
<1> SUFFICES ASSUME TypeOK, Inv PROVE ReviewHasReason
  OBVIOUS
<1> DEFINE least == Minimum(classification.confidence, average)
<1>1. /\ classification.confidence \in Int
      /\ average \in Int \cup {NaN}
      /\ NaN \notin Int /\ None \notin Int \cup {NaN}
  BY LevelAssumption DEF TypeOK, Unclassified, Confidences
<1>2. least # None
  BY <1>1 DEF Minimum
<1>3. task = IF status = "review_required" THEN least ELSE None
  BY DEF Inv, RowsInv, StatusOf
<1>4. ASSUME task # None, \A c \in DOMAIN passed : passed[c]
      PROVE  Less(task, Threshold)
  <2>1. task = least /\ (Low(classification.confidence) \/ Low(average))
    BY <1>3, <1>4 DEF Inv, RowsInv, StatusOf, ReviewRequired
  <2> QED
    BY <1>1, <2>1 DEF Minimum, Low, Less, Threshold
<1> QED
  BY <1>2, <1>3, <1>4 DEF ReviewHasReason

(* A document has a task exactly when its status asks for review, and the    *)
(* task shows a confidence below the threshold or a rule failed              *)
(* (ingestion/service.py 123-142).                                          *)
THEOREM ReviewReasoned == Spec => []ReviewHasReason
BY ReviewRowsInvariance, ReviewTypeCorrect, ReasonGiven, PTL

-----------------------------------------------------------------------------
(* For every answer of Vertex, a document that passes without a human has no *)
(* low average, no restricted value and none that a rule for it refuses.     *)
THEOREM ValidationSound == Spec => []ValidatedIsSound
BY ReviewRowsInvariance, ReviewTypeCorrect, ValidatedSound, PTL

(* Asked about a document's values, an endpoint and the engine differ where  *)
(* KnownDivergence says, rule by rule.                                       *)
LEMMA CopiesDiffer == TypeOK /\ Inv => CopiesDifferOnlyThere
<1> SUFFICES ASSUME TypeOK, Inv, issues # None,
                    NEW c \in EngineRules(issues.endpoint) \cap DOMAIN passed
             PROVE  (passed[c] <=> c \notin issues.found) <=> ~KnownDivergence(c)
  BY DEF CopiesDifferOnlyThere
<1>1. /\ issues.endpoint \in Endpoints
      /\ issues.found = IssuesFound(issues.endpoint)
      /\ c \in Applicable(classification.doc_type, settings.rule_pack)
      /\ passed[c] = Passes(c)
  BY DEF Inv, RowsInv, AskedInv
<1>2. \A f : Value(f) \in Values
  BY EmptyValue DEF Value, TypeOK
<1>3. CASE issues.endpoint = "awb"
  <2>1. issues.found = AwbIssues /\ c \in {"awb.format", "shipment.weight"}
    BY <1>1, <1>3 DEF IssuesFound, EngineRules
  <2>2. CASE c = "awb.format"
    BY <1>1, <2>1, <2>2 DEF AwbIssues, Passes, KnownDivergence
  <2>3. CASE c = "shipment.weight"
    <3>1. Value("weight_kg").number \in Int \cup {NaN}
      BY <1>2, <1>3 DEF Inv, AskedInv, Values
    <3>2. c \in issues.found <=>
            Value("weight_kg").number = 0 \/ Less(Value("weight_kg").number, 0)
      BY <2>1, <2>3 DEF AwbIssues
    <3>3. Passes(c) <=> Less(0, Value("weight_kg").number)
      BY <2>3, <3>1, LevelAssumption DEF Passes
    <3>4. KnownDivergence(c) <=> Value("weight_kg").number = NaN
      BY <2>3 DEF KnownDivergence
    <3>. QED  BY <1>1, <3>1, <3>2, <3>3, <3>4, LevelAssumption DEF Less
  <2>. QED  BY <2>1, <2>2, <2>3
<1>4. CASE issues.endpoint = "aeca"
  <2>1. /\ issues.found = AecaIssues
        /\ c \in {"compliance.hs_code", "aeca.destination", "aeca.restricted_destination"}
    BY <1>1, <1>4 DEF IssuesFound, EngineRules
  <2>2. CASE c = "compliance.hs_code"
    BY <1>1, <2>1, <2>2 DEF AecaIssues, Passes, KnownDivergence
  <2>3. CASE c = "aeca.destination"
    <3>1. Value("destination_country").length \in Nat
      BY <1>2 DEF Values
    <3>2. c \in issues.found <=> Value("destination_country").length \notin {2, 3}
      BY <2>1, <2>3 DEF AecaIssues
    <3>3. Passes(c) <=> Value("destination_country").length > 0
      BY <2>3 DEF Passes
    <3>4. KnownDivergence(c) <=> Value("destination_country").length \notin {0, 2, 3}
      BY <2>3 DEF KnownDivergence
    <3>. QED  BY <1>1, <3>1, <3>2, <3>3, <3>4
  <2>4. CASE c = "aeca.restricted_destination"
    BY <1>1, <2>1, <2>4 DEF AecaIssues, Passes, KnownDivergence
  <2>. QED  BY <2>1, <2>2, <2>3, <2>4
<1>5. CASE issues.endpoint = "dg"
  <2>1. issues.found = DgIssues /\ c \in {"dg.un_number", "dg.packing_group"}
    BY <1>1, <1>5 DEF IssuesFound, EngineRules
  <2>2. CASE c = "dg.un_number"
    BY <1>1, <2>1, <2>2 DEF DgIssues, Passes, KnownDivergence
  <2>3. CASE c = "dg.packing_group"
    BY <1>1, <2>1, <2>3 DEF DgIssues, Passes, KnownDivergence
  <2>. QED  BY <2>1, <2>2, <2>3
<1>. QED
  BY <1>1, <1>3, <1>4, <1>5 DEF Endpoints

(* For every value of every field, the rules of the engine and the checks of *)
(* modules/awb, aeca and dg say the same but in three cases, and differ in   *)
(* each of these: NaN weights, the length of a country, and IR               *)
(* (rules_engine.py 73-165; awb/service.py 13, aeca/service.py 9).           *)
THEOREM RuleCopiesDiffer == Spec => []CopiesDifferOnlyThere
BY ReviewRowsInvariance, ReviewTypeCorrect, CopiesDiffer, PTL

=============================================================================
