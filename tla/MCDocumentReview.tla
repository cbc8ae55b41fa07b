-------------------------- MODULE MCDocumentReview --------------------------
(* The model-checked instance of DocumentReview.  Vertex names the fields   *)
(* the rules read, with values on both sides of every test of a rule.       *)
EXTENDS DocumentReview

Digits(length, number) == [shape |-> "digits", length |-> length, number |-> number]

MCReadings ==
  [awb_number |-> {Empty, Str("dashed", 12), Str("dashed", 11), Str("other", 12)},
   weight_kg |-> {Digits(3, 250), Num(4, -5), Digits(1, 0), Num(3, NaN), Str("other", 5)},
   hs_code |-> {Empty, Digits(8, 84713000), Digits(7, 8471300), Str("other", 8)},
   un_number |-> {Str("un", 6), Digits(4, 1263)},
   packing_group |-> {Str("roman", 2), Digits(1, 2)},
   destination_country |->
     {Empty, Str("iran", 2), Str("other", 2), Str("other", 3), Str("other", 9),
      Str("restricted", 10)}]

=============================================================================
