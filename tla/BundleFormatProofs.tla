------------------------- MODULE BundleFormatProofs -------------------------
(***************************************************************************)
(* What buildBundle sends of any document, and what the agent makes of it, *)
(* for any texts, documents and widths of numbers.                         *)
(*                                                                         *)
(* All of it follows from one fact: where Parse and Validate succeed, the  *)
(* struct has exactly the values of the document, since the only value     *)
(* that Parse makes up, the empty string of a required key, is one that    *)
(* Validate rejects.  So MarshalJSON writes the normalized document again. *)
(***************************************************************************)
EXTENDS BundleFormat, TLAPS

-----------------------------------------------------------------------------
(* Values.                                                                 *)

\* A value is null, a fraction, or one of the tagged values.
LEMMA ValueCases ==
    ASSUME NEW v \in Value
    PROVE  \/ v = Null \/ v = Fraction
           \/ \E n \in Int : v \in {Num(n), Digits(n), List(n), Map(n)}
           \/ \E b \in BOOLEAN : v = Bool(b)
           \/ \E s \in {"empty", "text", "a_b", "010"} : v = Str(s)
BY DEF Value, Null, Fraction, Num, Digits, List, Map, Bool, Str

\* Numbers, strings of digits and strings are values.
LEMMA ValueTypes ==
    /\ \A n \in Int : Num(n) \in Value /\ Digits(n) \in Value
    /\ Str("empty") \in Value
BY DEF Value, Num, Digits, Str

\* The tag of a value.
LEMMA Tags ==
    /\ Null[1] = "null" /\ Fraction[1] = "fraction"
    /\ \A n : /\ Num(n)[1] = "num" /\ Num(n)[2] = n
              /\ Digits(n)[1] = "digits" /\ Digits(n)[2] = n
              /\ List(n)[1] = "list" /\ Map(n)[1] = "map"
              /\ Bool(n)[1] = "bool" /\ Str(n)[1] = "str"
BY DEF Null, Fraction, Num, Digits, List, Map, Bool, Str

\* A value with the tag of a number, or of digits, is one.
LEMMA NumberTags ==
    ASSUME NEW v \in Value
    PROVE  /\ v[1] = "num" => v[2] \in Int /\ v = Num(v[2])
           /\ v[1] = "digits" => v[2] \in Int /\ v = Digits(v[2])
BY ValueCases, Tags

\* The two fields that are rewritten stay values, or are rejected.
LEMMA NormalizedType ==
    ASSUME NEW v \in Value
    PROVE  /\ normalizeFwmark(v) \in Value \cup {Rejected}
           /\ normalizeRoutingTable(v) \in Value \cup {Rejected}
<1>1. v[1] = "digits" => Num(v[2]) \in Value
  BY NumberTags, ValueTypes
<1>2. v[1] = "num" => Digits(v[2]) \in Value
  BY NumberTags, ValueTypes
<1>3. normalizeFwmark(v) \in {v, Rejected} \cup
          (IF v[1] = "digits" THEN {Num(v[2])} ELSE {})
  BY DEF normalizeFwmark
<1>4. normalizeRoutingTable(v) \in {v, Rejected} \cup
          (IF v[1] = "num" THEN {Digits(v[2])} ELSE {})
  BY DEF normalizeRoutingTable
<1> QED
  BY <1>1, <1>2, <1>3, <1>4

-----------------------------------------------------------------------------
(* From the document to the bundle's wg.                                   *)

\* What normalizeWG makes of an interface is an interface with the same keys.
LEMMA NormalizedWG ==
    ASSUME NEW d, d \in [DOMAIN d -> Value],
           Special \cap [DOMAIN d -> Value \cup {Rejected}] = {}
    PROVE  /\ normalizeWG(d) = [f \in DOMAIN d |->
                    CASE f = "fwmark" -> normalizeFwmark(d[f])
                      [] f = "ipv4" -> normalizeRoutingTable(d[f])
                      [] OTHER -> d[f]]
           /\ normalizeWG(d) \in [DOMAIN d -> Value \cup {Rejected}]
           /\ IsInterface(normalizeWG(d))
<1> DEFINE j == [f \in DOMAIN d |->
                    CASE f = "fwmark" -> normalizeFwmark(d[f])
                      [] f = "ipv4" -> normalizeRoutingTable(d[f])
                      [] OTHER -> d[f]]
<1>1. d \notin Special
  <2>1. d \in [DOMAIN d -> Value \cup {Rejected}]
    OBVIOUS
  <2> QED
    BY <2>1
<1>2. normalizeWG(d) = j
  BY <1>1 DEF normalizeWG, IsInterface
<1>3. j \in [DOMAIN d -> Value \cup {Rejected}]
  <2>1. ASSUME NEW f \in DOMAIN d
        PROVE  (CASE f = "fwmark" -> normalizeFwmark(d[f])
                  [] f = "ipv4" -> normalizeRoutingTable(d[f])
                  [] OTHER -> d[f]) \in Value \cup {Rejected}
    <3>1. d[f] \in Value
      OBVIOUS
    <3> QED
      BY <3>1, NormalizedType
  <2> QED
    BY <2>1
<1> QED
  BY <1>2, <1>3 DEF IsInterface

\* Where Parse succeeds and Validate passes, an interface has known keys only,
\* each key has its value in the struct, and every other key is nil.
LEMMA ParsedValues ==
    ASSUME NEW int, NEW D, NEW j \in [D -> Value \cup {Rejected}],
           IsInterface(j), Parses(int, j), Validate(Parse(j))
    PROVE  /\ D \subseteq Known
           /\ j \in [D -> Value]
           /\ Parse(j) \in [Known -> Value \cup {Nil}]
           /\ Parse(j) # NoInterfaces
           /\ \A f \in Known : Parse(j)[f] = IF f \in D THEN j[f] ELSE Nil
<1> DEFINE b == Parse(j)
<1>1. j # NoInterfaces /\ DOMAIN j = D
  BY DEF IsInterface, Special
<1>2. checkRaw(j) /\ D \subseteq Known
  BY <1>1 DEF Parses
<1>3. j \in [D -> Value]
  BY <1>1, <1>2 DEF checkRaw
<1>4. b = [f \in Known |->
            IF f \in D THEN j[f]
            ELSE IF f \in Strings \cap Required /\ Inside(j, f) THEN Str("empty")
            ELSE Nil]
  BY <1>1 DEF Parse
<1>5. b \in [Known -> Value \cup {Nil}]
  BY <1>3, <1>4, ValueTypes
<1>6. b # NoInterfaces
  BY <1>5, DocumentsAssumption DEF Special
<1>7. Str("empty") # Nil
  BY ValueTypes, DocumentsAssumption
<1>8. \A f \in Known : b[f] # Str("empty")
  BY <1>6, <1>7 DEF Validate
<1>9. \A f \in Known : b[f] = IF f \in D THEN j[f] ELSE Nil
  <2> SUFFICES ASSUME NEW f \in Known
               PROVE  b[f] = IF f \in D THEN j[f] ELSE Nil
    OBVIOUS
  <2>1. b[f] # Str("empty")
    BY <1>8
  <2> HIDE DEF b
  <2> QED
    BY <1>4, <2>1
<1> QED
  BY <1>2, <1>3, <1>5, <1>6, <1>9

\* ... and MarshalJSON writes the same keys and values again.
LEMMA MarshalParsed ==
    ASSUME NEW int, NEW D, NEW j \in [D -> Value \cup {Rejected}],
           IsInterface(j), Parses(int, j), Validate(Parse(j))
    PROVE  MarshalJSON(Parse(j)) = j
<1> DEFINE b == Parse(j)
<1> HIDE DEF b
<1>1. /\ D \subseteq Known /\ j \in [D -> Value] /\ b # NoInterfaces
      /\ \A f \in Known : b[f] = IF f \in D THEN j[f] ELSE Nil
  BY ParsedValues DEF b
<1>2. \A f \in D : j[f] # Nil
  BY <1>1, DocumentsAssumption
<1>3. {f \in Known : b[f] # Nil} = D
  BY <1>1, <1>2
<1>4. MarshalJSON(b) = [f \in D |-> b[f]]
  BY <1>1, <1>3 DEF MarshalJSON, Restrict
<1>5. [f \in D |-> b[f]] = j
  BY <1>1
<1> QED
  BY <1>4, <1>5 DEF b

-----------------------------------------------------------------------------
(* From the bundle's wg to the node.                                       *)

\* What Parse and Validate of one program accept, those of a program with
\* another int accept too: Validate bounds the numbers that are an int.
LEMMA ParsesWithAnyInt ==
    ASSUME NEW int, NEW other \in {Int32Max, Int64Max},
           NEW D, NEW j \in [D -> Value \cup {Rejected}],
           IsInterface(j), Parses(int, j), Validate(Parse(j))
    PROVE  Parses(other, j)
<1> DEFINE b == Parse(j)
<1> HIDE DEF b
<1>1. /\ D \subseteq Known /\ j \in [D -> Value] /\ b # NoInterfaces
      /\ \A f \in Known : b[f] = IF f \in D THEN j[f] ELSE Nil
  BY ParsedValues DEF b
<1>2. /\ j # NoInterfaces /\ checkRaw(j) /\ DOMAIN j = D
      /\ \A f \in D : Decodes(int, f, j[f])
  BY DEF Parses, IsInterface, Special
<1>3. ASSUME NEW f \in D, f \in Ints, Decodes(int, f, j[f])
      PROVE  j[f][1] = "num" /\ j[f][2] <= other
  <2>1. j[f][1] = "num"
    BY <1>3 DEF Decodes, Strings, Lists, Maps, Ints
  <2>2. b[f] = j[f] /\ j[f] \in Value /\ f \in Known
    BY <1>1
  <2>3. b[f] # Nil
    BY <2>2, DocumentsAssumption
  <2>4. b[f][2] \in Allowed(f)
    <3>1. Validate(b) /\ b # NoInterfaces
      BY <1>1 DEF b
    <3> QED
      BY <1>3, <2>2, <2>3, <3>1 DEF Validate
  <2>5. Allowed(f) \subseteq {n \in Int : n <= PortMax}
    BY <1>3, WidthsAssumption DEF Allowed, Ints
  <2>6. j[f][2] \in Int /\ j[f][2] <= PortMax
    BY <2>2, <2>4, <2>5
  <2>7. PortMax <= other /\ PortMax \in Int /\ other \in Int
    BY WidthsAssumption
  <2> QED
    BY <2>1, <2>6, <2>7
<1>4. ASSUME NEW f \in D
      PROVE  Decodes(other, f, j[f])
  <2>1. CASE f \in Ints
    BY <1>2, <1>3, <2>1 DEF Decodes, Strings, Lists, Maps, Ints
  <2>2. CASE f \notin Ints
    BY <1>2, <2>2 DEF Decodes
  <2> QED
    BY <2>1, <2>2
<1> QED
  BY <1>1, <1>2, <1>4 DEF Parses

\* The two rewritten fields mean what docs/format.md says of them.
LEMMA NormalizedMeans ==
    ASSUME NEW v \in Value
    PROVE  /\ normalizeFwmark(v) \notin {Null, Fraction, Rejected}
                => normalizeFwmark(v) = Num(v[2])
           /\ normalizeRoutingTable(v) \notin {Null, Rejected}
                => normalizeRoutingTable(v) =
                       IF v[1] = "num" THEN Digits(v[2]) ELSE v
<1>1. v[1] = "num" => v = Num(v[2])
  BY NumberTags
<1>2. normalizeFwmark(v) \in {Null, Fraction, Rejected}
        \/ (v[1] = "num" /\ normalizeFwmark(v) = v)
        \/ normalizeFwmark(v) = Num(v[2])
  BY DEF normalizeFwmark
<1>3. Null[1] # "num" /\ (v[1] \in {"str", "digits"} => v[1] # "num")
  BY Tags
<1>4. normalizeRoutingTable(v) \in {Null, Rejected}
        \/ (v[1] # "num" /\ normalizeRoutingTable(v) = v)
        \/ (v[1] = "num" /\ normalizeRoutingTable(v) = Digits(v[2]))
  BY <1>3 DEF normalizeRoutingTable
<1> QED
  BY <1>1, <1>2, <1>4

\* What the node makes of the struct is what the document says.
LEMMA EffectIsIntended ==
    ASSUME NEW int, NEW d, d \in [DOMAIN d -> Value],
           Special \cap [DOMAIN d -> Value \cup {Rejected}] = {},
           Parses(int, normalizeWG(d)), Validate(Parse(normalizeWG(d)))
    PROVE  Effect(Parse(normalizeWG(d))) = Intended(d)
<1> DEFINE j == normalizeWG(d)
           b == Parse(j)
           D == DOMAIN d
<1> HIDE DEF j, b, D
<1>1. /\ j = [f \in D |-> CASE f = "fwmark" -> normalizeFwmark(d[f])
                            [] f = "ipv4" -> normalizeRoutingTable(d[f])
                            [] OTHER -> d[f]]
      /\ j \in [D -> Value \cup {Rejected}] /\ IsInterface(j)
  BY NormalizedWG DEF j, D
<1>2. /\ j \in [D -> Value] /\ b # NoInterfaces
      /\ \A f \in Known : b[f] = IF f \in D THEN j[f] ELSE Nil
  BY <1>1, ParsedValues DEF j, b
<1>3. \A f \in D : j[f] \notin {Null, Fraction, Rejected, Nil}
  <2>1. checkRaw(j) /\ DOMAIN j = D
    BY <1>1 DEF Parses, IsInterface, Special, j
  <2>2. Nil \notin Value
    BY DocumentsAssumption
  <2>3. \A f \in D : j[f] \in Value
    BY <1>2
  <2>4. \A f \in D : j[f] \notin {Null, Fraction, Rejected}
    BY <2>1 DEF checkRaw
  <2> QED
    BY <2>2, <2>3, <2>4
<1>4. d # NoInterfaces
  <2>1. d \in [DOMAIN d -> Value \cup {Rejected}]
    OBVIOUS
  <2> QED
    BY <2>1 DEF Special
<1>5. ASSUME NEW f \in Known
      PROVE  (IF b[f] = Nil THEN Default(f) ELSE b[f]) =
                (IF f \notin D THEN Default(f)
                 ELSE IF f = "fwmark" THEN Num(d[f][2])
                 ELSE IF f = "ipv4" /\ d[f][1] = "num" THEN Digits(d[f][2])
                 ELSE d[f])
  <2>1. CASE f \notin D
    BY <1>2, <2>1
  <2>2. CASE f \in D
    <3>1. b[f] = j[f] /\ j[f] \notin {Null, Fraction, Rejected, Nil}
      BY <1>2, <1>3, <2>2
    <3>2. d[f] \in Value
      BY <2>2 DEF D
    <3>3. CASE f = "fwmark"
      BY <1>1, <2>2, <3>1, <3>2, <3>3, NormalizedMeans
    <3>4. CASE f = "ipv4"
      BY <1>1, <2>2, <3>1, <3>2, <3>4, NormalizedMeans
    <3>5. CASE f \notin {"fwmark", "ipv4"}
      BY <1>1, <2>2, <3>1, <3>5
    <3> QED
      BY <3>3, <3>4, <3>5
  <2> QED
    BY <2>1, <2>2
<1>6. Effect(b) = [f \in Known |-> IF b[f] = Nil THEN Default(f) ELSE b[f]]
  BY <1>2 DEF Effect
<1>7. Intended(d) = [f \in Known |->
            IF f \notin D THEN Default(f)
            ELSE IF f = "fwmark" THEN Num(d[f][2])
            ELSE IF f = "ipv4" /\ d[f][1] = "num" THEN Digits(d[f][2])
            ELSE d[f]]
  BY <1>4 DEF Intended, D
<1> QED
  BY <1>5, <1>6, <1>7 DEF b, j

-----------------------------------------------------------------------------
(* buildBundle as a whole, and the size of the value.                      *)

\* The wg of a bundle that builds is one the agent takes, writes to last.json
\* as it was sent, and turns into what the document says.
THEOREM BuiltBundle ==
    ASSUME NEW t, \/ t \in DOMAIN Document
                  \/ t \in {Empty, Template},
           buildBundle(ToJSON(t)) # Rejected
    PROVE  LET sent == buildBundle(ToJSON(t))
           IN  /\ t \in DOMAIN Document \ {Empty, Template}
               /\ ToJSON(t) = Document[t]
               /\ Parses(AgentInt, sent) /\ Validate(Parse(sent))
               /\ MarshalJSON(Parse(sent)) = sent
               /\ Effect(Parse(sent)) = Intended(Document[t])
               /\ Parse(sent) = NoInterfaces => t = NoInterfaces
<1> DEFINE d == ToJSON(t)
           j == normalizeWG(d)
           sent == buildBundle(d)
<1>1. /\ d \notin {NullDoc, Rejected}
      /\ Parses(ControllerInt, j) /\ Validate(Parse(j))
      /\ sent = MarshalJSON(Parse(j))
  BY DEF buildBundle
<1>2. t \notin {Empty, Template} /\ t \in DOMAIN Document
  BY <1>1 DEF ToJSON
<1>3. d = Document[t] /\ d # Malformed
  BY <1>1, <1>2 DEF ToJSON
<1>4. CASE d = NoInterfaces
  <2>1. j = NoInterfaces
    BY <1>4 DEF normalizeWG, IsInterface, Special
  <2>2. Parse(NoInterfaces) = NoInterfaces
    BY DEF Parse
  <2>3. sent = NoInterfaces
    BY <1>1, <2>1, <2>2 DEF MarshalJSON
  <2>4. t = NoInterfaces
    BY <1>2, <1>3, <1>4, DocumentsAssumption
  <2>5. Parses(AgentInt, NoInterfaces) /\ Validate(NoInterfaces)
    BY DEF Parses, Validate
  <2>6. MarshalJSON(NoInterfaces) = NoInterfaces
    BY DEF MarshalJSON
  <2>7. Effect(NoInterfaces) = Intended(NoInterfaces)
    BY DEF Effect, Intended
  <2> QED
    BY <1>2, <1>3, <1>4, <2>2, <2>3, <2>4, <2>5, <2>6, <2>7
<1>5. CASE d # NoInterfaces
  <2>1. d # NotAMap
    <3> SUFFICES ASSUME d = NotAMap PROVE FALSE
      OBVIOUS
    <3>1. j = NotAMap /\ ~IsInterface(j)
      BY DEF normalizeWG, IsInterface, Special
    <3> QED
      BY <1>1, <1>5, <3>1 DEF Parses
  <2>2. /\ d \in [DOMAIN d -> Value]
        /\ Special \cap [DOMAIN d -> Value \cup {Rejected}] = {}
    BY <1>2, <1>3, <1>5, <2>1, DocumentsAssumption
  <2>3. j \in [DOMAIN d -> Value \cup {Rejected}] /\ IsInterface(j)
    BY <2>2, NormalizedWG
  <2>4. sent = j
    BY <1>1, <2>3, MarshalParsed
  <2>5. AgentInt \in {Int32Max, Int64Max}
    BY WidthsAssumption
  <2>6. Parses(AgentInt, j)
    BY <1>1, <2>3, <2>5, ParsesWithAnyInt
  <2>7. Parse(j) # NoInterfaces
    BY <1>1, <2>3, ParsedValues
  <2>8. Effect(Parse(j)) = Intended(d)
    BY <1>1, <2>2, EffectIsIntended
  <2>9. MarshalJSON(Parse(j)) = j
    BY <1>1, <2>4
  <2> HIDE DEF j, sent
  <2>10. /\ Parses(AgentInt, sent) /\ Validate(Parse(sent))
         /\ MarshalJSON(Parse(sent)) = sent
         /\ Effect(Parse(sent)) = Intended(d)
         /\ Parse(sent) # NoInterfaces
    BY <1>1, <2>4, <2>6, <2>7, <2>8, <2>9
  <2> HIDE DEF d
  <2> QED
    BY <1>2, <1>3, <2>10 DEF sent, d
<1> QED
  BY <1>4, <1>5

\* Base64 of a multiple of three bytes: what buildBundle lets pass fits.
LEMMA SizeFits ==
    ASSUME NEW n \in Nat, NEW overhead \in Nat, NEW max \in Nat,
           n <= 3 * (max \div 4) - overhead
    PROVE  4 * ((n + overhead + 2) \div 3) <= max
<1> DEFINE q == max \div 4
           r == (n + overhead + 2) \div 3
<1>1. q \in Nat /\ 4 * q <= max
  OBVIOUS
<1>2. r \in Nat /\ 3 * r <= n + overhead + 2
  OBVIOUS
<1>3. n + overhead <= 3 * q
  BY <1>1
<1> HIDE DEF q, r
<1>4. 3 * r <= 3 * q + 2
  BY <1>1, <1>2, <1>3
<1>5. r <= q
  BY <1>1, <1>2, <1>4
<1> QED
  BY <1>1, <1>2, <1>5 DEF q, r
=============================================================================
