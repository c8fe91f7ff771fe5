---------------------------- MODULE BundleFormat ----------------------------
(***************************************************************************)
(* The bundle on its way from a node's wg.yaml to the agent: YAML to JSON  *)
(* (yamlx), the rewriting of two fields (normalizeWG), Parse, Validate,    *)
(* MarshalJSON and the canonical form that decides what is unchanged.      *)
(*                                                                         *)
(* A wg document has at most one interface, with at most one peer and one  *)
(* route.  As YAML and JSON it is a function from the keys it has to their *)
(* values, nested keys beside those they are nested in; as a Go struct it  *)
(* has every key, with Nil for a nil pointer, map or slice.  A text, what  *)
(* a wg.yaml holds, is a name for its document.                            *)
(*                                                                         *)
(* An operator named X_Slip is X with a plausible slip in it.  Nothing     *)
(* uses one: putting it in X's place must break one of the properties.     *)
(***************************************************************************)
EXTENDS Integers, Functions

CONSTANTS
    Empty,         \* an empty file
    Template,      \* the wg.yaml of `node add`: comments only
    Document,      \* the documents of all other texts
    Malformed,     \* YAML that does not parse, or repeats a key
    NoInterfaces,  \* the document {}
    NotAMap,       \* a document that is a list or a scalar
    NullDoc,       \* the JSON document null
    Rejected,      \* an error
    Nil,           \* a nil pointer, map or slice
    MTUMin, PortMax, Int32Max, Word32Max, Int64Max,
                   \* 576, 65535, 2^31-1, 2^32-1, 2^63-1
    ControllerInt, AgentInt,  \* the largest int of the two programs
    Size,          \* the bytes of a bundle, by its stunmesh text
    maxDHTValueSize, naclBoxOverhead

ASSUME WidthsAssumption ==
    /\ {MTUMin, PortMax, Int32Max, Word32Max, Int64Max} \subseteq Nat
    /\ 0 < MTUMin /\ MTUMin <= PortMax /\ PortMax < Int32Max
    /\ Int32Max < Word32Max /\ Word32Max < Int64Max
    /\ {ControllerInt, AgentInt} \subseteq {Int32Max, Int64Max}
    /\ maxDHTValueSize \in Nat /\ naclBoxOverhead \in Nat

-----------------------------------------------------------------------------
(* Values, and the rule of each key.                                       *)

Null == <<"null">>            \* a key with nothing after it
Fraction == <<"fraction">>    \* a number with a fraction or an exponent
Num(n) == <<"num", n>>
Bool(b) == <<"bool", b>>
Str(s) == <<"str", s>>        \* "text", "010", "a_b" (for "a b") or "empty" (for "")
Digits(n) == <<"digits", n>>  \* a string that spells a number
List(n) == <<"list", n>>      \* with n entries
Map(n) == <<"map", n>>

Value ==
    {Null, Fraction} \cup ({"num", "digits", "list", "map"} \X Int)
        \cup ({"bool"} \X BOOLEAN) \cup ({"str"} \X {"empty", "text", "a_b", "010"})

Strings == {"private_key", "cidr", "gateway", "public_key", "preshared_key",
            "endpoint", "ipv4"}
Lists == {"addresses", "allowed_ips", "routes"}
Maps == {"options", "peer_options", "peers", "routing_table"}
Ints == {"listen_port", "mtu", "persistent_keepalive"}
Int64s == {"fwmark", "metric"}
Known == Strings \cup Lists \cup Maps \cup Ints \cup Int64s
             \cup {"route_allowed_ips"}

Required == {"private_key", "addresses", "peers", "cidr", "public_key",
             "allowed_ips"}
MayBeEmpty == {"routes", "options", "peer_options", "peers"}

\* The documents that are no interface, which no function from keys to values
\* is; and only the text {} has the document without interfaces.
Special == {NullDoc, NoInterfaces, NotAMap, Rejected}

ASSUME DocumentsAssumption ==
    /\ \A t \in DOMAIN Document :
        \/ Document[t] \in {Malformed, NoInterfaces, NotAMap}
        \/ /\ Document[t] \in [DOMAIN Document[t] -> Value]
           /\ Special \cap [DOMAIN Document[t] -> Value \cup {Rejected}] = {}
    /\ \A t \in DOMAIN Document : Document[t] = NoInterfaces <=> t = NoInterfaces
    /\ Special \cap [Known -> Value \cup {Nil}] = {}
    /\ NoInterfaces \notin {NullDoc, NotAMap, Rejected, Malformed}
    /\ Rejected \notin {NullDoc, NotAMap}
    /\ Nil \notin Value /\ Rejected \notin Value

Allowed(f) ==
    CASE f = "listen_port" -> 1..PortMax
      [] f = "mtu" -> MTUMin..PortMax
      [] f = "persistent_keepalive" -> 0..PortMax
      [] f = "fwmark" -> 1..Word32Max
      [] f = "metric" -> 0..Word32Max

\* What key f is nested in.
Parent(f) ==
    CASE f \in {"cidr", "gateway", "metric"} -> "routes"
      [] f \in {"public_key", "preshared_key", "allowed_ips", "endpoint",
                "persistent_keepalive", "peer_options"} -> "peers"
      [] f = "ipv4" -> "routing_table"
      [] OTHER -> "wg"

\* The struct that key f belongs to exists in document d.
Inside(d, f) ==
    \/ Parent(f) = "wg"
    \/ Parent(f) \in DOMAIN d /\ d[Parent(f)] \in {List(1), Map(1)}

-----------------------------------------------------------------------------
(* From YAML to the bundle's wg.                                           *)

ToJSON_Slip(t) ==
    IF t \in {Empty, Template} THEN NoInterfaces
    ELSE IF Document[t] = Malformed THEN Rejected ELSE Document[t]

\* A file of comments only is the document null, not an empty map.
ToJSON(t) ==
    IF t \in {Empty, Template} THEN NullDoc
    ELSE IF Document[t] = Malformed THEN Rejected ELSE Document[t]

IsInterface(j) == j \notin Special

normalizeFwmark_Slip(v) ==
    CASE v \in {Null, Fraction} \/ v[1] = "num" -> v
      [] v[1] = "digits" /\ v[2] # 0 -> Num(v[2] % (Int32Max + 1))
      [] OTHER -> Rejected

\* A string that spells a 32-bit number becomes that number.
normalizeFwmark(v) ==
    CASE v \in {Null, Fraction} \/ v[1] = "num" -> v
      [] v[1] = "digits" /\ v[2] \in 1..Word32Max -> Num(v[2])
      [] OTHER -> Rejected

\* A positive number becomes the string that spells it.
normalizeRoutingTable(v) ==
    CASE v = Null \/ v[1] \in {"str", "digits"} -> v
      [] v[1] = "num" /\ v[2] > 0 -> Digits(v[2])
      [] OTHER -> Rejected

normalizeWG(j) ==
    IF ~IsInterface(j) THEN j
    ELSE [f \in DOMAIN j |-> CASE f = "fwmark" -> normalizeFwmark(j[f])
                               [] f = "ipv4" -> normalizeRoutingTable(j[f])
                               [] OTHER -> j[f]]

-----------------------------------------------------------------------------
(* bundle.Parse, Validate and MarshalJSON.                                 *)

\* No null, no number that is not an integer of 64 bits.
checkRaw(j) ==
    \A f \in DOMAIN j :
        /\ j[f] \notin {Null, Fraction, Rejected}
        /\ j[f][1] = "num" => j[f][2] <= Int64Max

\* Value v decodes into the struct field of key f.
Decodes(int, f, v) ==
    CASE f \in Strings -> v[1] \in {"str", "digits"}
      [] f \in Lists -> v[1] = "list"
      [] f \in Maps -> v[1] = "map"
      [] f \in Ints -> v[1] = "num" /\ v[2] <= int
      [] f \in Int64s -> v[1] = "num"
      [] OTHER -> v[1] = "bool"

\* Parse succeeds, in a program whose largest int is `int`.
Parses(int, j) ==
    \/ j = NoInterfaces
    \/ /\ IsInterface(j)
       /\ checkRaw(j)
       /\ DOMAIN j \subseteq Known
       /\ \A f \in DOMAIN j : Decodes(int, f, j[f])

\* The struct that Parse returns: a string that is no pointer is empty if absent.
Parse(j) ==
    IF j = NoInterfaces THEN j
    ELSE [f \in Known |->
            IF f \in DOMAIN j THEN j[f]
            ELSE IF f \in Strings \cap Required /\ Inside(j, f) THEN Str("empty")
            ELSE Nil]

Validate_Slip(b) ==
    b # NoInterfaces =>
        \A f \in Known :
            /\ f \in Required /\ Inside(b, f) => b[f] # Nil
            /\ b[f] # Nil =>
                /\ b[f] # Str("empty")
                /\ f \in (Lists \cup Maps) \ MayBeEmpty => b[f][2] > 0
                /\ f \in Int64s => b[f][2] \in Allowed(f)
                /\ f = "ipv4" => b[f] \notin {Str("a_b"), Str("010"), Digits(0)}

\* Required keys are there, strings are not empty, numbers in their range.
Validate(b) ==
    b # NoInterfaces =>
        \A f \in Known :
            /\ f \in Required /\ Inside(b, f) => b[f] # Nil
            /\ b[f] # Nil =>
                /\ b[f] # Str("empty")
                /\ f \in (Lists \cup Maps) \ MayBeEmpty => b[f][2] > 0
                /\ f \in Ints \cup Int64s => b[f][2] \in Allowed(f)
                /\ f = "ipv4" => b[f] \notin {Str("a_b"), Str("010"), Digits(0)}

MarshalJSON_Slip(b) ==
    IF b = NoInterfaces THEN b
    ELSE Restrict(b, {f \in Known : b[f] \notin {Nil, Bool(FALSE)}})

\* What is not nil is written, an empty map, list or false as well.
MarshalJSON(b) ==
    IF b = NoInterfaces THEN b ELSE Restrict(b, {f \in Known : b[f] # Nil})

Canonical_Slip(b) == [wg |-> MarshalJSON(b.wg), timestamp |-> b.timestamp,
                      stunmesh |-> b.stunmesh]

\* The canonical form has everything but the timestamp.
Canonical(b) == [wg |-> MarshalJSON(b.wg), stunmesh |-> b.stunmesh]

Equal(b, c) == Canonical(b) = Canonical(c)

-----------------------------------------------------------------------------
(* buildBundle.                                                            *)

maxInnerBundleSize_Slip == 3 * (maxDHTValueSize \div 4)
maxInnerBundleSize == 3 * (maxDHTValueSize \div 4) - naclBoxOverhead

\* The wg section that buildBundle makes of a JSON document, as it is sent.
buildBundle(wg) ==
    LET j == normalizeWG(wg)
    IN  IF wg \notin {NullDoc, Rejected}
             /\ Parses(ControllerInt, j) /\ Validate(Parse(j))
        THEN MarshalJSON(Parse(j))
        ELSE Rejected

\* ... which refuses a bundle that would be too large once it is sealed.
Fits(stunmesh) == Size[stunmesh] <= maxInnerBundleSize

\* The bytes of the value in the DHT: base64 of nonce, box and bundle.
ValueSize(stunmesh) == 4 * ((Size[stunmesh] + naclBoxOverhead + 2) \div 3)

-----------------------------------------------------------------------------
(* What a wg section asks of the node.                                     *)

\* An absent key: routes are installed by default, the rest is as if empty.
Default(f) ==
    CASE f = "route_allowed_ips" -> Bool(TRUE)
      [] f \in Lists \cap MayBeEmpty -> List(0)
      [] f \in Maps \cap MayBeEmpty -> Map(0)
      [] OTHER -> Nil

\* What uci.BuildInterface reads in an interface of a bundle.
Effect(b) ==
    IF b = NoInterfaces THEN b
    ELSE [f \in Known |-> IF b[f] = Nil THEN Default(f) ELSE b[f]]

\* What document d of an operator says, by docs/format.md.
Intended(d) ==
    IF d = NoInterfaces THEN d
    ELSE [f \in Known |->
            IF f \notin DOMAIN d THEN Default(f)
            ELSE IF f = "fwmark" THEN Num(d[f][2])
            ELSE IF f = "ipv4" /\ d[f][1] = "num" THEN Digits(d[f][2])
            ELSE d[f]]
=============================================================================
