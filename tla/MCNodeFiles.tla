---------------------------- MODULE MCNodeFiles ----------------------------
(* NodeFiles with documents that differ from a common one in one key, and  *)
(* number types of a few bits.                                             *)
EXTENDS NodeFiles

CONSTANTS k, l, app, full, huge

MCIdentity == {k, l}
MCStunmesh == {Empty, app, full, huge}
MCSize == [s \in MCStunmesh |-> CASE s = full -> 98 [] s = huge -> 99
                                  [] OTHER -> 10]

\* An interface with one peer, one route and every key.
Whole ==
    [f \in Known |->
        CASE f \in Strings -> Str("text")
          [] f \in Lists -> List(1)
          [] f \in Maps -> Map(1)
          [] f \in Ints -> Num(PortMax)
          [] f \in Int64s -> Num(Word32Max)
          [] OTHER -> Bool(FALSE)]

\* The values that are worth writing for key f, most of them an error.
Values(f) ==
    {Null} \cup
    (CASE f = "ipv4" -> {Str("empty"), Str("a_b"), Str("010"), Num(0), Num(5), Digits(5), Fraction}
       [] f \in Strings -> {Str("empty"), Num(5)}
       [] f \in Lists -> {List(0), Map(0)}
       [] f \in Maps -> {Map(0), List(0)}
       [] f = "fwmark" -> {Digits(0), Digits(Int32Max + 2), Digits(Word32Max), Digits(Word32Max + 1), Num(0), Str("010"), Fraction}
       [] f \in Ints -> {Num(-1), Num(0), Num(MTUMin), Num(PortMax + 1), Num(Int32Max + 1), Digits(3)}
       [] f \in Int64s -> {Num(-1), Num(0), Num(Word32Max + 1), Num(Int64Max + 1)}
       [] OTHER -> {Bool(TRUE), Str("text")})

Nested(f, v) == IF v \in {List(1), Map(1)} THEN {} ELSE {g \in Known : Parent(g) = f}

Without(f) == Restrict(Whole, Known \ ({f} \cup Nested(f, Nil)))
With(f, v) == Restrict([Whole EXCEPT ![f] = v], Known \ Nested(f, v))
WithOther == [f \in Known \cup {"other"} |-> IF f = "other" THEN Str("text") ELSE Whole[f]]

MCWGText ==
    {NoInterfaces, NotAMap, Malformed, <<"whole">>, <<"other">>}
        \cup {<<"without", f>> : f \in Known}
        \cup UNION {{<<"with", f, v>> : v \in Values(f)} : f \in Known}

MCDocument ==
    [t \in MCWGText |->
        IF t \in {NoInterfaces, NotAMap, Malformed} THEN t
        ELSE CASE t[1] = "whole" -> Whole
               [] t[1] = "other" -> WithOther
               [] t[1] = "without" -> Without(t[2])
               [] t[1] = "with" -> With(t[2], t[3])]

MCDrafts == {NoInterfaces, Malformed, <<"whole">>, <<"without", "peers">>,
             <<"with", "route_allowed_ips", Bool(TRUE)>>}

Tree(key, wg, stunmesh, events) ==
    [file |-> [f \in File |-> CASE f = "identity.pub" -> key [] f = "wg.yaml" -> wg
                                [] OTHER -> stunmesh],
     events |-> events]

\* No node yet, a node in use, or one with any of the texts.
MCTrees ==
    {Tree(Absent, Absent, Absent, 4), Tree(k, <<"whole">>, app, 3)}
        \cup {Tree(k, t, app, 1) : t \in MCWGText}
=============================================================================
