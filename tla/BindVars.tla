------------------------------ MODULE BindVars ------------------------------
(***************************************************************************)
(* bindingsToExprs (src/server/handler.go): the bind variables of a       *)
(* prepared statement are converted one by one, in Go's map order, into   *)
(* engine literals; the first failure aborts the conversion.              *)
(*                                                                         *)
(* A wire type is vitess' querypb.Type code, whose high bits are flags    *)
(* (integral, unsigned, float, quoted, text, binary): the code's switch   *)
(* tests those flags with sqltypes.IsSigned / IsUnsigned / IsFloat, so    *)
(* the order of its cases decides what a type with several flags becomes. *)
(* A value is abstracted to whether it parses as its type; lengths,       *)
(* precisions and the values themselves are left out.                     *)
(***************************************************************************)
EXTENDS Naturals, FiniteSets, Bitwise

CONSTANTS
    Keys   \* the bind variable names of one statement

\* querypb.Type codes (vitess query.proto); the names are the wire types.
Code == [NULL_TYPE |-> 0, INT8 |-> 257, UINT8 |-> 770, INT16 |-> 259,
         UINT16 |-> 772, INT24 |-> 261, UINT24 |-> 774, INT32 |-> 263,
         UINT32 |-> 776, INT64 |-> 265, UINT64 |-> 778, FLOAT32 |-> 1035,
         FLOAT64 |-> 1036, TIMESTAMP |-> 2061, DATE |-> 2062, TIME |-> 2063,
         DATETIME |-> 2064, YEAR |-> 785, DECIMAL |-> 18, TEXT |-> 6163,
         BLOB |-> 10260, VARCHAR |-> 6165, VARBINARY |-> 10262,
         CHAR |-> 6167, BINARY |-> 10264, BIT |-> 2073, ENUM |-> 2074,
         SET |-> 2075, TUPLE |-> 28, GEOMETRY |-> 2077, JSON |-> 2078,
         EXPRESSION |-> 31, HEXNUM |-> 4128, HEXVAL |-> 4129]

WireTypes == DOMAIN Code

\* sqltypes' flag tests.
FlagIntegral == 256
FlagUnsigned == 512
FlagFloat    == 1024
FlagQuoted   == 2048
IsSigned(t)   == (Code[t] & (FlagIntegral + FlagUnsigned)) = FlagIntegral
IsUnsigned(t) == (Code[t] & (FlagIntegral + FlagUnsigned))
                     = FlagIntegral + FlagUnsigned
IsFloat(t)    == (Code[t] & FlagFloat) = FlagFloat
IsQuoted(t)   == (Code[t] & FlagQuoted) = FlagQuoted

\* The outcome of converting one binding: a literal of some kind, or an
\* error (of the same shape).  Binary, string and datetime literals keep
\* the wire type they were created from.
Lit(kind, from) == [kind |-> kind, from |-> from]
Unsupported == Lit("ErrUnsupportedOperation", "-")
ParseError  == Lit("parse error", "-")
NoError     == Lit("nil", "-")

LiteralKinds == {"Year", "Int64", "Uint64", "Float64", "Decimal", "Bit",
                 "Null", "Binary", "String", "Datetime", "Time"}
Literals == [kind : LiteralKinds, from : WireTypes \cup {"-"}]

\* sqltypes.NewValue: integral, float and decimal values are parsed and
\* may be malformed; quoted, bit and null values are taken as they are;
\* any other type is refused.
NewValueOk(t, parses) ==
    IF IsSigned(t) \/ IsUnsigned(t) \/ IsFloat(t) \/ t = "DECIMAL"
    THEN parses
    ELSE IsQuoted(t) \/ t \in {"BIT", "HEXNUM", "HEXVAL", "NULL_TYPE"}

\* Mutant: the default case is missing and the value passes through.
NamedLiteralNoDefault(t) ==
    CASE t = "DECIMAL" -> Lit("Decimal", "-")
      [] t = "BIT" -> Lit("Bit", "-")
      [] t = "NULL_TYPE" -> Lit("Null", "-")
      [] t \in {"BLOB", "VARBINARY", "BINARY"} -> Lit("Binary", t)
      [] t \in {"TEXT", "VARCHAR", "CHAR"} -> Lit("String", t)
      [] t \in {"DATE", "DATETIME", "TIMESTAMP"} -> Lit("Datetime", t)
      [] t = "TIME" -> Lit("Time", "-")
      [] OTHER -> Lit(t, t)

\* The cases of the switch that test the type itself (they exclude each
\* other), and the default: any other type is unsupported.
NamedLiteral(t) ==
    CASE t = "DECIMAL" -> Lit("Decimal", "-")
      [] t = "BIT" -> Lit("Bit", "-")
      [] t = "NULL_TYPE" -> Lit("Null", "-")
      [] t \in {"BLOB", "VARBINARY", "BINARY"} -> Lit("Binary", t)
      [] t \in {"TEXT", "VARCHAR", "CHAR"} -> Lit("String", t)
      [] t \in {"DATE", "DATETIME", "TIMESTAMP"} -> Lit("Datetime", t)
      [] t = "TIME" -> Lit("Time", "-")
      [] OTHER -> Unsupported

\* Mutant: the Year case is tested after the integer flags.
LiteralOfYearLate(t) ==
    IF IsSigned(t) THEN Lit("Int64", "-")
    ELSE IF IsUnsigned(t) THEN Lit("Uint64", "-")
    ELSE IF t = "YEAR" THEN Lit("Year", "-")
    ELSE IF IsFloat(t) THEN Lit("Float64", "-")
    ELSE NamedLiteral(t)

\* The switch of bindingsToExprs, its cases in the code's order: Year
\* carries the integral and unsigned flags, so it must come first.
LiteralOf(t) ==
    IF t = "YEAR" THEN Lit("Year", "-")
    ELSE IF IsSigned(t) THEN Lit("Int64", "-")
    ELSE IF IsUnsigned(t) THEN Lit("Uint64", "-")
    ELSE IF IsFloat(t) THEN Lit("Float64", "-")
    ELSE NamedLiteral(t)

\* Converting one binding: NewValue, then its case's parse and Convert
\* (which fail exactly when the value does not parse; a Null has none).
Convert(b) ==
    CASE ~NewValueOk(b.type, b.parses)                 -> ParseError
      [] LiteralOf(b.type) = Unsupported               -> Unsupported
      [] ~b.parses /\ b.type # "NULL_TYPE"             -> ParseError
      [] OTHER                                         -> LiteralOf(b.type)

Binding == [type : WireTypes, parses : BOOLEAN]

VARIABLES
    bindings,   \* the statement's bind variables
    pending,    \* the keys the range loop has not reached yet
    res,        \* the literals made so far
    err         \* the returned error, NoError while none

vars == <<bindings, pending, res, err>>

Init ==
    /\ bindings \in [Keys -> Binding]
    /\ pending = Keys
    /\ res = [k \in {} |-> NoError]
    /\ err = NoError

\* One iteration of `for k, v := range bindings`, for whichever key Go's
\* map order yields next: a failure returns at once.
ConvertBinding(k) ==
    /\ err = NoError /\ k \in pending
    /\ pending' = pending \ {k}
    /\ LET out == Convert(bindings[k])
       IN IF out \in {ParseError, Unsupported}
          THEN err' = out /\ UNCHANGED res
          ELSE res' = [j \in DOMAIN res \cup {k} |->
                          IF j = k THEN out ELSE res[j]] /\ UNCHANGED err
    /\ UNCHANGED bindings

\* The function has returned.
Returned ==
    /\ err # NoError \/ pending = {}
    /\ UNCHANGED vars

Next == (\E k \in Keys : ConvertBinding(k)) \/ Returned

Spec == Init /\ [][Next]_vars

-----------------------------------------------------------------------------
(* Properties. *)

TypeOK ==
    /\ bindings \in [Keys -> Binding]
    /\ pending \subseteq Keys
    /\ DOMAIN res \subseteq Keys /\ \A k \in DOMAIN res : res[k] \in Literals
    /\ err \in {NoError, ParseError, Unsupported}

\* The coercion table of spec §4.A, by wire type name.
SpecLiteral(t) ==
    CASE t = "YEAR" -> Lit("Year", "-")
      [] t \in {"INT8", "INT16", "INT24", "INT32", "INT64"} -> Lit("Int64", "-")
      [] t \in {"UINT8", "UINT16", "UINT24", "UINT32", "UINT64"} ->
             Lit("Uint64", "-")
      [] t \in {"FLOAT32", "FLOAT64"} -> Lit("Float64", "-")
      [] t = "DECIMAL" -> Lit("Decimal", "-")
      [] t = "BIT" -> Lit("Bit", "-")
      [] t = "NULL_TYPE" -> Lit("Null", "-")
      [] t \in {"BLOB", "VARBINARY", "BINARY"} -> Lit("Binary", t)
      [] t \in {"TEXT", "VARCHAR", "CHAR"} -> Lit("String", t)
      [] t \in {"DATE", "DATETIME", "TIMESTAMP"} -> Lit("Datetime", t)
      [] t = "TIME" -> Lit("Time", "-")
      [] OTHER -> Unsupported

\* Per the spec, a binding converts when its type is in the table and its
\* value parses (a Null carries none).
SpecConverts(b) ==
    SpecLiteral(b.type) # Unsupported /\ (b.parses \/ b.type = "NULL_TYPE")

\* Once bindingsToExprs has gone through the map, whatever its order: it
\* succeeded exactly when every binding converts per spec §4.A, and then
\* each name maps to the literal type the table gives its wire type; it
\* failed with UnsupportedOperation only if some binding has a type outside
\* the table.
CoercionMatchesTable ==
    (err # NoError \/ pending = {}) =>
        /\ (err = NoError) = (\A k \in Keys : SpecConverts(bindings[k]))
        /\ err = NoError =>
              res = [k \in Keys |-> SpecLiteral(bindings[k].type)]
        /\ err = Unsupported =>
              \E k \in Keys : SpecLiteral(bindings[k].type) = Unsupported

=============================================================================
