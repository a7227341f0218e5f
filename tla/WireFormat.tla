----------------------------- MODULE WireFormat -----------------------------
(***************************************************************************)
(* The pure conversions of src/server/handler.go between what the engine  *)
(* hands the handler and what leaves it:                                   *)
(*   - the rendering of a query for the logger (doQuery, 282, 309-321);   *)
(*   - rowToSQL and row2ToSQL, an engine row to wire values, and          *)
(*     schemaToFields, a schema to wire fields (724-787).                 *)
(* Each is an operator, translated from the code.  A behaviour takes one  *)
(* input of a bounded size, every one being an initial state, and makes   *)
(* one conversion; the properties compare its output with the spec's      *)
(* definition.  A query is its bytes; a cell of a row is nil, or a value  *)
(* its column type formats or rejects.                                    *)
(***************************************************************************)
EXTENDS Integers, Sequences, SequencesExt

CONSTANTS
    QueryBytes,    \* the bytes queries are made of
    MaxQueryLen,   \* the longest query rendered
    MaxLens,       \* values of h.maxLoggedQueryLen
    MaxColumns     \* the widest schema converted

-----------------------------------------------------------------------------
(* Query logging *)

\* queryLoggingRegex = `[\r\n\t ]+`, and the bytes of " " and "...".
LogSpace == {9, 10, 13, 32}
Space    == 32
Ellipsis == <<46, 46, 46>>

\* The rest of a byte string once the regex has consumed a run of its class.
RECURSIVE SkipLogSpace(_)
SkipLogSpace(s) ==
    IF s # <<>> /\ Head(s) \in LogSpace THEN SkipLogSpace(Tail(s)) ELSE s

\* Mutant: the class is replaced byte by byte (the regex without its +).
CollapseEachSpace(s) ==
    [i \in 1..Len(s) |-> IF s[i] \in LogSpace THEN Space ELSE s[i]]

\* queryLoggingRegex.ReplaceAll(query, " "): scanning left to right, each
\* leftmost longest match, a maximal run of the class, becomes one space.
RECURSIVE CollapseLogSpace(_)
CollapseLogSpace(s) ==
    CASE s = <<>>             -> <<>>
      [] Head(s) \in LogSpace -> <<Space>> \o CollapseLogSpace(SkipLogSpace(Tail(s)))
      [] OTHER                -> <<Head(s)>> \o CollapseLogSpace(Tail(s))

\* queryStr[:maxLoggedQueryLen] + "..." when the limit is positive and the
\* collapsed query is longer (len counts bytes).
TruncateLogged(s, max) ==
    IF max > 0 /\ Len(s) > max THEN SubSeq(s, 1, max) \o Ellipsis ELSE s

\* base64.StdEncoding: a 6-bit group as its character of A-Za-z0-9+/.
B64Char(x) ==
    CASE x < 26 -> 65 + x [] x < 52 -> 71 + x [] x < 62 -> x - 4
      [] x = 62 -> 43     [] OTHER  -> 47

\* base64.StdEncoding.EncodeToString: every three bytes become four
\* characters; a last group of one or two bytes is padded with "=".
RECURSIVE Base64(_)
Base64(s) ==
    IF s = <<>> THEN <<>>
    ELSE LET n  == IF Len(s) < 3 THEN Len(s) ELSE 3
             b  == [i \in 1..3 |-> IF i <= n THEN s[i] ELSE 0]
             g  == <<b[1] \div 4, (b[1] % 4) * 16 + b[2] \div 16,
                     (b[2] % 16) * 4 + b[3] \div 64, b[3] % 64>>
         IN [i \in 1..4 |-> IF i <= n + 1 THEN B64Char(g[i]) ELSE 61]
              \o Base64(SubSeq(s, n + 1, Len(s)))

\* doQuery 309-321: the "query" field the logger gets, and whether it gets
\* one at all.
LoggedQuery(q, maxLen, encode) ==
    [attached |-> encode \/ maxLen >= 0,
     text     |-> IF encode THEN Base64(q)
                  ELSE TruncateLogged(CollapseLogSpace(q), maxLen)]

-----------------------------------------------------------------------------
(* Rows and fields *)

\* Column types, those types.IsBinaryType holds of, and what a cell holds:
\* nil, a value its type's SQL formats, or one it rejects.
ColumnTypes == {"INT64", "TEXT", "BLOB"}
BinaryTypes == {"BLOB"}
Cells       == {"nil", "ok", "bad"}

WireNull        == [type |-> "NULL_TYPE", v |-> "-"]
Wire(t, v)      == [type |-> t, v |-> v]
Failed          == [type |-> "error", v |-> "-"]
Converted(vals) == [err |-> FALSE, vals |-> vals]
ConvertFailed   == [err |-> TRUE, vals |-> <<>>]

\* sql.Type.SQL and sql.Type2.SQL2 of a non-nil value.
TypeSQL(t, v) == IF v = "bad" THEN Failed ELSE Wire(t, v)

\* Mutant: the nil check is missing, so nil goes to the type's SQL.
RowToSQLNoNilCheck(s, row) ==
    LET RECURSIVE Loop(_, _)
        Loop(i, o) ==
            CASE i > Len(row)                   -> Converted(o)
              [] TypeSQL(s[i], row[i]) = Failed -> ConvertFailed
              [] OTHER -> Loop(i + 1, Append(o, TypeSQL(s[i], row[i])))
    IN Loop(1, <<>>)

\* rowToSQL: each value in order; nil becomes sqltypes.NULL, any other is
\* its column type's SQL, and the first error returns nil, err.
RowToSQL(s, row) ==
    LET RECURSIVE Loop(_, _)
        Loop(i, o) ==
            CASE i > Len(row)                   -> Converted(o)
              [] row[i] = "nil"                 -> Loop(i + 1, Append(o, WireNull))
              [] TypeSQL(s[i], row[i]) = Failed -> ConvertFailed
              [] OTHER -> Loop(i + 1, Append(o, TypeSQL(s[i], row[i])))
    IN Loop(1, <<>>)

\* The same row as a sql.Row2: each field knows whether it IsNull.
AsRow2(row) == [i \in 1..Len(row) |-> [null |-> row[i] = "nil", v |-> row[i]]]

\* row2ToSQL: for i < row.Len(), GetField(i); IsNull becomes sqltypes.NULL,
\* any other field its type's SQL2, and the first error returns nil, err.
Row2ToSQL(s, row) ==
    LET RECURSIVE Loop(_, _)
        Loop(i, o) ==
            CASE i > Len(row)                     -> Converted(o)
              [] row[i].null                      -> Loop(i + 1, Append(o, WireNull))
              [] TypeSQL(s[i], row[i].v) = Failed -> ConvertFailed
              [] OTHER -> Loop(i + 1, Append(o, TypeSQL(s[i], row[i].v)))
    IN Loop(1, <<>>)

\* schemaToFields: each column's wire type, with the binary charset for a
\* binary type and utf8 for any other.
SchemaToFields(s) ==
    [i \in 1..Len(s) |->
        [type |-> s[i], charset |-> IF s[i] \in BinaryTypes THEN "binary"
                                                            ELSE "utf8"]]

-----------------------------------------------------------------------------
(* One conversion per behaviour. *)

Queries == UNION {[1..n -> QueryBytes] : n \in 0..MaxQueryLen}

LogInputs == [kind : {"log"}, q : Queries, max : MaxLens, encode : BOOLEAN]
RowInputs == UNION {[kind : {"row"}, path : {"Row", "Row2"},
                     schema : [1..n -> ColumnTypes], row : [1..n -> Cells]] :
                    n \in 0..MaxColumns}

VARIABLES
    wIn,      \* the query and settings, or the schema and row, converted
    wOut,     \* what the conversion returned
    wDone     \* whether it has run

wireVars == <<wIn, wOut, wDone>>

WireInit == wIn \in LogInputs \cup RowInputs /\ wOut = <<>> /\ wDone = FALSE

\* doQuery renders the query for its logger.
RenderQueryLog ==
    /\ ~wDone /\ wIn.kind = "log"
    /\ wOut' = LoggedQuery(wIn.q, wIn.max, wIn.encode)
    /\ wDone' = TRUE /\ UNCHANGED wIn

\* The consumer converts a received row: rowToSQL on the RowIter path,
\* row2ToSQL on the RowIter2 path; the fields come from schemaToFields.
ConvertRow ==
    /\ ~wDone /\ wIn.kind = "row"
    /\ wOut' = [fields |-> SchemaToFields(wIn.schema),
                 row |-> IF wIn.path = "Row" THEN RowToSQL(wIn.schema, wIn.row)
                         ELSE Row2ToSQL(wIn.schema, AsRow2(wIn.row))]
    /\ wDone' = TRUE /\ UNCHANGED wIn

\* The conversion has returned.
WireReturned == wDone /\ UNCHANGED wireVars

WireNext == RenderQueryLog \/ ConvertRow \/ WireReturned

WireSpec == WireInit /\ [][WireNext]_wireVars

-----------------------------------------------------------------------------
(* The spec's definitions, and the properties. *)

\* Spec 4.E.6: every run of whitespace replaced by a single space.  A byte
\* is kept unless it continues a run; a kept whitespace byte is a space.
SpecCollapsed(q) ==
    LET keep == SelectSeq([i \in 1..Len(q) |-> i], LAMBDA i :
                    ~(q[i] \in LogSpace /\ i > 1 /\ q[i - 1] \in LogSpace))
    IN [j \in 1..Len(keep) |->
            IF q[keep[j]] \in LogSpace THEN Space ELSE q[keep[j]]]

\* Spec 6, maxLoggedQueryLen: truncated to that length with "...", 0 being
\* unlimited.
SpecTruncated(s, max) ==
    IF max = 0 \/ Len(s) <= max THEN s ELSE SubSeq(s, 1, max) \o Ellipsis

\* RFC 4648 base64, as spec 4.E.6 names it: the input, padded with zero
\* bytes to whole 24-bit groups, read as 6-bit digits looked up in the
\* alphabet A-Z a-z 0-9 + /; a digit made only of padding is "=".
B64Alphabet ==
    [i \in 1..26 |-> 64 + i] \o [i \in 1..26 |-> 96 + i]
      \o [i \in 1..10 |-> 47 + i] \o <<43, 47>>

SpecBase64(s) ==
    LET n      == Len(s)
        byte(i) == IF i <= n THEN s[i] ELSE 0
        group(g) == byte(3 * g + 1) * 65536 + byte(3 * g + 2) * 256
                      + byte(3 * g + 3)
        digit(k) == LET g == (k - 1) \div 4
                        j == (k - 1) % 4
                    IN IF 3 * g + j > n THEN 61
                       ELSE B64Alphabet[((group(g) \div (64 ^ (3 - j))) % 64) + 1]
    IN [k \in 1..4 * ((n + 2) \div 3) |-> digit(k)]

\* For every query of up to MaxQueryLen bytes and every setting, doQuery
\* gives the logger a query field whenever maxLoggedQueryLen >= 0 and none
\* when it is negative without encoding; the field is the base64 of the
\* original bytes when encoding, else the whitespace-collapsed query cut
\* to the limit with an ellipsis (spec 4.E.6 and 6).  The spec does not
\* say whether a negative limit also silences encoded logging; the code
\* logs it.
LoggedQueryAsSpecified ==
    wDone /\ wIn.kind = "log" =>
        LET q == wIn.q
            m == wIn.max
            e == wIn.encode
        IN /\ m >= 0 => wOut.attached
           /\ ~e /\ m < 0 => ~wOut.attached
           /\ wOut.attached =>
                 wOut.text = IF e THEN SpecBase64(q)
                             ELSE SpecTruncated(SpecCollapsed(q), m)

\* Spec 6's wire row conversion: a row fails exactly when one of its
\* non-null cells cannot be formatted; otherwise each null cell is NULL and
\* each other cell its type's formatting.
SpecWireRow(s, row) ==
    IF \E i \in 1..Len(row) : row[i] = "bad" THEN ConvertFailed
    ELSE Converted([i \in 1..Len(row) |->
                       IF row[i] = "nil" THEN WireNull ELSE Wire(s[i], row[i])])

\* For every schema of up to MaxColumns columns and every row of it, both
\* rowToSQL (the RowIter consumer) and row2ToSQL (the RowIter2 consumer)
\* convert the row as spec 6 says, so the two paths of the consumer put
\* the same values on the wire; and schemaToFields gives binary columns
\* the binary charset and every other column utf8.
WireRowsAsSpecified ==
    wDone /\ wIn.kind = "row" =>
        /\ wOut.row = SpecWireRow(wIn.schema, wIn.row)
        /\ \A i \in DOMAIN wIn.schema :
              wOut.fields[i].charset =
                  IF wIn.schema[i] = "BLOB" THEN "binary" ELSE "utf8"

=============================================================================
