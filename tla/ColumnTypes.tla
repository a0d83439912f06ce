---------------------------- MODULE ColumnTypes ----------------------------
(***************************************************************************)
(* The way of one column from Oracle to SQL Server: the destination type   *)
(* MapOracleType gives it, or InferMSSQLTypes after a look at a few rows,  *)
(* and what then becomes of its values (oracletypes.go, schema_infer.go    *)
(* and coerce.go in internal/dbconn).                                      *)
(*                                                                         *)
(* A number is its integer part's size and its count of decimals.  Sizes   *)
(* are the intervals that the code tells apart, by digits and by the       *)
(* integer type that is just wide enough.  A text or binary value is its   *)
(* length, a time its count of fractional digits (decimals).               *)
(***************************************************************************)
EXTENDS Integers, FiniteSets

CONSTANTS Columns,   \* columns considered: [type, prec, scale, length]
          Values,    \* values considered: [size, decimals, length]
          Forms,     \* what the driver makes of a number: int64, float64, text
          MaxSamples \* bound: distinct values sampled (the code: 5 rows)

\* Size 10 are the last 512 numbers before 2^63, which float64 rounds to it.
Digits == <<1, 4, 5, 5, 9, 10, 10, 18, 19, 19, 19, 20, 38>>
Sizes  == 0 .. 13               \* 0: less than one, no digits

\* The largest size that fits: up to 32767, 2147483647 and 2^63 - 1.
Widest == [SMALLINT |-> 3, INT |-> 6, BIGINT |-> 10]

Unlimited == 100000             \* the length of (MAX), or of a LOB
NoType == [name |-> "none", n |-> 0, scale |-> 0]

Numbers == {"NUMBER", "FLOAT", "BINARY_FLOAT", "BINARY_DOUBLE"}
Texts   == {"CHAR", "NCHAR", "VARCHAR2", "NVARCHAR2", "CLOB", "NCLOB", "LONG",
            "XMLTYPE", "INTERVAL", "ROWID", "UROWID", "JSON"}
Bytes   == {"RAW", "LONG_RAW", "BLOB", "BFILE"}
Times   == {"DATE", "TIMESTAMP", "TIMESTAMP_TZ"}   \* TZ: WITH TIME ZONE

\* What Oracle allows a column to be.  (Oracle: external.)
Declarable(c) ==
  /\ c.type = "NUMBER" => c.prec <= 38 /\ (c.prec > 0 => c.scale # Unlimited)
  /\ c.type = "BINARY_FLOAT" => c.prec <= 7
  /\ c.type \in {"CHAR", "NCHAR"} => c.length <= 2000
  /\ c.type \in {"VARCHAR2", "NVARCHAR2", "RAW"} => c.length <= 32767
  /\ c.type \in {"TIMESTAMP", "TIMESTAMP_TZ"} => c.scale \in 0 .. 9
  /\ c.type = "DATE" => c.scale = 0

ASSUME ColumnsAssumption ==
  /\ \A c \in Columns :
       /\ c.type \in Numbers \cup Texts \cup Bytes \cup Times
       /\ c.prec \in Nat \* 0: not known
       /\ c.scale \in Int /\ c.length \in Nat
       /\ Declarable(c)
  /\ \A v \in Values : v.size \in Sizes /\ v.decimals \in Nat /\ v.length \in Nat
  /\ Forms \subseteq {"int64", "float64", "text"} /\ MaxSamples \in Nat

VARIABLES
  column,    \* the column
  stage,     \* "new", "created" (in the schema phase), "ready" or "refused"
  sampled,   \* the values seen by the inference, if it gave the type
  type       \* the destination column's type

colVars == <<column, stage, sampled, type>>

IntDigits(v) == IF v.size = 0 THEN 0 ELSE Digits[v.size]
Significant(v) == IntDigits(v) + v.decimals
Least(a, b) == IF a < b THEN a ELSE b
Most(S) == CHOOSE m \in S : \A x \in S : x <= m

\* What a column may hold.  (Oracle: external.)
Holds(c, v) ==
  CASE c.type = "NUMBER" ->
         /\ v.length = 0
         /\ c.prec > 0 =>
              /\ Significant(v) <= c.prec
              /\ IntDigits(v) <= (IF c.scale > c.prec THEN 0 ELSE c.prec - c.scale)
         /\ c.scale # Unlimited => v.decimals <= (IF c.scale > 0 THEN c.scale ELSE 0)
    [] c.type \in Numbers \ {"NUMBER"} -> v.length = 0 /\ Significant(v) <= c.prec
    [] c.type \in Texts \cup Bytes ->
         v.size = 0 /\ v.decimals = 0
         /\ v.length \in 1 .. (CASE c.type = "ROWID" -> 18
                               [] c.type \in {"CLOB", "NCLOB", "LONG", "XMLTYPE", "JSON",
                                              "LONG_RAW", "BLOB"} -> Unlimited
                               [] OTHER -> c.length)
    [] OTHER -> v.size = 0 /\ v.length = 0 /\ v.decimals <= c.scale
DomainOf(c) == {v \in Values : Holds(c, v)}

-----------------------------------------------------------------------------
\* A name that ends in a _Word is a faulty variant of the definition that
\* follows it.

\* oracleNumberPrecScale: NUMBER and NUMBER(*,0) (which is INTEGER) count as
\* not known.  A scale that is not known is Unlimited.
KnownNumber(c) == c.prec > 0 \/ c.scale \notin {0, Unlimited}

IntegerType_Tight(digits) ==
  [name |-> IF digits <= 5 THEN "SMALLINT" ELSE IF digits <= 9 THEN "INT"
            ELSE IF digits <= 18 THEN "BIGINT" ELSE "DECIMAL",
   n |-> IF digits <= 18 THEN 0 ELSE Least(digits, 38), scale |-> 0]

IntegerType(digits) ==
  [name |-> IF digits <= 4 THEN "SMALLINT" ELSE IF digits <= 9 THEN "INT"
            ELSE IF digits <= 18 THEN "BIGINT" ELSE "DECIMAL",
   n |-> IF digits <= 18 THEN 0 ELSE Least(digits, 38), scale |-> 0]

mapOracleNumber_Signed(c) ==
  IF ~ KnownNumber(c) THEN [name |-> "FLOAT", n |-> 53, scale |-> 0]
  ELSE IF c.scale \in {0, Unlimited} THEN IntegerType(c.prec)
  ELSE [name |-> "DECIMAL", n |-> Least(c.prec, 38), scale |-> Least(c.scale, 38)]

mapOracleNumber(c) ==
  LET prec  == Least(c.prec, 38)
      scale == Least(c.scale, prec)
  IN
  IF ~ KnownNumber(c) THEN [name |-> "FLOAT", n |-> 53, scale |-> 0]
  ELSE IF c.scale \in {0, Unlimited} THEN IntegerType(c.prec)
  ELSE [name |-> "DECIMAL", n |-> prec, scale |-> IF scale < 0 THEN 0 ELSE scale]

\* NVARCHAR or VARBINARY of a length, or (MAX) when it is 0 or too long.
Sized(name, length, limit) ==
  [name |-> name, scale |-> 0,
   n |-> IF length \in 1 .. limit THEN length ELSE Unlimited]

MapOracleType(c) ==
  CASE c.type \in {"TIMESTAMP", "TIMESTAMP_TZ"} ->
         [name |-> "DATETIME2", n |-> 0, scale |-> Least(c.scale, 7)]
    [] c.type = "DATE" -> [name |-> "DATETIME2", n |-> 0, scale |-> 0]
    [] c.type = "INTERVAL" -> [name |-> "NVARCHAR", n |-> 50, scale |-> 0]
    [] c.type \in {"RAW", "LONG_RAW"} -> Sized("VARBINARY", c.length, 8000)
    [] c.type \in {"BLOB", "BFILE"} -> Sized("VARBINARY", 0, 8000)
    [] c.type \in {"CLOB", "NCLOB", "LONG", "XMLTYPE", "JSON"} -> Sized("NVARCHAR", 0, 4000)
    [] c.type \in {"CHAR", "NCHAR"} ->
         [name |-> "NCHAR", scale |-> 0, n |-> Most({1, Least(c.length, 4000)})]
    [] c.type \in {"VARCHAR2", "NVARCHAR2"} -> Sized("NVARCHAR", c.length, 4000)
    [] c.type = "BINARY_FLOAT" -> [name |-> "REAL", n |-> 0, scale |-> 0]
    [] c.type \in {"BINARY_DOUBLE", "FLOAT"} -> [name |-> "FLOAT", n |-> 53, scale |-> 0]
    [] c.type = "NUMBER" -> mapOracleNumber(c)
    [] c.type \in {"ROWID", "UROWID"} -> [name |-> "CHAR", n |-> 18, scale |-> 0]

\* analyzeNumericSamples takes every sample through float64 to int64.  Six
\* decimals are looked at; the zero before the point of a fraction counts as a
\* digit.  A whole sample that float64 takes to 2^63 or beyond comes out as
\* whatever the processor makes of it: a negative number, which counts as
\* nothing (amd64), or the largest int64.
SampleScale(v) == Least(v.decimals, 6)
SampleSize(v, over) == IF v.size > 9 THEN over ELSE v.size
SampleDigits(v, over) ==
  Most({1, IntDigits([size |-> SampleSize(v, over)])}) + SampleScale(v)

\* inferNumericMSSQLType
InferNumeric(S, over) ==
  IF \A v \in S : v.decimals = 0
  THEN LET maxAbs == Most({SampleSize(v, over) : v \in S})
       IN  [name |-> IF maxAbs <= Widest["SMALLINT"] THEN "SMALLINT"
                     ELSE IF maxAbs <= Widest["INT"] THEN "INT" ELSE "BIGINT",
            n |-> 0, scale |-> 0]
  ELSE LET prec  == Most({SampleDigits(v, over) : v \in S})
           scale == Most({SampleScale(v) : v \in S})
       IN  [name |-> "DECIMAL", n |-> Least(prec, IF scale <= 4 /\ prec <= 18 THEN 18 ELSE 38),
            scale |-> Least(scale, 10)]

\* inferStringMSSQLType.  The length known of a CLOB is that of its locator.
InferString(c, S) ==
  LET longest == Most({c.length} \cup {v.length : v \in S}) IN
  IF longest > 4000 THEN Sized("NVARCHAR", 0, 4000)
  ELSE IF MapOracleType(c).name = "NCHAR" THEN [name |-> "NCHAR", n |-> longest, scale |-> 0]
  ELSE [name |-> "NVARCHAR", n |-> longest, scale |-> 0]

\* inferColumnMSSQLType: where the samples count, and the types it may find.
SamplesCount(c) ==
  \/ c.type = "NUMBER" /\ ~ (KnownNumber(c) /\ c.scale >= 0)
  \/ c.type \in {"CHAR", "NCHAR", "VARCHAR2", "NVARCHAR2", "CLOB", "NCLOB"}
Infer(c, S) ==
  IF S = {} \/ ~ SamplesCount(c) THEN {MapOracleType(c)}
  ELSE IF c.type = "NUMBER" THEN {InferNumeric(S, over) : over \in {0, 10}}
  ELSE {InferString(c, S)}

-----------------------------------------------------------------------------
\* A value on its way: its form, and whether it is still the value.
InForms(v) ==
  {f \in Forms : f = "int64" => v.decimals = 0 /\ v.size <= 10}
Read(v, f) == [form |-> f, exact |-> f # "float64" \/ Significant(v) <= 15]

\* parseIntString, parseFloatString: a whole number that is not an int64 goes
\* through float64 to int64, and is no longer the number it was.
ParseInt(v) == [form |-> "int64", exact |-> v.size <= 10]
ParseFloat(v) == [form |-> "float64", exact |-> Significant(v) <= 15]

\* NormalizeValueForMSSQL for a number; BINARY_DOUBLE is not among the types
\* it knows as numeric.
Normalize(c, v, f) ==
  CASE f = "text" /\ c.type # "BINARY_DOUBLE" ->
         IF v.decimals = 0 THEN ParseInt(v) ELSE ParseFloat(v)
    [] f = "float64" /\ c.type # "BINARY_DOUBLE" /\ v.decimals = 0 /\ v.size <= 10 ->
         [Read(v, f) EXCEPT !.form = "int64"]
    [] OTHER -> Read(v, f)

\* CoerceValueForMSSQL for a number, after Normalize.
Coerce(c, v, f, t) ==
  LET r == Normalize(c, v, f) IN
  CASE t.name \in {"SMALLINT", "INT", "BIGINT"} /\ r.form # "int64" /\ v.decimals = 0 ->
         [ParseInt(v) EXCEPT !.exact = @ /\ r.exact]
    [] t.name \in {"DECIMAL", "FLOAT", "REAL"} ->
         [ParseFloat(v) EXCEPT !.exact = @ /\ r.exact]
    [] OTHER -> r

\* What a destination column takes, as the source relies on it: integers as
\* int64, other numbers as int64 or float64.  (SQL Server: external.)
Fits(r, v, t) ==
  CASE t.name \in {"SMALLINT", "INT", "BIGINT"} ->
         r.form = "int64" /\ v.size <= Widest[t.name]
    [] t.name = "DECIMAL" -> r.form # "text" /\ IntDigits(v) <= t.n - t.scale
    [] t.name \in {"FLOAT", "REAL"} -> r.form # "text"
Keeps(r, v, t) ==
  CASE t.name \in {"SMALLINT", "INT", "BIGINT"} -> r.exact
    [] t.name = "DECIMAL" -> r.exact /\ v.decimals <= t.scale
    [] t.name = "FLOAT" -> r.exact /\ Significant(v) <= 15
    [] t.name = "REAL" -> r.exact /\ Significant(v) <= 7

NumberArrives(c, v, f, t) ==
  \/ LET r == Normalize(c, v, f) IN Fits(r, v, t) /\ Keeps(r, v, t)
  \/ /\ ~ Fits(Normalize(c, v, f), v, t)
     /\ LET r == Coerce(c, v, f, t) IN Fits(r, v, t) /\ Keeps(r, v, t)

\* The value is stored as it is, whatever form the driver gave it.
Arrives(c, v, t) ==
  CASE c.type \in Numbers -> \A f \in InForms(v) : NumberArrives(c, v, f, t)
    [] c.type \in Texts \cup Bytes -> v.length <= t.n
    [] c.type \in Times -> v.decimals <= t.scale /\ c.type # "TIMESTAMP_TZ"

\* assessColumn: the columns for which the migration report has a warning
\* about values.
ReportWarns(c) ==
  c.type \in {"LONG", "LONG_RAW", "BFILE", "INTERVAL", "TIMESTAMP_TZ",
              "BLOB", "JSON"}

-----------------------------------------------------------------------------
ColInit == column \in Columns /\ stage = "new" /\ sampled = {} /\ type = NoType

\* SQL Server has no DECIMAL(0,0).
Legal(t) == t.name = "DECIMAL" => t.n > 0

\* The schema phase of RunBulk and RunDateRangeBackup: the type comes from
\* the catalog.
CreateFromCatalog ==
  /\ stage = "new"
  /\ IF Legal(MapOracleType(column))
     THEN stage' = "created" /\ type' = MapOracleType(column)
     ELSE stage' = "refused" /\ UNCHANGED type
  /\ UNCHANGED <<column, sampled>>

\* The distinct values among the first rows, of those a float64 carries.
Samples(c) ==
  LET D == {v \in DomainOf(c) : v.decimals = 0 \/ Significant(v) <= 15} IN
  {{}} \cup {{f[i] : i \in 1 .. MaxSamples} : f \in [1 .. MaxSamples -> D]}

\* PrepareDestinationTableInferred: a table that exists keeps its type.
KeepType ==
  /\ stage = "created" /\ stage' = "ready"
  /\ UNCHANGED <<column, sampled, type>>

CreateInferred ==
  /\ stage = "new"
  /\ \E S \in IF SamplesCount(column) THEN Samples(column) ELSE {{}} :
       \E t \in Infer(column, S) :
         IF Legal(t) THEN stage' = "ready" /\ type' = t /\ sampled' = S
         ELSE stage' = "refused" /\ UNCHANGED <<type, sampled>>
  /\ UNCHANGED column

ColNext == CreateFromCatalog \/ KeepType \/ CreateInferred
ColSpec == ColInit /\ [][ColNext]_colVars

ColTypeOK ==
  /\ column \in Columns /\ stage \in {"new", "created", "ready", "refused"}
  /\ sampled \subseteq Values
  /\ type.name \in {"none", "SMALLINT", "INT", "BIGINT", "DECIMAL", "FLOAT", "REAL", "NCHAR",
                    "NVARCHAR", "CHAR", "VARBINARY", "DATETIME2"}
  /\ type.scale \in 0 .. 38 /\ type.n \in Nat

\* What is lost, and no report says so.  Whole numbers that are not an int64
\* and numbers of more than 15 digits pass through float64 (twice they come
\* out as another number); a negative scale, or one above the precision,
\* narrows the type; SQL Server times have seven digits, row ids 18.
LostSilently(c, v) ==
  \/ c.type \in Numbers /\ Significant(v) > 15
  \/ c.type = "NUMBER" /\ c.prec > 0 /\ c.scale \notin 0 .. c.prec /\ c.scale # Unlimited
  \/ c.type = "TIMESTAMP" /\ v.decimals > 7
  \/ c.type = "UROWID" /\ v.length > 18

\* A type inferred from samples is only good for values like them: as long
\* and as large as one of them, and with decimals only if all of them have as
\* many, six at most; and for nothing if one of the samples is at the end of
\* int64 or beyond, and so may have counted for nothing.
LikeSamples(S, v) ==
  /\ \E s \in S : v.size <= s.size /\ v.length <= s.length
  /\ \A s \in S : s.size <= 9 /\ s.decimals = v.decimals /\ v.decimals <= 6

\* Every value the Oracle column may hold arrives as it is, unless the
\* migration report warns about the column, or it is one of the silent losses
\* - or the type was inferred and the value is unlike the samples.  The only
\* columns no table can be created for are NUMBERs of unknown precision with
\* a scale, NUMBER(*,2) or NUMBER(*,-2).
ValuesArrive ==
  /\ stage = "ready" =>
       \A v \in DomainOf(column) :
         \/ Arrives(column, v, type)
         \/ ReportWarns(column) \/ LostSilently(column, v)
         \/ sampled # {} /\ ~ LikeSamples(sampled, v)
  /\ stage = "refused" =>
       column.type = "NUMBER" /\ column.prec = 0 /\ column.scale \notin {0, Unlimited}
=============================================================================
