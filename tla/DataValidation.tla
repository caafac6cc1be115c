--------------------------- MODULE DataValidation ---------------------------
(***************************************************************************)
(* validateMethodArgs: what happens to one argument of a decorated method  *)
(* on its way to the method, and DBOSJSON, through which the arguments of  *)
(* a workflow go when they are recorded.  Numbers are counted in halves,   *)
(* so that 5 stands for 2.5; strings are tokens with what the parsers of   *)
(* the language make of them in tables.                                    *)
(***************************************************************************)
EXTENDS Integers

VARIABLE passed       \* an argument: its description and the value passed

Val(t, v) == [t |-> t, v |-> v]
Undefined == Val("undefined", 0)
Null      == Val("null", 0)
Refused   == Val("DBOSDataValidationError", 0)

Strings == {"abc", "abcdefgh", "TRUE", "f", "0", "1", "2.5", "2024-01-01", "uuid"}
Values ==
  {Undefined, Null, Val("object", 0)}
    \cup {Val(t, s) : t \in {"string", "String"}, s \in Strings}
    \cup {Val(t, n) : t \in {"number", "Number", "bigint"}, n \in {-10, 0, 2, 4, 5}}
    \cup {Val(t, b) : t \in {"boolean", "Boolean"}, b \in BOOLEAN}
    \cup {Val("Date", d) : d \in {"2024-01-01", "later"}}

\* External: length, toLowerCase, parseFloat and Date.parse.
Long      == {"abcdefgh", "2024-01-01", "uuid"}
Truthy    == {"TRUE", "1"}
Falsy     == {"f", "0"}
Floats    == [s \in {"0", "1", "2.5", "2024-01-01"} |->
                CASE s = "0" -> 0 [] s = "1" -> 2 [] s = "2.5" -> 5 [] s = "2024-01-01" -> 4048]
DateTexts == {"0", "1", "2.5", "2024-01-01"}

\* DBOSDataType, and whether the argument (ArgRequired, ArgOptional) or its
\* class (DefaultArgRequired, DefaultArgOptional) asks for a value.
ArgRequired == {"REQUIRED", "OPTIONAL", "DEFAULT"}
DefaultArgRequired == {"REQUIRED", "OPTIONAL"}
Described ==
  [type : {"text", "boolean", "decimal", "double", "integer", "timestamp", "uuid", "json"},
   digits : {0, 1, 2}, required : ArgRequired, defaultArgRequired : DefaultArgRequired]

\* The decorators that replace the type of the signature.
ArgDate(d) == [d EXCEPT !.type = "timestamp"]
ArgVarchar(d, length) == [d EXCEPT !.type = "varchar", !.digits = length]

isRequired(d) == d.required = "REQUIRED" \/ (d.required = "DEFAULT" /\ d.defaultArgRequired = "REQUIRED")

\* Null is folded to undefined, objects around a primitive are opened.
Folded(x) ==
  CASE x.t = "null"    -> Undefined
    [] x.t = "String"  -> Val("string", x.v)
    [] x.t = "Number"  -> Val("number", x.v)
    [] x.t = "Boolean" -> Val("boolean", x.v)
    [] OTHER           -> x

asText(d, x) ==
  IF x.t # "string" \/ (d.type = "varchar" /\ d.digits > 0 /\ x.v \in Long) THEN Refused ELSE x

asBoolean(x) ==
  CASE x.t = "boolean" -> x
    [] x.t = "number" /\ x.v \in {0, 2} -> Val("boolean", x.v # 0)
    [] x.t = "string" /\ x.v \in Truthy -> Val("boolean", TRUE)
    [] x.t = "string" /\ x.v \in Falsy -> Val("boolean", FALSE)
    [] OTHER -> Refused

\* A decimal of n digits is held against e^n.
ExpHalves == <<5, 14>>
asDecimal(d, x) ==
  IF x.t # "number" THEN Refused
  ELSE IF d.digits > 0 /\ (x.v > ExpHalves[d.digits] \/ -x.v > ExpHalves[d.digits]) THEN Refused ELSE x

asNumber(d, x) ==
  LET n == CASE x.t = "number" -> x
             [] x.t = "string" /\ x.v \in DOMAIN Floats -> Val("number", Floats[x.v])
             [] x.t = "bigint" -> Val("number", x.v)
             [] OTHER -> Refused
  IN  IF d.type = "integer" /\ n # Refused /\ n.v % 2 # 0 THEN Refused ELSE n

\* Mutant: a date that is one already is turned away.
asTimestampText(x) == IF x.t = "string" /\ x.v \in DateTexts THEN Val("Date", x.v) ELSE Refused

asTimestamp(x) ==
  CASE x.t = "Date" -> x
    [] x.t = "string" /\ x.v \in DateTexts -> Val("Date", x.v)
    [] OTHER -> Refused

asUuid(x) == IF x.t = "string" /\ x.v = "uuid" THEN x ELSE Refused

validateMethodArg(d, value) ==
  LET x == Folded(value)
  IN  IF x = Undefined THEN IF isRequired(d) THEN Refused ELSE x
      ELSE CASE d.type \in {"text", "varchar"} -> asText(d, x)
             [] d.type = "boolean" -> asBoolean(x)
             [] d.type = "decimal" -> asDecimal(d, x)
             [] d.type \in {"double", "integer"} -> asNumber(d, x)
             [] d.type = "timestamp" -> asTimestamp(x)
             [] d.type = "uuid" -> asUuid(x)
             [] OTHER -> x

\* DBOSJSON.parse(DBOSJSON.stringify(...)) of an array of arguments: dates and
\* bigints keep their type, undefined becomes null.
Recorded(x) == IF x \in {Undefined, Null} THEN Null ELSE Folded(x)

ArgumentInit ==
  \E d \in Described, x \in Values :
     passed \in {[d |-> e, x |-> x] : e \in {d, ArgDate(d), ArgVarchar(d, 1)}}

-----------------------------------------------------------------------------
\* An execution that starts from the recorded inputs, and one whose arguments
\* were validated before they were passed on, hand the method what the first
\* one did, or refuse what it refused (initWorkflowStatus, validateMethodArgs).
ValidatedAlike ==
  LET d == passed.d  r == validateMethodArg(d, passed.x)
  IN  /\ validateMethodArg(d, Recorded(passed.x)) = r
      /\ r # Refused => validateMethodArg(d, r) = r
=============================================================================
