------------------------------ MODULE MCRowFormat -------------------------------
(* TLC instance of RowFormat: three names whose hash order differs from every     *)
(* declaration order but one; scalars of floats and integers, a list of one, one  *)
(* longer than a cache line, and a two-dimensional field.                         *)
EXTENDS RowFormat

CONSTANTS p, q, r

Hashes == p :> 3 @@ q :> 1 @@ r :> 2

Field(n, d, s) == [name |-> n, dtype |-> d, shape |-> s]

FieldChoices ==
    p :> {Field(p, "float32", <<>>), Field(p, "float64", <<>>), Field(p, "float64", <<1>>)}
    @@ q :> {Field(q, "uint8", <<17>>), Field(q, "int32", <<17>>)}
    @@ r :> {Field(r, "int64", <<>>), Field(r, "int32", <<>>), Field(r, "int32", <<1, 1>>)}

Samples ==
    [float32 |-> <<"tenth", "-1">>, float64 |-> <<"tenth", "0.5">>,
     int32 |-> <<"big31", "-1">>, int64 |-> <<"big63", "big31">>,
     uint8 |-> <<"1", Zero>>]

================================================================================
