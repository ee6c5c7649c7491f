--------------------------- MODULE FunctionalUnit ---------------------------
(***************************************************************************)
(* The functional unit twice: fu.sv on WIDTH-bit words, and execute_fu of  *)
(* the golden model on unbounded integers masked to WIDTH bits.  A result  *)
(* is [data, pred], each present or absent.                                *)
(***************************************************************************)
EXTENDS Integers, Bitwise

CONSTANT WIDTH   \* bits of a word (32 in cgra_pkg), a power of two

Modulus == 2 ^ WIDTH

NoResult == [valid |-> FALSE, value |-> 0]
DataResult(v) == [data |-> [valid |-> TRUE, value |-> v], pred |-> NoResult]
PredResult(b) == [data |-> NoResult,
                  pred |-> [valid |-> TRUE, value |-> IF b THEN 1 ELSE 0]]

\* fu.sv: sums and products keep the low WIDTH bits; the shift amount is the
\* low log2(WIDTH) bits of b (data_b[4:0]).
fu_sv(op, a, b, p0, p1) ==
    CASE op = "NOP"     -> [data |-> NoResult, pred |-> NoResult]
      [] op = "PASS"    -> DataResult(a)
      [] op = "ADD"     -> DataResult((a + b) % Modulus)
      [] op = "SUB"     -> DataResult((a + (Modulus - b)) % Modulus)
      [] op = "MUL"     -> DataResult((a * b) % Modulus)
      [] op = "AND"     -> DataResult(a & b)
      [] op = "OR"      -> DataResult(a | b)
      [] op = "XOR"     -> DataResult(a ^^ b)
      [] op = "SHL"     -> DataResult((a * 2 ^ (b % WIDTH)) % Modulus)
      [] op = "LSHR"    -> DataResult(a \div 2 ^ (b % WIDTH))
      [] op = "SELECT"  -> DataResult(IF p0 = 1 THEN a ELSE b)
      [] op = "CMP_EQ"  -> PredResult(a = b)
      [] op = "CMP_NE"  -> PredResult(a # b)
      [] op = "CMP_ULT" -> PredResult(a < b)
      [] op = "CMP_ULE" -> PredResult(a =< b)
      [] op = "PPASS"   -> PredResult(p0 = 1)
      [] op = "PNOT"    -> PredResult(p0 = 0)
      [] op = "PAND"    -> PredResult(p0 = 1 /\ p1 = 1)
      [] op = "POR"     -> PredResult(p0 = 1 \/ p1 = 1)

mask(v) == v % Modulus

\* execute_fu: Python integers, so a difference may be negative and a shifted
\* word longer than WIDTH bits before the mask.
execute_fu(op, a, b, p0, p1) ==
    CASE op = "NOP"     -> [data |-> NoResult, pred |-> NoResult]
      [] op = "PASS"    -> DataResult(mask(a))
      [] op = "ADD"     -> DataResult(mask(a + b))
      [] op = "SUB"     -> DataResult(mask(a - b))
      [] op = "MUL"     -> DataResult(mask(a * b))
      [] op = "AND"     -> DataResult(a & b)
      [] op = "OR"      -> DataResult(a | b)
      [] op = "XOR"     -> DataResult(a ^^ b)
      [] op = "SHL"     -> DataResult(mask(a * 2 ^ (b & (WIDTH - 1))))
      [] op = "LSHR"    -> DataResult(a \div 2 ^ (b & (WIDTH - 1)))
      [] op = "SELECT"  -> DataResult(IF p0 # 0 THEN a ELSE b)
      [] op = "CMP_EQ"  -> PredResult(a = b)
      [] op = "CMP_NE"  -> PredResult(a # b)
      [] op = "CMP_ULT" -> PredResult(a < b)
      [] op = "CMP_ULE" -> PredResult(a =< b)
      [] op = "PPASS"   -> PredResult(p0 # 0)
      [] op = "PNOT"    -> PredResult(~(p0 # 0))
      [] op = "PAND"    -> PredResult(p0 # 0 /\ p1 # 0)
      [] op = "POR"     -> PredResult(p0 # 0 \/ p1 # 0)
=============================================================================
