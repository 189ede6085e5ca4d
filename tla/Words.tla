-------------------------------- MODULE Words --------------------------------
(***************************************************************************)
(* The values of MicroOCaml and the 64-bit words that stand for them:      *)
(* types.rkt and types.h with the classification of values.c, the          *)
(* primitives of compile-ops.rkt that work on one or two words without the *)
(* heap, and the bytes of a character (print.c).  A word is the signed     *)
(* integer it is for C and for the comparisons of the compiled code, so    *)
(* that masking by 2^k - 1 is % 2^k, and an arithmetic shift a product or  *)
(* a quotient.                                                             *)
(***************************************************************************)
EXTENDS Integers

CONSTANT Half               \* 2^63: the words are -Half .. Half - 1

(* Every character fits in a word, and the tags divide the words evenly.   *)
ASSUME HalfAssumption == Half \in Nat /\ Half % 32 = 0 /\ Half > 32 * 1114112

Word(type, n) == [type |-> type, n |-> n]
Num(n) == Word("int", n)
Char(n) == Word("char", n)
False == Word("bool", 0)
True == Word("bool", 1)
Empty == Word("empty", 0)
Void == Word("void", 0)
Eof == Word("eof", 0)
Truth(b) == IF b THEN True ELSE False

MaxCodepoint == 1114111
Pointers == {"box", "cons", "vect", "str", "proc"}

(* The values a word can stand for; a pointer counts words of the heap.     *)
Ints == {i \in Int : -Half <= 16 * i /\ 16 * i < Half}
Addresses == {a \in Nat : 8 * a + 7 < Half}
Values ==
    {Num(i) : i \in Ints} \cup {Char(c) : c \in 0..MaxCodepoint}
    \cup {False, True, Empty, Void, Eof}
    \cup {Word(t, a) : t \in Pointers, a \in Addresses}

-----------------------------------------------------------------------------
(* types.rkt *)

(* what is left of a number in a register *)
Signed(x) == ((x + Half) % (2 * Half)) - Half

Tag(type) ==
    CASE type = "box" -> 1 [] type = "cons" -> 2 [] type = "vect" -> 3
      [] type = "str" -> 4 [] type = "proc" -> 5

val_wrap_int(i) == Signed(16 * i)

(* A bug for the mutants: characters shifted as integers are. *)
val_wrap_charNarrow(c) == 16 * c + 8

val_wrap_char(c) == 32 * c + 8

(* value->bits, and the pointers that the allocating primitives tag *)
ValueToBits(v) ==
    CASE v.type = "int" -> val_wrap_int(v.n)
      [] v.type = "char" -> val_wrap_char(v.n)
      [] v.type = "bool" -> IF v.n = 1 THEN 24 ELSE 56
      [] v.type = "eof" -> 88
      [] v.type = "void" -> 120
      [] v.type = "empty" -> 152
      [] OTHER -> 8 * v.n + Tag(v.type)

(* values.c: the pointers first, then integers, characters and constants *)
val_typeof(x) ==
    CASE x % 8 = 1 -> "box"
      [] x % 8 = 2 -> "cons"
      [] x % 8 = 3 -> "vect"
      [] x % 8 = 4 -> "str"
      [] x % 8 = 5 -> "proc"
      [] x % 16 = 0 -> "int"
      [] x % 32 = 8 -> "char"
      [] x \in {24, 56} -> "bool"
      [] x = 88 -> "eof"
      [] x = 120 -> "void"
      [] x = 152 -> "empty"
      [] OTHER -> "invalid"

(* the unwrap functions of values.c, each on the words of its type *)
val_unwrap(x) ==
    Word(val_typeof(x),
         CASE val_typeof(x) = "int" -> x \div 16
           [] val_typeof(x) = "char" -> x \div 32
           [] val_typeof(x) \in Pointers -> x \div 8
           [] x = 24 -> 1
           [] OTHER -> 0)

-----------------------------------------------------------------------------
(* assert.rkt, on values and on words *)

Asserted1(p, w) ==
    CASE p \in {"add1", "sub1", "zero?"} -> w.type = "int"
      [] p = "integer->char" ->         \* 55295 and 57344 are refused
            /\ w.type = "int" /\ w.n \in 0..MaxCodepoint
            /\ (w.n < 55295 \/ w.n > 57344)
      [] p = "char->integer" -> w.type = "char"
      [] p = "unbox" -> w.type = "box"
      [] p \in {"car", "cdr"} -> w.type = "cons"
      [] p = "vector-length" -> w.type = "vect"
      [] p = "string-length" -> w.type = "str"
      [] p = "write-byte" -> w.type = "int" /\ w.n \in 0..255
      [] OTHER -> TRUE

Passes1(p, x) ==
    CASE p \in {"add1", "sub1", "zero?"} -> x % 16 = 0
      [] p = "integer->char" ->
            /\ x % 16 = 0 /\ 0 <= x /\ x <= 16 * MaxCodepoint
            /\ (x < 16 * 55295 \/ x > 16 * 57344)
      [] p = "char->integer" -> x % 32 = 8
      [] p = "unbox" -> x % 8 = 1
      [] p \in {"car", "cdr"} -> x % 8 = 2
      [] p = "vector-length" -> x % 8 = 3
      [] p = "string-length" -> x % 8 = 4
      [] p = "write-byte" -> x % 16 = 0 /\ 0 <= x /\ x <= 16 * 255
      [] OTHER -> TRUE

Arithmetic2 == {"+", "-", "<", "="}
Asserted2(p, w1, w2) ==
    p \in Arithmetic2 => w1.type = "int" /\ w2.type = "int"
Passes2(p, x1, x2) == p \in Arithmetic2 => x1 % 16 = 0 /\ x2 % 16 = 0

-----------------------------------------------------------------------------
(* compile-ops.rkt, on values and on words *)

Heapless1 == {"add1", "sub1", "zero?", "char?", "integer->char", "char->integer",
              "empty?", "cons?", "box?", "vector?", "string?", "eof-object?"}

Computed1(p, w) ==
    CASE p = "add1" -> Num(w.n + 1)
      [] p = "sub1" -> Num(w.n - 1)
      [] p = "zero?" -> Truth(w.n = 0)
      [] p = "char?" -> Truth(w.type = "char")
      [] p = "integer->char" -> Char(w.n)
      [] p = "char->integer" -> Num(w.n)
      [] p = "empty?" -> Truth(w = Empty)
      [] p = "cons?" -> Truth(w.type = "cons")
      [] p = "box?" -> Truth(w.type = "box")
      [] p = "vector?" -> Truth(w.type = "vect")
      [] p = "string?" -> Truth(w.type = "str")
      [] p = "eof-object?" -> Truth(w = Eof)

(* if-equal, if-lt *)
Flag(b) == IF b THEN 24 ELSE 56

compile_op1(p, x) ==
    CASE p = "add1" -> Signed(x + 16)
      [] p = "sub1" -> Signed(x - 16)
      [] p = "zero?" -> Flag(x = 0)
      [] p = "char?" -> Flag(x % 32 = 8)
      [] p = "integer->char" -> Signed(32 * (x \div 16)) + 8
      [] p = "char->integer" -> Signed(16 * (x \div 32))
      [] p = "empty?" -> Flag(x = 152)
      [] p = "cons?" -> Flag(x % 8 = 2)
      [] p = "box?" -> Flag(x % 8 = 1)
      [] p = "vector?" -> Flag(x % 8 = 3)
      [] p = "string?" -> Flag(x % 8 = 4)
      [] p = "eof-object?" -> Flag(x = 88)

Heapless2 == Arithmetic2 \cup {"eq?"}

Computed2(p, w1, w2) ==
    CASE p = "+" -> Num(w1.n + w2.n)
      [] p = "-" -> Num(w1.n - w2.n)
      [] p = "<" -> Truth(w1.n < w2.n)
      [] p \in {"=", "eq?"} -> Truth(w1 = w2)

compile_op2(p, x1, x2) ==
    CASE p = "+" -> Signed(x1 + x2)
      [] p = "-" -> Signed(x1 - x2)
      [] p = "<" -> Flag(x1 < x2)
      [] p \in {"=", "eq?"} -> Flag(x1 = x2)

(* What makes a type and a number as good as the bits: every value comes     *)
(* back from its word, and a primitive does to words what it does to values. *)
Faithful(w) == val_unwrap(ValueToBits(w)) = w

WorksOnBits1(p, w) ==
    LET x == ValueToBits(w) IN
    /\ Passes1(p, x) <=> Asserted1(p, w)
    /\ p \in Heapless1 /\ Asserted1(p, w) =>
          compile_op1(p, x) = ValueToBits(Computed1(p, w))

WorksOnBits2(p, w1, w2) ==
    LET x1 == ValueToBits(w1)
        x2 == ValueToBits(w2)
    IN /\ Passes2(p, x1, x2) <=> Asserted2(p, w1, w2)
       /\ p \in Heapless2 /\ Asserted2(p, w1, w2) =>
             compile_op2(p, x1, x2) = ValueToBits(Computed2(p, w1, w2))

-----------------------------------------------------------------------------
(* print.c: the bytes of a character, and how a reader takes one from the   *)
(* bytes it is given.                                                       *)
utf8_encode_char(c) ==
    CASE c < 128 -> <<c>>
      [] 128 <= c /\ c < 2048 -> <<192 + c \div 64, 128 + (c % 64)>>
      [] 2048 <= c /\ c < 65536 ->
            <<224 + c \div 4096, 128 + ((c \div 64) % 64), 128 + (c % 64)>>
      [] OTHER ->
            <<240 + c \div 262144, 128 + ((c \div 4096) % 64),
              128 + ((c \div 64) % 64), 128 + (c % 64)>>

Utf8Length(b) == CASE b < 128 -> 1 [] 192 <= b /\ b < 224 -> 2
                   [] 224 <= b /\ b < 240 -> 3 [] OTHER -> 4
Utf8Decode(bs) ==
    CASE Utf8Length(bs[1]) = 1 -> bs[1]
      [] Utf8Length(bs[1]) = 2 -> 64 * (bs[1] - 192) + bs[2] - 128
      [] Utf8Length(bs[1]) = 3 ->
            4096 * (bs[1] - 224) + 64 * (bs[2] - 128) + bs[3] - 128
      [] Utf8Length(bs[1]) = 4 ->
            262144 * (bs[1] - 240) + 4096 * (bs[2] - 128) + 64 * (bs[3] - 128) + bs[4] - 128
=============================================================================
