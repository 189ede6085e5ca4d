----------------------------- MODULE WordsProofs -----------------------------
(***************************************************************************)
(* What Words says of small numbers, for every width of the words: values  *)
(* come back from their bits, the primitives that need no heap work on     *)
(* bits as they do on values, an integer that overflows is still an        *)
(* integer, and a character comes back from its bytes.                     *)
(***************************************************************************)
EXTENDS Words, Sequences, TLAPS

(* A number that fits is left alone. *)
LEMMA SignedFits == \A x \in (-Half)..(Half - 1) : Signed(x) = x
<1> SUFFICES ASSUME NEW x \in (-Half)..(Half - 1) PROVE Signed(x) = x
    OBVIOUS
<1>1. Half \in Nat /\ Half > 0
    BY HalfAssumption
<1>2. x + Half \in 0..(2 * Half - 1)
    BY <1>1
<1>3. (x + Half) % (2 * Half) = x + Half
    BY <1>1, <1>2
<1> QED
    BY <1>1, <1>3 DEF Signed

(* What is left of any number lies in a word, a multiple of 2 * Half away.   *)
LEMMA SignedWraps ==
    \A x \in Int : /\ Signed(x) \in (-Half)..(Half - 1)
                   /\ \E k \in Int : Signed(x) = x - (2 * Half) * k
<1> SUFFICES ASSUME NEW x \in Int
             PROVE  /\ Signed(x) \in (-Half)..(Half - 1)
                    /\ \E k \in Int : Signed(x) = x - (2 * Half) * k
    OBVIOUS
<1> DEFINE w == 2 * Half
<1>1. Half \in Nat /\ w \in Nat /\ w > 0
    BY HalfAssumption
<1>2. (x + Half) % w \in 0..(w - 1) /\ (x + Half) \div w \in Int
    BY <1>1
<1>3. x + Half = w * ((x + Half) \div w) + ((x + Half) % w)
    BY <1>1
<1>4. Signed(x) = x - w * ((x + Half) \div w)
    BY <1>1, <1>2, <1>3 DEF Signed
<1> QED
    BY <1>1, <1>2, <1>4 DEF Signed

-----------------------------------------------------------------------------
(* The word of each kind of value. *)
LEMMA IntWord ==
    \A i \in Ints : /\ ValueToBits(Num(i)) = 16 * i
                    /\ 16 * i \in (-Half)..(Half - 1)
<1> SUFFICES ASSUME NEW i \in Ints
             PROVE  ValueToBits(Num(i)) = 16 * i /\ 16 * i \in (-Half)..(Half - 1)
    OBVIOUS
<1>1. i \in Int /\ 16 * i \in (-Half)..(Half - 1)
    BY HalfAssumption DEF Ints
<1>2. ValueToBits(Num(i)) = Signed(16 * i)
    BY DEF ValueToBits, Num, Word, val_wrap_int
<1> QED
    BY <1>1, <1>2, SignedFits

LEMMA CharWord == \A c \in 0..MaxCodepoint : ValueToBits(Char(c)) = 32 * c + 8
BY DEF ValueToBits, Char, Word, val_wrap_char

LEMMA ConstantWords ==
    /\ ValueToBits(True) = 24 /\ ValueToBits(False) = 56
    /\ ValueToBits(Eof) = 88 /\ ValueToBits(Void) = 120 /\ ValueToBits(Empty) = 152
BY DEF ValueToBits, True, False, Eof, Void, Empty, Word

LEMMA PointerWord ==
    \A t \in Pointers, a \in Addresses :
        ValueToBits(Word(t, a)) = 8 * a + Tag(t) /\ Tag(t) \in 1..5
<1> SUFFICES ASSUME NEW t \in Pointers, NEW a \in Addresses
             PROVE  ValueToBits(Word(t, a)) = 8 * a + Tag(t) /\ Tag(t) \in 1..5
    OBVIOUS
<1>1. t \notin {"int", "char", "bool", "eof", "void", "empty"}
    BY DEF Pointers
<1> DEFINE v == Word(t, a)
<1>2. v.type = t /\ v.n = a
    BY DEF Word
<1> HIDE DEF v
<1>3. ValueToBits(v) = 8 * a + Tag(t)
    BY <1>1, <1>2 DEF ValueToBits
<1>4. Tag(t) \in 1..5
    BY DEF Pointers, Tag
<1> QED
    BY <1>3, <1>4 DEF v

LEMMA CodepointsAreNaturals ==
    MaxCodepoint \in Nat /\ \A c \in 0..MaxCodepoint : c \in Nat /\ c < 1114112
<1>1. MaxCodepoint \in Nat /\ MaxCodepoint < 1114112
    BY SMT DEF MaxCodepoint
<1> QED
    BY <1>1

(* What val_typeof and val_unwrap make of the word of each kind. *)
LEMMA IntUnwraps ==
    \A x \in Int : x % 16 = 0 => val_typeof(x) = "int" /\ val_unwrap(x) = Num(x \div 16)
<1> SUFFICES ASSUME NEW x \in Int, x % 16 = 0
             PROVE  val_typeof(x) = "int" /\ val_unwrap(x) = Num(x \div 16)
    OBVIOUS
<1>1. x % 8 = 0
    OBVIOUS
<1>2. val_typeof(x) = "int"
    BY <1>1 DEF val_typeof
<1> QED
    BY <1>2 DEF val_unwrap, Num, Word, Pointers

LEMMA CharUnwraps ==
    \A c \in Nat : val_unwrap(32 * c + 8) = Char(c)
<1> SUFFICES ASSUME NEW c \in Nat PROVE val_unwrap(32 * c + 8) = Char(c)
    OBVIOUS
<1>1. /\ (32 * c + 8) % 8 = 0 /\ (32 * c + 8) % 16 = 8 /\ (32 * c + 8) % 32 = 8
      /\ (32 * c + 8) \div 32 = c
    OBVIOUS
<1>2. val_typeof(32 * c + 8) = "char"
    BY <1>1 DEF val_typeof
<1> QED
    BY <1>1, <1>2 DEF val_unwrap, Char, Word, Pointers

LEMMA ConstantsUnwrap ==
    /\ val_unwrap(24) = True /\ val_unwrap(56) = False
    /\ val_unwrap(88) = Eof /\ val_unwrap(120) = Void /\ val_unwrap(152) = Empty
BY DEF val_unwrap, val_typeof, Pointers, True, False, Eof, Void, Empty, Word

LEMMA PointerUnwraps ==
    \A t \in Pointers, a \in Nat : val_unwrap(8 * a + Tag(t)) = Word(t, a)
<1> SUFFICES ASSUME NEW t \in Pointers, NEW a \in Nat
             PROVE  val_unwrap(8 * a + Tag(t)) = Word(t, a)
    OBVIOUS
<1>1. Tag(t) \in 1..5
    BY DEF Pointers, Tag
<1>2. (8 * a + Tag(t)) % 8 = Tag(t) /\ (8 * a + Tag(t)) \div 8 = a
    BY <1>1
<1> DEFINE x == 8 * a + Tag(t)
<1> HIDE DEF x
<1>3. x \in Int /\ x % 8 = Tag(t) /\ x \div 8 = a
    BY <1>1, <1>2 DEF x
<1>4. val_typeof(x) = t
  <2>1. CASE t = "box"
    BY <1>3, <2>1 DEF val_typeof, Tag
  <2>2. CASE t = "cons"
    BY <1>3, <2>2 DEF val_typeof, Tag
  <2>3. CASE t = "vect"
    BY <1>3, <2>3 DEF val_typeof, Tag
  <2>4. CASE t = "str"
    BY <1>3, <2>4 DEF val_typeof, Tag
  <2>5. CASE t = "proc"
    BY <1>3, <2>5 DEF val_typeof, Tag
  <2> QED
    BY <2>1, <2>2, <2>3, <2>4, <2>5 DEF Pointers
<1>5. t # "int" /\ t # "char" /\ x # 24
    BY <1>1, <1>3 DEF Pointers
<1>6. val_unwrap(x) = Word(t, a)
    BY <1>3, <1>4, <1>5 DEF val_unwrap
<1> QED
    BY <1>6 DEF x

-----------------------------------------------------------------------------
(* Every value comes back from its word: bits->value undoes value->bits, and *)
(* no two values share a word, so that the runtime and run.rkt print what    *)
(* the compiled code computed.                                               *)
THEOREM ValuesComeBack == \A v \in Values : Faithful(v)
<1> SUFFICES ASSUME NEW v \in Values PROVE val_unwrap(ValueToBits(v)) = v
    BY DEF Faithful
<1>1. CASE \E i \in Ints : v = Num(i)
  <2>1. PICK i \in Ints : v = Num(i)
    BY <1>1
  <2>2. i \in Int /\ ValueToBits(v) = 16 * i
    BY <2>1, IntWord DEF Ints
  <2>3. (16 * i) % 16 = 0 /\ (16 * i) \div 16 = i
    BY <2>2
  <2> QED
    BY <2>1, <2>2, <2>3, IntUnwraps
<1>2. CASE \E c \in 0..MaxCodepoint : v = Char(c)
    BY <1>2, CharWord, CharUnwraps, CodepointsAreNaturals
<1>3. CASE v \in {False, True, Empty, Void, Eof}
    BY <1>3, ConstantWords, ConstantsUnwrap
<1>4. CASE \E t \in Pointers, a \in Addresses : v = Word(t, a)
    BY <1>4, PointerWord, PointerUnwraps DEF Addresses
<1> QED
    BY <1>1, <1>2, <1>3, <1>4 DEF Values

(* eq? compares words, and words are equal exactly for equal immediates and  *)
(* for the same object.                                                      *)
THEOREM EqComparesValues ==
    \A v, w \in Values : ValueToBits(v) = ValueToBits(w) <=> v = w
BY ValuesComeBack DEF Faithful

(* What the masks and comparisons of the compiled code see of a value. *)
LEMMA MasksTellTypes ==
    ASSUME NEW v \in Values
    PROVE  LET x == ValueToBits(v) IN
           /\ x \in Int
           /\ x % 16 = 0 <=> v.type = "int"
           /\ x % 32 = 8 <=> v.type = "char"
           /\ x % 8 = 1 <=> v.type = "box"
           /\ x % 8 = 2 <=> v.type = "cons"
           /\ x % 8 = 3 <=> v.type = "vect"
           /\ x % 8 = 4 <=> v.type = "str"
           /\ x = 88 <=> v = Eof
           /\ x = 152 <=> v = Empty
           /\ v.type = "int" => v.n \in Ints /\ x = 16 * v.n
           /\ v.type = "char" => v.n \in 0..MaxCodepoint /\ x = 32 * v.n + 8
<1> DEFINE x == ValueToBits(v)
<1>1. CASE \E i \in Ints : v = Num(i)
  <2>1. PICK i \in Ints : v = Num(i)
    BY <1>1
  <2>2. i \in Int /\ x = 16 * i
    BY <2>1, IntWord DEF Ints
  <2>3. v.type = "int" /\ v.n = i /\ v # Eof /\ v # Empty
    BY <2>1 DEF Num, Word, Eof, Empty
  <2> HIDE DEF x
  <2> QED
    BY <2>2, <2>3 DEF x
<1>2. CASE \E c \in 0..MaxCodepoint : v = Char(c)
  <2>1. PICK c \in 0..MaxCodepoint : v = Char(c)
    BY <1>2
  <2>2. c \in Int /\ x = 32 * c + 8
    BY <2>1, CharWord, CodepointsAreNaturals
  <2>3. v.type = "char" /\ v.n = c /\ v # Eof /\ v # Empty
    BY <2>1 DEF Char, Word, Eof, Empty
  <2> HIDE DEF x
  <2> QED
    BY <2>2, <2>3 DEF x
<1>3. CASE v \in {False, True, Empty, Void, Eof}
  <2>1. /\ v.type \in {"bool", "empty", "void", "eof"}
        /\ v = Eof <=> v.type = "eof"
        /\ v = Empty <=> v.type = "empty"
    BY <1>3 DEF False, True, Empty, Void, Eof, Word
  <2>2. /\ x \in {24, 56, 88, 120, 152}
        /\ x = 88 <=> v = Eof
        /\ x = 152 <=> v = Empty
    BY <1>3, ConstantWords DEF False, True, Empty, Void, Eof, Word
  <2> HIDE DEF x
  <2> QED
    BY <2>1, <2>2 DEF x
<1>4. CASE \E t \in Pointers, a \in Addresses : v = Word(t, a)
  <2>1. PICK t \in Pointers, a \in Addresses : v = Word(t, a)
    BY <1>4
  <2>2. a \in Nat /\ x = 8 * a + Tag(t) /\ Tag(t) \in 1..5
    BY <2>1, PointerWord DEF Addresses
  <2>3. v.type = t /\ v # Eof /\ v # Empty
    BY <2>1 DEF Word, Eof, Empty, Pointers
  <2>4. /\ t \notin {"int", "char"}
        /\ Tag(t) = 1 <=> t = "box"
        /\ Tag(t) = 2 <=> t = "cons"
        /\ Tag(t) = 3 <=> t = "vect"
        /\ Tag(t) = 4 <=> t = "str"
    BY DEF Tag, Pointers
  <2> HIDE DEF x
  <2> QED
    BY <2>2, <2>3, <2>4 DEF x
<1> QED
    BY <1>1, <1>2, <1>3, <1>4 DEF Values

-----------------------------------------------------------------------------
LEMMA FlagIsTruth == \A b \in BOOLEAN : Flag(b) = ValueToBits(Truth(b))
BY ConstantWords DEF Flag, Truth

LEMMA CodepointsFit ==
    \A c \in 0..MaxCodepoint : Signed(32 * c) = 32 * c
<1>1. 32 * MaxCodepoint < Half
    BY HalfAssumption, SMT DEF MaxCodepoint
<1>2. \A c \in 0..MaxCodepoint : 32 * c \in (-Half)..(Half - 1)
    BY <1>1, CodepointsAreNaturals, HalfAssumption
<1> QED
    BY <1>2, SignedFits

(* The assertions and the primitives of one operand that need no heap come   *)
(* to the same on words as on values, for every value; add1 and sub1 also at *)
(* the ends of the integers, where both wrap.                                *)
THEOREM OnePrimitiveWorksOnBits ==
    \A v \in Values : \A p : WorksOnBits1(p, v)
<1> SUFFICES ASSUME NEW v \in Values, NEW p PROVE WorksOnBits1(p, v)
    OBVIOUS
<1> DEFINE x == ValueToBits(v)
<1>1. /\ x \in Int
      /\ x % 16 = 0 <=> v.type = "int"
      /\ x % 32 = 8 <=> v.type = "char"
      /\ x % 8 = 1 <=> v.type = "box"
      /\ x % 8 = 2 <=> v.type = "cons"
      /\ x % 8 = 3 <=> v.type = "vect"
      /\ x % 8 = 4 <=> v.type = "str"
      /\ x = 88 <=> v = Eof
      /\ x = 152 <=> v = Empty
    BY MasksTellTypes
<1>2. v.type = "int" => v.n \in Int /\ x = 16 * v.n
    BY MasksTellTypes DEF Ints
<1>3. v.type = "char" => v.n \in 0..MaxCodepoint /\ x = 32 * v.n + 8
    BY MasksTellTypes
<1>4. Passes1(p, x) <=> Asserted1(p, v)
  <2> HIDE DEF x
  <2>1. CASE p = "integer->char"
    BY <1>1, <1>2, <2>1, CodepointsAreNaturals, SMT DEF Passes1, Asserted1
  <2>2. CASE p = "write-byte"
    BY <1>1, <1>2, <2>2, SMT DEF Passes1, Asserted1
  <2>3. CASE p \notin {"integer->char", "write-byte"}
    BY <1>1, <2>3 DEF Passes1, Asserted1
  <2> QED
    BY <2>1, <2>2, <2>3
<1>5. ASSUME p \in Heapless1, Asserted1(p, v)
      PROVE  compile_op1(p, x) = ValueToBits(Computed1(p, v))
  <2> HIDE DEF x
  <2>1. CASE p = "add1"
    <3>1. v.n \in Int /\ x + 16 = 16 * (v.n + 1)
        BY <1>2, <1>5, <2>1 DEF Asserted1
    <3> QED
        BY <2>1, <3>1 DEF compile_op1, Computed1, ValueToBits, val_wrap_int, Num, Word
  <2>2. CASE p = "sub1"
    <3>1. v.n \in Int /\ x - 16 = 16 * (v.n - 1)
        BY <1>2, <1>5, <2>2 DEF Asserted1
    <3> QED
        BY <2>2, <3>1 DEF compile_op1, Computed1, ValueToBits, val_wrap_int, Num, Word
  <2>3. CASE p = "integer->char"
    <3>1. v.n \in 0..MaxCodepoint /\ x \div 16 = v.n
        BY <1>2, <1>5, <2>3, CodepointsAreNaturals DEF Asserted1
    <3>2. compile_op1(p, x) = 32 * v.n + 8
        BY <2>3, <3>1, CodepointsFit DEF compile_op1
    <3>3. Computed1(p, v) = Char(v.n)
        BY <2>3 DEF Computed1
    <3> QED
        BY <3>1, <3>2, <3>3, CharWord
  <2>4. CASE p = "char->integer"
    <3>1. v.n \in 0..MaxCodepoint /\ x = 32 * v.n + 8
        BY <1>3, <1>5, <2>4 DEF Asserted1
    <3>2. x \div 32 = v.n
        BY <3>1, CodepointsAreNaturals
    <3> QED
        BY <2>4, <3>2 DEF compile_op1, Computed1, ValueToBits, val_wrap_int, Num, Word
  <2>5. CASE p = "zero?"
    <3>1. x = 0 <=> v.n = 0
        BY <1>2, <1>5, <2>5 DEF Asserted1
    <3> QED
        BY <2>5, <3>1, FlagIsTruth DEF compile_op1, Computed1
  <2>6. CASE p \in {"char?", "empty?", "cons?", "box?", "vector?", "string?", "eof-object?"}
    BY <1>1, <2>6, FlagIsTruth DEF compile_op1, Computed1
  <2> QED
    BY <1>5, <2>1, <2>2, <2>3, <2>4, <2>5, <2>6 DEF Heapless1
<1> QED
    BY <1>4, <1>5 DEF WorksOnBits1

(* The same for the primitives of two operands. *)
THEOREM TwoPrimitiveWorksOnBits ==
    \A v, w \in Values : \A p : WorksOnBits2(p, v, w)
<1> SUFFICES ASSUME NEW v \in Values, NEW w \in Values, NEW p
             PROVE  WorksOnBits2(p, v, w)
    OBVIOUS
<1> DEFINE x == ValueToBits(v)
           y == ValueToBits(w)
<1>1. /\ x \in Int /\ y \in Int
      /\ x % 16 = 0 <=> v.type = "int"
      /\ y % 16 = 0 <=> w.type = "int"
    BY MasksTellTypes
<1>2. /\ v.type = "int" => v.n \in Int /\ x = 16 * v.n
      /\ w.type = "int" => w.n \in Int /\ y = 16 * w.n
    BY MasksTellTypes DEF Ints
<1>3. x = y <=> v = w
    BY EqComparesValues
<1>4. Passes2(p, x, y) <=> Asserted2(p, v, w)
    BY <1>1 DEF Passes2, Asserted2
<1>5. ASSUME p \in Heapless2, Asserted2(p, v, w)
      PROVE  compile_op2(p, x, y) = ValueToBits(Computed2(p, v, w))
  <2> HIDE DEF x, y
  <2>1. CASE p = "+"
    <3>1. v.n \in Int /\ w.n \in Int /\ x + y = 16 * (v.n + w.n)
        BY <1>2, <1>5, <2>1 DEF Asserted2, Arithmetic2
    <3> QED
        BY <2>1, <3>1 DEF compile_op2, Computed2, ValueToBits, val_wrap_int, Num, Word
  <2>2. CASE p = "-"
    <3>1. v.n \in Int /\ w.n \in Int /\ x - y = 16 * (v.n - w.n)
        BY <1>2, <1>5, <2>2 DEF Asserted2, Arithmetic2
    <3> QED
        BY <2>2, <3>1 DEF compile_op2, Computed2, ValueToBits, val_wrap_int, Num, Word
  <2>3. CASE p = "<"
    <3>1. x < y <=> v.n < w.n
        BY <1>2, <1>5, <2>3 DEF Asserted2, Arithmetic2
    <3>2. compile_op2(p, x, y) = Flag(x < y) /\ Computed2(p, v, w) = Truth(v.n < w.n)
        BY <2>3 DEF compile_op2, Computed2
    <3> QED
        BY <3>1, <3>2, ConstantWords DEF Flag, Truth
  <2>4. CASE p \in {"=", "eq?"}
    <3>1. compile_op2(p, x, y) = Flag(x = y) /\ Computed2(p, v, w) = Truth(v = w)
        BY <2>4 DEF compile_op2, Computed2
    <3> QED
        BY <1>3, <3>1, ConstantWords DEF Flag, Truth
  <2> QED
    BY <1>5, <2>1, <2>2, <2>3, <2>4 DEF Heapless2, Arithmetic2
<1> QED
    BY <1>4, <1>5 DEF WorksOnBits2

-----------------------------------------------------------------------------
(* Whatever number an addition or a subtraction comes to, the word it leaves *)
(* is an integer, never a pointer or another value: it is the number modulo  *)
(* 2^60, the number itself when it fits.                                     *)
THEOREM IntegersWrap ==
    ASSUME NEW n \in Int
    PROVE  LET v == val_unwrap(val_wrap_int(n)) IN
           /\ v.type = "int" /\ v.n \in Ints
           /\ \E k \in Int : v.n = n - (Half \div 8) * k
           /\ n \in Ints => v.n = n
<1> DEFINE x == val_wrap_int(n)
           eighth == Half \div 8
<1>1. eighth \in Nat /\ 2 * Half = 16 * eighth /\ Half \in Nat
    BY HalfAssumption
<1>2. PICK k \in Int : x \in (-Half)..(Half - 1) /\ x = 16 * n - (2 * Half) * k
    BY SignedWraps DEF val_wrap_int
<1> HIDE DEF x, eighth
<1>3. eighth * k \in Int /\ (2 * Half) * k = 16 * (eighth * k)
    BY <1>1
<1>4. x \in Int /\ x = 16 * (n - eighth * k)
    BY <1>1, <1>2, <1>3
<1>5. x % 16 = 0 /\ x \div 16 = n - eighth * k /\ x = 16 * (x \div 16)
    BY <1>3, <1>4
<1>6. val_unwrap(x) = Num(n - eighth * k)
    BY <1>4, <1>5, IntUnwraps
<1>7. n - eighth * k \in Ints
    BY <1>1, <1>2, <1>3, <1>4 DEF Ints
<1>8. n \in Ints => x \div 16 = n
  <2> SUFFICES ASSUME n \in Ints PROVE x \div 16 = n
    OBVIOUS
  <2>1. x = 16 * n
    BY IntWord DEF x, ValueToBits, Num, Word
  <2> QED
    BY <2>1
<1> QED
    BY <1>5, <1>6, <1>7, <1>8 DEF Num, Word, x, eighth

-----------------------------------------------------------------------------
(* The first byte of a character tells how many follow, and whoever reads    *)
(* that many bytes has the character back, whatever comes behind them.       *)
THEOREM CharactersComeBack ==
    ASSUME NEW c \in 0..MaxCodepoint, NEW bs,
           \A i \in 1..Len(utf8_encode_char(c)) : bs[i] = utf8_encode_char(c)[i]
    PROVE  /\ Utf8Length(bs[1]) = Len(utf8_encode_char(c))
           /\ Utf8Decode(bs) = c
           /\ \A i \in 1..Len(utf8_encode_char(c)) : bs[i] \in 0..255
<1>1. c \in Nat /\ c < 1114112
    BY CodepointsAreNaturals
<1>2. CASE c < 128
  <2>1. utf8_encode_char(c) = <<c>>
    BY <1>1, <1>2 DEF utf8_encode_char
  <2>2. bs[1] = c
    BY <2>1
  <2> QED
    BY <1>1, <1>2, <2>1, <2>2 DEF Utf8Length, Utf8Decode
<1>3. CASE 128 <= c /\ c < 2048
  <2> DEFINE b1 == c \div 64
             b2 == c % 64
  <2>1. utf8_encode_char(c) = <<192 + b1, 128 + b2>>
    BY <1>1, <1>3 DEF utf8_encode_char
  <2>2. b1 \in 2..31 /\ b2 \in 0..63 /\ c = 64 * b1 + b2
    BY <1>1, <1>3
  <2> HIDE DEF b1, b2
  <2>3. bs[1] = 192 + b1 /\ bs[2] = 128 + b2
    BY <2>1
  <2> QED
    BY <1>1, <1>3, <2>1, <2>2, <2>3 DEF Utf8Length, Utf8Decode
<1>4. CASE 2048 <= c /\ c < 65536
  <2> DEFINE b1 == c \div 4096
             b2 == (c \div 64) % 64
             b3 == c % 64
  <2>1. utf8_encode_char(c) = <<224 + b1, 128 + b2, 128 + b3>>
    BY <1>1, <1>4 DEF utf8_encode_char
  <2>2. b1 \in 0..15 /\ b2 \in 0..63 /\ b3 \in 0..63 /\ c = 4096 * b1 + 64 * b2 + b3
    BY <1>1, <1>4
  <2> HIDE DEF b1, b2, b3
  <2>3. bs[1] = 224 + b1 /\ bs[2] = 128 + b2 /\ bs[3] = 128 + b3
    BY <2>1
  <2> QED
    BY <1>1, <1>4, <2>1, <2>2, <2>3 DEF Utf8Length, Utf8Decode
<1>5. CASE 65536 <= c
  <2> DEFINE b1 == c \div 262144
             b2 == (c \div 4096) % 64
             b3 == (c \div 64) % 64
             b4 == c % 64
  <2>1. utf8_encode_char(c) = <<240 + b1, 128 + b2, 128 + b3, 128 + b4>>
    BY <1>1, <1>5 DEF utf8_encode_char
  <2>2. /\ b1 \in 0..4 /\ b2 \in 0..63 /\ b3 \in 0..63 /\ b4 \in 0..63
        /\ c = 262144 * b1 + 4096 * b2 + 64 * b3 + b4
    BY <1>1, <1>5
  <2> HIDE DEF b1, b2, b3, b4
  <2>3. bs[1] = 240 + b1 /\ bs[2] = 128 + b2 /\ bs[3] = 128 + b3 /\ bs[4] = 128 + b4
    BY <2>1
  <2> QED
    BY <1>1, <1>5, <2>1, <2>2, <2>3 DEF Utf8Length, Utf8Decode
<1> QED
    BY <1>1, <1>2, <1>3, <1>4, <1>5
=============================================================================
