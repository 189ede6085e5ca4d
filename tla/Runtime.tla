------------------------------- MODULE Runtime -------------------------------
(***************************************************************************)
(* The C runtime that compiled programs are linked with: the byte          *)
(* primitives of io.c, on a machine m1 with its files in and out, and what *)
(* main.c prints of a result (print.c), as a sequence of tokens and of the *)
(* bytes of characters; the names and escapes of some characters, and the  *)
(* spaces, are left out.                                                   *)
(***************************************************************************)
EXTENDS Syntax

(* getc's result is kept in a char, where the byte 255 is EOF *)
EOF == -1
FromChar(b) ==
    LET c == ((b + 128) % 256) - 128 IN IF c = EOF THEN Eof ELSE Num(c % 256)

read_byte(m1) ==
    IF m1.in = <<>> THEN [m1 EXCEPT !.rax = Eof]
    ELSE [m1 EXCEPT !.rax = FromChar(Head(m1.in)), !.in = Tail(@)]

(* ungetc gives nothing back for what is taken for EOF *)
peek_byte(m1) ==
    IF m1.in = <<>> \/ FromChar(Head(m1.in)) = Eof THEN read_byte(m1)
    ELSE [m1 EXCEPT !.rax = FromChar(Head(m1.in))]

write_byte(m1) == [m1 EXCEPT !.out = Append(@, m1.rax.n % 256), !.rax = Void]

-----------------------------------------------------------------------------
(* Objects on the heap: a pair holds its cdr first, a vector its length, a   *)
(* string its length and then two characters to a word.                      *)
Length(w, heap) == IF w.n = 0 THEN 0 ELSE heap[w.n].n
Car(w, heap) == heap[w.n + 1]
Cdr(w, heap) == heap[w.n]
Element(w, i, heap) == heap[w.n + 1 + i]
CharRef(w, i, heap) ==
    LET cell == heap[w.n + 1 + i \div 2]
    IN Char(IF i % 2 = 0 THEN cell.n ELSE cell.high)
Chars(w, heap) == [i \in 1..Length(w, heap) |-> CharRef(w, i - 1, heap)]

Token(t) == Word(t, 0)

RECURSIVE print_result(_, _), print_result_interior(_, _), print_cons(_, _)

print_codepoint(c) ==
    LET bytes == utf8_encode_char(c) IN [i \in DOMAIN bytes |-> Word("byte", bytes[i])]

print_str(w, heap) ==
    FlattenSeq([i \in 1..Length(w, heap) |-> print_codepoint(Chars(w, heap)[i].n)])

print_vect(w, heap) ==
    <<Token("#(")>>
    \o FlattenSeq([i \in 1..Length(w, heap) |->
           print_result_interior(Element(w, i - 1, heap), heap)])
    \o <<Token(")")>>

print_result(w, heap) ==
    CASE w.type = "void" -> <<>>
      [] w.type \in {"empty", "box", "cons", "vect"} ->
            <<Token("'")>> \o print_result_interior(w, heap)
      [] w.type = "str" -> <<Token("quote")>> \o print_str(w, heap) \o <<Token("quote")>>
      [] w.type = "char" -> <<Token("#\\")>> \o print_codepoint(w.n)
      [] w.type = "proc" -> <<Token("procedure")>>
      [] OTHER -> <<w>>

print_result_interior(w, heap) ==
    CASE w.type = "empty" -> <<Token("("), Token(")")>>
      [] w.type = "box" -> <<Token("#&")>> \o print_result_interior(heap[w.n], heap)
      [] w.type = "cons" -> <<Token("(")>> \o print_cons(w, heap) \o <<Token(")")>>
      [] w.type = "vect" -> print_vect(w, heap)
      [] OTHER -> print_result(w, heap)

(* A bug for the mutants: the last cdr is dropped, as if it were empty. *)
print_consProper(w, heap) ==
    print_result_interior(Car(w, heap), heap)
    \o IF Cdr(w, heap).type = "cons" THEN print_cons(Cdr(w, heap), heap) ELSE <<>>

print_cons(w, heap) ==
    print_result_interior(Car(w, heap), heap)
    \o CASE Cdr(w, heap).type = "empty" -> <<>>
         [] Cdr(w, heap).type = "cons" -> print_cons(Cdr(w, heap), heap)
         [] OTHER -> <<Token(".")>> \o print_result_interior(Cdr(w, heap), heap)
=============================================================================
