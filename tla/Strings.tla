------------------------------- MODULE Strings -------------------------------
(***************************************************************************)
(* Pure functions of the kernel and of the user library: kernel/string.c,  *)
(* user/ulib.c, printint() of both printf.c, skipelem() of kernel/fs.c and *)
(* the matcher of user/grep.c.  Each loop is a recursive operator; what it *)
(* must compute is defined next to it without a loop.                      *)
(*                                                                         *)
(* Bytes are small numbers, 0 being the end of a string in memory; memory  *)
(* m is a function of addresses.  Where no address matters a string is the *)
(* sequence of its characters.                                             *)
(***************************************************************************)
EXTENDS Integers, Sequences

CONSTANTS
    Mem,                \* addresses 0..Mem-1 of the memory that is copied in
    Byte,               \* values of a byte, 0 among them
    MaxN,               \* lengths up to MaxN
    INTBITS,            \* width of an int
    DIRSIZ,             \* length of a name in a directory
    Patterns, Texts,    \* for grep
    Paths,              \* for skipelem()
    Formats,            \* for printf()
    BUFSIZ, Inputs      \* for grep(): sizeof(buf), and what is in the file

VARIABLE in             \* the arguments of the call that is looked at

Call(f, args) == [f |-> f, args |-> args]
Init == in = Call("none", <<>>)

-----------------------------------------------------------------------------
(* memmove().                                                              *)

RECURSIVE Forward(_, _, _, _), Backward(_, _, _, _)
Forward(m, d, s, n) == IF n = 0 THEN m ELSE Forward([m EXCEPT ![d] = m[s]], d + 1, s + 1, n - 1)
Backward(m, d, s, n) ==
    IF n = 0 THEN m ELSE Backward([m EXCEPT ![d + n - 1] = m[s + n - 1]], d, s, n - 1)

\* In the kernel, and in the user library.
memmove(m, d, s, n) == IF s < d /\ s + n > d THEN Backward(m, d, s, n) ELSE Forward(m, d, s, n)
umemmove(m, d, s, n) == IF s > d THEN Forward(m, d, s, n) ELSE Backward(m, d, s, n)

Memory == [0..(Mem - 1) -> Byte]
Places(n) == 0..(Mem - n)
Move ==
    /\ in.f = "none"
    /\ \E m \in Memory, n \in 0..MaxN : \E d, s \in Places(n) : in' = Call("move", <<m, d, s, n>>)

\* Both copy the n bytes that were at s to d, however the two overlap.
MovesRight ==
    in.f = "move" =>
        LET m == in.args[1] d == in.args[2] s == in.args[3] n == in.args[4]
            moved == [a \in DOMAIN m |-> IF a \in d..(d + n - 1) THEN m[a - d + s] ELSE m[a]] IN
        memmove(m, d, s, n) = moved /\ umemmove(m, d, s, n) = moved

-----------------------------------------------------------------------------
(* strncpy() and safestrcpy(), for a string t to a buffer b of n bytes.    *)

\* The first loop: it ends after n bytes or after the end of the string.
At(t, i) == IF i <= Len(t) THEN t[i] ELSE 0
RECURSIVE strncpyFrom(_, _, _, _), zeroFrom(_, _, _), safestrcpyFrom(_, _, _, _)
zeroFrom(b, i, n) == IF n <= 0 THEN b ELSE zeroFrom([b EXCEPT ![i] = 0], i + 1, n - 1)
strncpyFrom(b, t, i, n) ==
    IF n <= 0 THEN b
    ELSE IF At(t, i) # 0 THEN strncpyFrom([b EXCEPT ![i] = At(t, i)], t, i + 1, n - 1)
    ELSE zeroFrom([b EXCEPT ![i] = 0], i + 1, n - 1)
strncpy(b, t, n) == strncpyFrom(b, t, 1, n)

\* --n > 0 leaves room for the final 0.
safestrcpyFrom(b, t, i, n) ==
    IF n - 1 > 0 /\ At(t, i) # 0
    THEN safestrcpyFrom([b EXCEPT ![i] = At(t, i)], t, i + 1, n - 1)
    ELSE IF n - 1 > 0 THEN [b EXCEPT ![i] = 0, ![i + 1] = 0]    \* the 0 copied, and *s = 0
    ELSE [b EXCEPT ![i] = 0]
safestrcpy(b, t, n) == IF n <= 0 THEN b ELSE safestrcpyFrom(b, t, 1, n)

Strings(n) == UNION {[1..k -> Byte \ {0}] : k \in 0..n}
Full == [i \in 1..MaxN |-> 9]                    \* a buffer full of something else
Copy ==
    /\ in.f = "none"
    /\ \E t \in Strings(MaxN), n \in 0..MaxN : in' = Call("copy", <<t, n>>)

\* strncpy() writes exactly n bytes, the string and zeroes behind it; safestrcpy()
\* writes at most n, ends the string always, and keeps as much of it as has room.
CopiesRight ==
    in.f = "copy" =>
        LET t == in.args[1] n == in.args[2]
            kept == IF Len(t) < n - 1 THEN Len(t) ELSE n - 1
            safe == safestrcpy(Full, t, n) IN
        /\ strncpy(Full, t, n) = [i \in 1..MaxN |-> IF i <= n THEN At(t, i) ELSE 9]
        /\ n > 0 => /\ SubSeq(safe, 1, kept) = SubSeq(t, 1, kept)
                    /\ safe[kept + 1] = 0
        /\ SubSeq(safe, n + 1, MaxN) = SubSeq(Full, n + 1, MaxN)

-----------------------------------------------------------------------------
(* strcmp() and strncmp(): the difference of the first bytes that differ.  *)

RECURSIVE strncmpFrom(_, _, _, _), strcmpFrom(_, _, _)
strcmpFrom(p, q, i) ==
    IF At(p, i) # 0 /\ At(p, i) = At(q, i) THEN strcmpFrom(p, q, i + 1) ELSE At(p, i) - At(q, i)
strncmpFrom(p, q, i, n) ==
    IF n > 0 /\ At(p, i) # 0 /\ At(p, i) = At(q, i) THEN strncmpFrom(p, q, i + 1, n - 1)
    ELSE IF n = 0 THEN 0 ELSE At(p, i) - At(q, i)

Compare ==
    /\ in.f = "none"
    /\ \E p, q \in Strings(MaxN), n \in 0..MaxN : in' = Call("cmp", <<p, q, n>>)

\* The order of strings: p is before q.
Before(p, q) ==
    \E i \in 1..(Len(q)) : /\ \A j \in 1..(i - 1) : j <= Len(p) /\ p[j] = q[j]
                           /\ At(p, i) < q[i]
First(s, n) == SubSeq(s, 1, IF n < Len(s) THEN n ELSE Len(s))
\* The sign of the result is the order of the strings, of their first n characters.
ComparesRight ==
    in.f = "cmp" =>
        LET p == in.args[1] q == in.args[2] n == in.args[3] IN
        /\ (strcmpFrom(p, q, 1) < 0) = Before(p, q)
        /\ (strcmpFrom(p, q, 1) = 0) = (p = q)
        /\ (strncmpFrom(p, q, 1, n) < 0) = Before(First(p, n), First(q, n))
        /\ (strncmpFrom(p, q, 1, n) = 0) = (First(p, n) = First(q, n))

-----------------------------------------------------------------------------
(* printint() and atoi().                                                  *)

Uint == 2^INTBITS
Ints == (-(2^(INTBITS - 1)))..(2^(INTBITS - 1) - 1)
Minus == -1                                      \* the character '-'

\* The digits of x, last one first, as they are put into buf.
RECURSIVE Digits(_, _)
Digits(x, base) ==
    IF x \div base = 0 THEN <<x % base>> ELSE <<x % base>> \o Digits(x \div base, base)
Reversed(s) == [i \in 1..Len(s) |-> s[Len(s) + 1 - i]]


\* x = -xx, in unsigned arithmetic.
printint(xx, base, sign) ==
    LET neg == sign /\ xx < 0
        x == IF neg THEN (-xx) % Uint ELSE xx % Uint IN
    Reversed(Digits(x, base) \o (IF neg THEN <<Minus>> ELSE <<>>))

RECURSIVE atoiFrom(_, _)
atoiFrom(s, n) == IF s = <<>> \/ s[1] \notin 0..9 THEN n ELSE atoiFrom(Tail(s), n * 10 + s[1])

Number ==
    /\ in.f = "none"
    /\ \E xx \in Ints, base \in {10, 16}, sign \in BOOLEAN : in' = Call("print", <<xx, base, sign>>)

\* What is printed is the number: no digit is lost, the smallest int included, there
\* is no leading zero, and atoi() reads it back.
Value(s, base) == LET v[i \in 0..Len(s)] == IF i = 0 THEN 0 ELSE v[i - 1] * base + s[i] IN v[Len(s)]
PrintsRight ==
    in.f = "print" =>
        LET xx == in.args[1] base == in.args[2] sign == in.args[3]
            s == printint(xx, base, sign)
            neg == s[1] = Minus
            d == IF neg THEN Tail(s) ELSE s IN
        /\ \A i \in 1..Len(d) : d[i] \in 0..(base - 1)
        /\ (IF neg THEN -Value(d, base) ELSE Value(d, base)) = IF sign THEN xx ELSE xx % Uint
        /\ d[1] = 0 => Len(d) = 1
        /\ base = 10 /\ Value(d, 10) \in Ints => atoiFrom(d, 0) = Value(d, 10)

-----------------------------------------------------------------------------
(* vprintf() of the user library and printf() of the kernel.  The output   *)
(* is a sequence of characters and of converted arguments <<conv, k>>, the *)
(* k-th one.                                                               *)

UserConv == {"d", "l", "x", "p", "s", "c"}
KernelConv == {"d", "x", "p", "s"}
Piece(c, conv, k) ==
    IF c \in conv THEN <<<<c, k>>>> ELSE IF c = "%" THEN <<<<"%", 0>>>> ELSE <<<<"%", 0>>, <<c, 0>>>>

\* The user's remembers in state that it has seen a percent sign.
RECURSIVE vprintf(_, _, _)
vprintf(fmt, state, k) ==
    IF fmt = <<>> THEN <<>>
    ELSE LET c == Head(fmt) IN
         IF state = "%"
         THEN Piece(c, UserConv, k) \o vprintf(Tail(fmt), "", IF c \in UserConv THEN k + 1 ELSE k)
         ELSE IF c = "%" THEN vprintf(Tail(fmt), "%", k)
         ELSE <<<<c, 0>>>> \o vprintf(Tail(fmt), "", k)

\* The kernel's looks one character ahead.
RECURSIVE printf(_, _, _)
printf(fmt, i, k) ==
    IF i > Len(fmt) THEN <<>>
    ELSE IF fmt[i] # "%" THEN <<<<fmt[i], 0>>>> \o printf(fmt, i + 1, k)
    ELSE IF i + 1 > Len(fmt) THEN <<>>
    ELSE Piece(fmt[i + 1], KernelConv, k)
         \o printf(fmt, i + 2, IF fmt[i + 1] \in KernelConv THEN k + 1 ELSE k)

Format ==
    /\ in.f = "none"
    /\ \E fmt \in Formats : in' = Call("printf", fmt)

\* A format without %l and %c, which only the user's knows, is printed alike by both,
\* and the arguments are taken in order, each once.
FormatsAgree ==
    in.f = "printf" =>
        LET u == vprintf(in.args, "", 1)
            args == SelectSeq(u, LAMBDA p : p[2] > 0) IN
        /\ u = printf(in.args, 1, 1)
        /\ \A k \in 1..Len(args) : args[k][2] = k

-----------------------------------------------------------------------------
(* skipelem().                                                             *)

RECURSIVE Skip(_, _)
Skip(path, slash) == IF path # <<>> /\ (Head(path) = "/") = slash THEN Skip(Tail(path), slash) ELSE path
Name(s, rest) ==
    LET len == Len(s) - Len(rest) IN SubSeq(s, 1, IF len >= DIRSIZ THEN DIRSIZ ELSE len)
skipelem(path) ==
    LET s == Skip(path, TRUE)
        rest == Skip(s, FALSE) IN
    [found |-> s # <<>>, name |-> Name(s, rest), path |-> Skip(rest, TRUE)]

\* The loop of namex().
RECURSIVE Elements(_)
Elements(path) ==
    LET e == skipelem(path) IN IF ~e.found THEN <<>> ELSE <<e.name>> \o Elements(e.path)

Path ==
    /\ in.f = "none"
    /\ \E p \in Paths : in' = Call("path", p)

\* A path is the sequence of what is between its slashes, each cut to DIRSIZ, and the
\* caller can tell the last one by the empty rest.
Begins(p, i) == p[i] # "/" /\ (i = 1 \/ p[i - 1] = "/")
ElementAt(p, i) == LET e[j \in i..(Len(p) + 1)] ==
                       IF j > Len(p) \/ j - i >= DIRSIZ \/ p[j] = "/" THEN <<>> ELSE <<p[j]>> \o e[j + 1]
                   IN  e[i]
Starts(p) == SelectSeq([i \in 1..Len(p) |-> i], LAMBDA i : Begins(p, i))
PathsRight ==
    in.f = "path" =>
        /\ Elements(in.args) = [k \in 1..Len(Starts(in.args)) |-> ElementAt(in.args, Starts(in.args)[k])]
        /\ skipelem(in.args).found => (skipelem(in.args).path = <<>>) = (Len(Starts(in.args)) = 1)

-----------------------------------------------------------------------------
(* grep's match().                                                         *)

RECURSIVE matchhere(_, _), matchstar(_, _, _)
matchhere(re, text) ==
    IF re = <<>> THEN TRUE
    ELSE IF Len(re) > 1 /\ re[2] = "*" THEN matchstar(re[1], SubSeq(re, 3, Len(re)), text)
    ELSE IF re = <<"$">> THEN text = <<>>
    ELSE text # <<>> /\ re[1] \in {".", text[1]} /\ matchhere(Tail(re), Tail(text))
matchstar(c, re, text) ==
    \/ matchhere(re, text)
    \/ text # <<>> /\ c \in {".", text[1]} /\ matchstar(c, re, Tail(text))
RECURSIVE matchany(_, _)
matchany(re, text) == matchhere(re, text) \/ (text # <<>> /\ matchany(re, Tail(text)))
match(re, text) == IF re # <<>> /\ re[1] = "^" THEN matchhere(Tail(re), text) ELSE matchany(re, text)

Match ==
    /\ in.f = "none"
    /\ \E re \in Patterns, t \in Texts : in' = Call("match", <<re, t>>)

\* A pattern is a sequence of characters, each perhaps with a star; ^ and $ are anchors
\* at its ends only.  After(re, t, S): where a match of re that begins in S may end.
Fits(c, x) == c \in {".", x}
RECURSIVE After(_, _, _)
After(re, t, S) ==
    IF re = <<>> THEN S
    ELSE IF Len(re) > 1 /\ re[2] = "*"
    THEN After(SubSeq(re, 3, Len(re)), t,
               {e \in 1..(Len(t) + 1) : \E b \in S : b <= e /\ \A i \in b..(e - 1) : Fits(re[1], t[i])})
    ELSE IF re = <<"$">> THEN S \cap {Len(t) + 1}
    ELSE After(Tail(re), t, {b + 1 : b \in {i \in S : i <= Len(t) /\ Fits(re[1], t[i])}})

\* match() says whether some part of the text, or its beginning, fits the pattern.
MatchesRight ==
    in.f = "match" =>
        LET re == in.args[1] t == in.args[2]
            anchored == re # <<>> /\ re[1] = "^" IN
        match(re, t) = (After(IF anchored THEN Tail(re) ELSE re, t,
                              IF anchored THEN {1} ELSE 1..(Len(t) + 1)) # {})

-----------------------------------------------------------------------------
(* The loop of grep(), which keeps the line that is not complete at the    *)
(* beginning of buf.  cut is the most that one read() returns.             *)

NL == "n"                                        \* the character that ends a line
Smaller(a, b) == IF a < b THEN a ELSE b
Hit(line) == match(<<"a">>, line)
RECURSIVE Lines(_, _)
Lines(buf, out) ==
    IF \A i \in 1..Len(buf) : buf[i] # NL THEN [buf |-> buf, out |-> out]
    ELSE LET q == CHOOSE i \in 1..Len(buf) : buf[i] = NL /\ \A j \in 1..(i - 1) : buf[j] # NL
             p == SubSeq(buf, 1, q - 1) IN
         Lines(SubSeq(buf, q + 1, Len(buf)), IF Hit(p) THEN Append(out, p) ELSE out)
RECURSIVE grep(_, _, _, _)
grep(buf, file, cut, out) ==
    LET n == Smaller(cut, Smaller(Len(file), BUFSIZ - Len(buf) - 1)) IN
    IF n <= 0 THEN out
    ELSE LET l == Lines(buf \o SubSeq(file, 1, n), out) IN
         grep(l.buf, SubSeq(file, n + 1, Len(file)), cut, l.out)

Grep ==
    /\ in.f = "none"
    /\ \E file \in Inputs, cut \in 1..BUFSIZ : in' = Call("grep", <<file, cut>>)

\* However read() cuts the file, the lines that match are written whole and in order,
\* up to the first line that does not fit into buf; the rest of the file is not looked at.
Ends(file) == SelectSeq([i \in 1..Len(file) |-> i], LAMBDA i : file[i] = NL)
LineOf(file, k) == SubSeq(file, IF k = 1 THEN 1 ELSE Ends(file)[k - 1] + 1, Ends(file)[k] - 1)
Fitting(file) ==
    LET ok == {k \in 0..Len(Ends(file)) : \A j \in 1..k : Len(LineOf(file, j)) + 1 <= BUFSIZ - 1}
        last == CHOOSE k \in ok : \A j \in ok : j <= k IN
    [k \in 1..last |-> LineOf(file, k)]
GrepsLines ==
    in.f = "grep" =>
        grep(<<>>, in.args[1], in.args[2], <<>>) = SelectSeq(Fitting(in.args[1]), Hit)

-----------------------------------------------------------------------------
Next == Format \/ Grep \/ Move \/ Copy \/ Compare \/ Number \/ Path \/ Match

Spec == Init /\ [][Next]_in

=============================================================================
