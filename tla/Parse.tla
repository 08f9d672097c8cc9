-------------------------------- MODULE Parse --------------------------------
(***************************************************************************)
(* The parser of the shell, user/sh.c.  A line is a sequence of characters *)
(* ("a" stands for those of words); commands are trees of records; a panic *)
(* of the parser is the result Error.                                      *)
(***************************************************************************)
EXTENDS Integers, Sequences, FiniteSets

CONSTANT MAXARGS

Symbols == {"<", ">", "|", "&", ";", "(", ")"}
Chars == Symbols \cup {"a", " "}

execcmd(argc) == [type |-> "EXEC", argc |-> argc]
redircmd(cmd, mode) == [type |-> "REDIR", cmd |-> cmd, mode |-> mode]
pipecmd(left, right) == [type |-> "PIPE", left |-> left, right |-> right]
listcmd(left, right) == [type |-> "LIST", left |-> left, right |-> right]
backcmd(cmd) == [type |-> "BACK", cmd |-> cmd]

\* What a parsing function leaves: the command and the rest of the line.
Parsed(cmd, ts) == [ok |-> TRUE, cmd |-> cmd, rest |-> ts]
Error == [ok |-> FALSE]

-----------------------------------------------------------------------------
(* Tokens: a symbol, "+" for >>, "a" for a word, "end".                    *)

RECURSIVE Drop(_, _)
Drop(s, chars) == IF s # <<>> /\ Head(s) \in chars THEN Drop(Tail(s), chars) ELSE s
skip(s) == Drop(s, {" "})

Token(s, t, n) == [tok |-> t, rest |-> skip(SubSeq(s, n + 1, Len(s)))]
\* The token at the head of s, which does not begin with a space.
TokenOf(s) ==
    IF s = <<>> THEN Token(s, "end", 0)
    ELSE IF Head(s) = "a" THEN [tok |-> "a", rest |-> skip(Drop(s, {"a"}))]
    ELSE IF Head(s) = ">" /\ Len(s) > 1 /\ s[2] = ">" THEN Token(s, "+", 2)
    ELSE Token(s, Head(s), 1)
gettoken(ps) == TokenOf(skip(ps))

peek(s, toks) == skip(s) # <<>> /\ Head(skip(s)) \in toks
Next1(s) == gettoken(s).rest

-----------------------------------------------------------------------------
RECURSIVE parseline(_), parsepipe(_), parseredirs(_, _), args(_, _, _)

\* Go on with what has been parsed, unless that was a panic.
Then(r, K(_)) == IF r.ok THEN K(r) ELSE Error

\* The redirections at the head of the line, added to those found before.
parseredirs(found, ts) ==
    LET t == gettoken(ts)
        file == gettoken(t.rest) IN
    IF ~peek(ts, {"<", ">"}) THEN [ok |-> TRUE, found |-> found, rest |-> ts]
    ELSE IF file.tok # "a" THEN Error
    ELSE parseredirs(Append(found, t.tok), file.rest)

\* Redirections wrap the command, the first one inmost.
RECURSIVE Wrap(_, _)
Wrap(cmd, found) ==
    IF found = <<>> THEN cmd ELSE Wrap(redircmd(cmd, Head(found)), Tail(found))

\* The loop of parseexec() after argc words.
args(argc, found, ts) ==
    LET t == gettoken(ts) IN
    IF peek(ts, {"|", ")", "&", ";"}) \/ t.tok = "end" THEN Parsed(Wrap(execcmd(argc), found), ts)
    ELSE IF t.tok # "a" \/ argc + 1 >= MAXARGS THEN Error
    ELSE Then(parseredirs(found, t.rest), LAMBDA r : args(argc + 1, r.found, r.rest))

parseblock(ts) ==
    Then(parseline(Next1(ts)), LAMBDA line :
         IF ~peek(line.rest, {")"}) THEN Error
         ELSE Then(parseredirs(<<>>, Next1(line.rest)),
                   LAMBDA r : Parsed(Wrap(line.cmd, r.found), r.rest)))

parseexec(ts) ==
    IF peek(ts, {"("}) THEN parseblock(ts)
    ELSE Then(parseredirs(<<>>, ts), LAMBDA r : args(0, r.found, r.rest))

parsepipe(ts) ==
    Then(parseexec(ts), LAMBDA left :
         IF ~peek(left.rest, {"|"}) THEN left
         ELSE Then(parsepipe(Next1(left.rest)),
                   LAMBDA right : Parsed(pipecmd(left.cmd, right.cmd), right.rest)))

RECURSIVE backs(_)
backs(r) == IF peek(r.rest, {"&"}) THEN backs(Parsed(backcmd(r.cmd), Next1(r.rest))) ELSE r

\* The end of parseline(), after its &s.
list(left) ==
    IF ~peek(left.rest, {";"}) THEN left
    ELSE Then(parseline(Next1(left.rest)),
              LAMBDA right : Parsed(listcmd(left.cmd, right.cmd), right.rest))
parseline(ts) == Then(parsepipe(ts), LAMBDA pipe : list(backs(pipe)))

\* Leftovers are an error.
parsecmd(ts) ==
    Then(parseline(ts), LAMBDA r : IF skip(r.rest) = <<>> THEN [ok |-> TRUE, cmd |-> r.cmd] ELSE Error)

-----------------------------------------------------------------------------
(* The grammar, by splitting a line instead of reading it from the left: a *)
(* line is a list of parts that end in any number of &, a part a pipeline  *)
(* of commands, a command a block or words, with redirections.             *)

\* A token begins at a symbol, except at the second > of a pair, and at the first
\* character of a word.
Begins(s, i) ==
    LET run == CHOOSE k \in 0..(i - 1) : /\ \A j \in (i - k)..(i - 1) : s[j] = ">"
                                         /\ i - k = 1 \/ s[i - k - 1] # ">" IN
    CASE s[i] = ">" -> run % 2 = 0
      [] s[i] = "a" -> i = 1 \/ s[i - 1] # "a"
      [] OTHER -> s[i] # " "
TokenAt(s, i) == IF s[i] = ">" /\ i < Len(s) /\ s[i + 1] = ">" THEN "+" ELSE s[i]
RECURSIVE TokensFrom(_, _)
TokensFrom(s, i) ==
    IF i > Len(s) THEN <<>>
    ELSE (IF Begins(s, i) THEN <<TokenAt(s, i)>> ELSE <<>>) \o TokensFrom(s, i + 1)

Redirs == {"<", ">", "+"}
Depth(ts, i) == Cardinality({j \in 1..(i - 1) : ts[j] = "("})
                  - Cardinality({j \in 1..(i - 1) : ts[j] = ")"})
\* The first place of tok outside of parentheses; 0 if there is none.
TopLevel(ts, tok) ==
    LET at == {i \in 1..Len(ts) : ts[i] = tok /\ Depth(ts, i) = 0} IN
    IF at = {} THEN 0 ELSE CHOOSE i \in at : \A j \in at : i <= j

RECURSIVE Line(_), Part(_), Pipeline(_), Items(_)

\* Words and redirections, each with its word: their number and modes.
Items(ts) ==
    LET rest == IF Head(ts) = "a" THEN Items(Tail(ts)) ELSE Items(Tail(Tail(ts))) IN
    IF ts = <<>> THEN [ok |-> TRUE, argc |-> 0, modes |-> <<>>]
    ELSE IF Head(ts) # "a" /\ (Head(ts) \notin Redirs \/ Len(ts) < 2 \/ ts[2] # "a") THEN Error
    ELSE IF ~rest.ok THEN Error
    ELSE IF Head(ts) = "a" THEN [rest EXCEPT !.argc = @ + 1]
    ELSE [rest EXCEPT !.modes = <<Head(ts)>> \o @]

Command(ts) ==
    LET after == [i \in 1..Len(ts) |-> Depth(ts, i + 1)]
        ends == {i \in 2..Len(ts) : ts[i] = ")" /\ after[i] = 0}
        end == CHOOSE i \in ends : \A j \in ends : i <= j
        inside == Line(SubSeq(ts, 2, end - 1))
        tail == Items(SubSeq(ts, end + 1, Len(ts)))
        all == Items(ts) IN
    IF ts = <<>> \/ ts[1] # "("
    THEN IF all.ok /\ all.argc < MAXARGS THEN [ok |-> TRUE, cmd |-> Wrap(execcmd(all.argc), all.modes)]
         ELSE Error
    ELSE IF ends = {} THEN Error
    ELSE IF ~inside.ok \/ ~tail.ok THEN Error
    ELSE IF tail.argc > 0 THEN Error
    ELSE [ok |-> TRUE, cmd |-> Wrap(inside.cmd, tail.modes)]

Join(left, right, Node(_, _)) ==
    IF left.ok /\ right.ok THEN [ok |-> TRUE, cmd |-> Node(left.cmd, right.cmd)] ELSE Error
Split(ts, i) == <<SubSeq(ts, 1, i - 1), SubSeq(ts, i + 1, Len(ts))>>

Pipeline(ts) ==
    LET i == TopLevel(ts, "|") IN
    IF i = 0 THEN Command(ts)
    ELSE Join(Command(Split(ts, i)[1]), Pipeline(Split(ts, i)[2]), pipecmd)
Part(ts) ==
    LET r == Part(SubSeq(ts, 1, Len(ts) - 1)) IN
    IF ts = <<>> \/ ts[Len(ts)] # "&" THEN Pipeline(ts)
    ELSE IF r.ok THEN [ok |-> TRUE, cmd |-> backcmd(r.cmd)] ELSE Error
Line(ts) ==
    LET i == TopLevel(ts, ";") IN
    IF i = 0 THEN Part(ts)
    ELSE Join(Part(Split(ts, i)[1]), Line(Split(ts, i)[2]), listcmd)

Grammar(s) == Line(TokensFrom(s, 1))

=============================================================================
