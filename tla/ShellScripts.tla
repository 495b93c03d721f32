---------------------------- MODULE ShellScripts ----------------------------
(***************************************************************************)
(* What a shell means by a command line: the reference that the lexer of   *)
(* ShellWords is held against.  A script is built by the operators below   *)
(* from its parts, and carries its own meaning:                            *)
(*    text   the characters it is written with                             *)
(*    words  of a command: its argument vector, where the output of a      *)
(*           substitution is taken to be empty and a sum is its own text   *)
(*    runs   the programs the shell starts, inner ones first; `read` is    *)
(*           FALSE of those in a construct that the lexer does not read    *)
(* Reserved words, braces, functions, aliases, `eval`, process             *)
(* substitutions and the expansion of variables and file names are not     *)
(* among the scripts.                                                      *)
(***************************************************************************)
EXTENDS Naturals, SequencesExt

Concat(seqs) == FlattenSeq(seqs)
All(parts, field(_)) == Concat([k \in DOMAIN parts |-> field(parts[k])])

(* Pieces of words.  `shows` tells that the piece makes a word even when   *)
(* it is empty, `tail` is what the lines after this one must hold.         *)
Piece(text, value) ==
    [text |-> text, value |-> value, runs |-> <<>>, tail |-> <<>>, shows |-> TRUE]
Plain(chars) == Piece(chars, chars)
SingleQuoted(chars) == Piece(<<"'">> \o chars \o <<"'">>, chars)
Backslashed(char) == Piece(<<"\\", char>>, <<char>>)
Continued == [Piece(<<"\\", "nl">>, <<>>) EXCEPT !.shows = FALSE]
Sum(chars) == Plain(<<"$", "(", "(">> \o chars \o <<")", ")">>)
Substituted(script) ==
    [text |-> <<"$", "(">> \o script.text \o <<")">>, value |-> <<>>, runs |-> script.runs,
     tail |-> script.tail, shows |-> FALSE]
Redirection(chars) == [Piece(chars, <<>>) EXCEPT !.shows = FALSE]
Subshell(script) == [script EXCEPT !.text = <<" ", "(">> \o @ \o <<")", " ">>]

Joined(parts) ==
    [text |-> All(parts, LAMBDA p : p.text), value |-> All(parts, LAMBDA p : p.value),
     runs |-> All(parts, LAMBDA p : p.runs), tail |-> All(parts, LAMBDA p : p.tail),
     shows |-> \E k \in DOMAIN parts : parts[k].shows]
DoubleQuoted(pieces) ==
    [Joined(pieces) EXCEPT !.text = <<"\"">> \o @ \o <<"\"">>, !.shows = TRUE]
Word(pieces) == Joined(pieces)

(* A command: `before` are words in front of the program that start it     *)
(* (assignments, sudo and its options), `words` the program and its        *)
(* arguments, `payload` what a shell is told to run.                       *)
Spaced(words) == Concat([k \in DOMAIN words |->
                           IF k = 1 THEN words[k].text ELSE <<" ">> \o words[k].text])
Values(words) ==
    LET shown == SelectSeq(words, LAMBDA w : w.shows)
    IN [k \in DOMAIN shown |-> shown[k].value]

Command(before, words, payload) ==
    LET all == before \o words
        argv == Values(words)
    IN [text |-> Spaced(all), words |-> Values(all), tail |-> All(all, LAMBDA w : w.tail),
        runs |-> All(all, LAMBDA w : w.runs)
                 \o <<[executable |-> <<Last(argv[1])>>, args |-> Tail(argv), read |-> TRUE]>>
                 \o payload.runs]
NoPayload == [runs |-> <<>>]

(* A command whose input is given in the script, up to a line that is the  *)
(* delimiter.                                                              *)
WithHeredoc(command, dash, written, delimiter, body) ==
    [command EXCEPT !.text = @ \o <<" ", "<", "<">> \o dash \o written,
                    !.tail = Append(@, body \o delimiter \o <<"nl">>)]

(* Commands one after the other; the input of a line's commands follows it.*)
Line(commands, separator) ==
    LET tails == All(commands, LAMBDA c : c.tail)
    IN [text |-> Concat([k \in DOMAIN commands |->
                           IF k = 1 THEN commands[k].text ELSE separator \o commands[k].text])
                 \o (IF tails = <<>> THEN <<>> ELSE <<"nl">> \o Concat(tails)),
        runs |-> All(commands, LAMBDA c : c.runs), tail |-> <<>>]

-----------------------------------------------------------------------------
(* What the lexer does not read as the shell does.  The shell runs the     *)
(* commands all the same.                                                  *)

Unread(script) ==
    [script EXCEPT !.runs = [k \in DOMAIN @ |-> [@[k] EXCEPT !.read = FALSE]]]

(* A substitution right behind `name=`: the first word of its first command*)
(* is read as a part of the assignment.                                    *)
Captured(first, others) == Substituted(Line(<<Unread(first)>> \o others, <<"|">>))

(* Backticks stay characters of the words of the command they are in.      *)
Ticked(script) ==
    [Substituted(script) EXCEPT !.text = <<"tick">> \o script.text \o <<"tick">>]

(* Outside a substitution the parentheses of a subshell stay characters of *)
(* its first and its last word.                                            *)
Grouped(commands) ==
    LET cut == {1, Len(commands)}
    IN [Line([k \in DOMAIN commands |-> IF k \in cut THEN Unread(commands[k]) ELSE commands[k]],
             <<";">>) EXCEPT !.text = <<"(">> \o @ \o <<")">>]

(* The body of a heredoc is skipped, though under a bare delimiter the     *)
(* shell runs the substitutions in it.                                     *)
Expanded(command, script) ==
    [WithHeredoc(command, <<>>, <<"E">>, <<"E">>, <<"$", "(">> \o script.text \o <<")", "nl">>)
        EXCEPT !.runs = Unread(script).runs \o @]

-----------------------------------------------------------------------------
(* Scripts, from what can stand at each place of one.                      *)

W(chars) == Word(<<Plain(chars)>>)
Rm == W(<<"rm">>)
Do(before, words) == Command(before, words, NoPayload)

(* What stands in front of a program.                                      *)
Befores ==
    {<<>>, <<W(<<"sudo">>)>>, <<W(<<"sudo">>), W(<<"-", "u">>), W(<<"x">>)>>,
     <<W(<<"sudo">>), W(<<"-", "u", "=", "x">>), W(<<"-", "-">>)>>,
     <<W(<<"A", "=", "x">>)>>, <<W(<<"env">>), W(<<"-", "i">>), W(<<"A", "=", "/">>)>>,
     <<W(<<"timeout">>), W(<<"-", "k">>), W(<<"x">>), W(<<"9">>)>>,
     <<W(<<"timeout">>), W(<<"-", "k", "9">>), W(<<"9">>), W(<<"sudo">>), W(<<"-", "i">>)>>}

(* Pieces without a command in them.                                       *)
Plains ==
    {Plain(<<"x">>), Continued, Sum(<<"x", "(", "y", ")">>)}
    \cup {SingleQuoted(t) : t \in {<<>>, <<";", "rm">>, <<"\"">>, <<"$", "(", "rm", ")">>, <<"nl", "\\">>}}
    \cup {Backslashed(c) : c \in {";", " ", "'", "\"", "$", "\\"}}
    \cup {DoubleQuoted(ps) :
            ps \in {<<>>, <<Plain(<<"x", ";", "rm">>)>>, <<Plain(<<"'">>)>>, <<Plain(<<"nl">>)>>,
                    <<Backslashed("\""), Plain(<<"x">>)>>, <<Backslashed("$"), Plain(<<"(">>)>>,
                    <<Plain(<<"\\", "x">>)>>, <<Backslashed("\\")>>}}

Heredoc1(c) == WithHeredoc(c, <<>>, <<"E">>, <<"E">>, <<"'", "nl", "x", "E", "nl">>)
Heredoc2(c) == WithHeredoc(c, <<"-">>, <<" ", "'", "E", "'">>, <<"tab", "E">>, <<"rm", ";", "nl">>)

(* Small scripts, to be nested.                                            *)
Small ==
    {Line(cs, <<";">>) :
       cs \in {<<Do(<<>>, <<Rm>>)>>, <<Do(<<>>, <<Rm, W(<<"x">>)>>), Do(<<>>, <<W(<<"git">>)>>)>>,
               <<Do(<<W(<<"sudo">>)>>, <<Rm, Word(<<DoubleQuoted(<<Plain(<<"x", ")">>)>>)>>)>>)>>,
               <<Heredoc1(Do(<<>>, <<W(<<"git">>)>>)), Do(<<>>, <<Rm>>)>>}}

(* Pieces with commands in them.                                           *)
Substitutions(scripts) ==
    {Substituted(s) : s \in scripts} \cup {Substituted(Subshell(s)) : s \in scripts}
    \cup {DoubleQuoted(<<Plain(<<"x", " ">>), Substituted(s), Plain(<<";">>)>>) : s \in scripts}
    \cup {Substituted(Line(<<Do(<<>>, <<W(<<"x">>), Word(<<Substituted(s)>>)>>), Do(<<>>, <<Rm>>)>>,
                           <<" ", "&", "&", " ">>)) : s \in scripts}
    \cup {Substituted(Heredoc2(Do(<<>>, <<W(<<"git">>)>>)))}

(* What a shell is given: its options, and the script as one argument.     *)
ShellOptions == {<<>>, <<W(<<"-", "x">>)>>, <<W(<<"-", "-", "rcfile">>), W(<<"y">>)>>,
                 <<W(<<"-", "-", "login">>)>>, <<W(<<"-", "o">>), W(<<"y">>)>>}
Dash == {<<"-", "c">>, <<"-", "x", "c">>}
InShell(before, options, dash, quoted, s) ==
    Command(before, <<W(<<"/", "x", "/", "sh">>)>> \o options \o <<W(dash), Word(<<quoted>>)>>, s)
Quotable == {s \in Small : "'" \notin ToSet(s.text)}
ShellRuns ==
    {InShell(<<>>, o, d, SingleQuoted(s.text), s) : o \in ShellOptions, d \in Dash, s \in Quotable}
    \cup {Command(<<W(<<"sudo">>)>>,
                  <<W(<<"sh">>), Word(<<Plain(<<"-", "c">>), SingleQuoted(s.text)>>)>>, s) : s \in Quotable}
    \cup {LET inner == InShell(<<W(<<"sudo">>)>>, <<>>, <<"-", "c">>, SingleQuoted(s.text), s)
          IN InShell(<<>>, <<>>, <<"-", "c">>, DoubleQuoted(<<Plain(inner.text)>>), inner) :
            s \in {q \in Quotable : "\"" \notin ToSet(q.text)}}
    \cup {Do(<<>>, <<W(<<"sh">>)>> \o o \o <<W(<<"-", "c">>), W(<<"rm">>)>>) :
            o \in {<<W(<<"x">>)>>, <<W(<<"-", "-">>)>>, <<W(<<"-", "9">>)>>, <<W(<<"-", "-", "i">>)>>}}

(* Commands in, or around, a construct that the lexer does not read.       *)
Git(words) == Do(<<>>, <<W(<<"git">>)>> \o words)
Name == Plain(<<"A", "=">>)
Captures ==
    {Captured(c, o) : c \in {Git(<<>>), Git(<<W(<<"x">>), W(<<"y">>)>>)},
                      o \in {<<>>, <<Do(<<>>, <<Rm, W(<<"x">>)>>)>>}}
    \cup {Captured(InShell(<<>>, <<>>, <<"-", "c">>, SingleQuoted(<<"rm">>), Do(<<>>, <<Rm>>)), <<>>)}
OneLine == {s \in Small : {"nl", "\""} \cap ToSet(s.text) = {}}
Unreads ==
    {Do(<<Word(<<Name, c>>)>>, <<Rm>>) : c \in Captures}
    \cup {Do(<<>>, <<Rm, Word(<<Name, DoubleQuoted(<<c>>)>>)>>) : c \in Captures}
    \cup {Unread(Do(b, <<Rm, Word(<<Plain(<<"y">>), Ticked(s)>>)>>)) : b \in Befores, s \in Small}
    \cup {Unread(Do(<<>>, <<Rm, Word(<<DoubleQuoted(<<Ticked(s)>>)>>)>>)) : s \in OneLine}
    \cup {Grouped(cs) : cs \in {<<Do(<<>>, <<Rm>>)>>,
                                <<Do(<<W(<<"sudo">>)>>, <<Rm>>), Git(<<W(<<"x">>)>>), Do(<<>>, <<Rm>>)>>}}
    \cup {Expanded(Do(b, <<Rm>>), s) : b \in Befores, s \in OneLine}
    \cup {Unread(Do(b, <<Rm, W(<<"x">>), Word(<<Redirection(r)>>)>>)) :
             b \in Befores, r \in {<<"<", "x">>, <<">", "y">>, <<">", "&", "y">>}}

Commands ==
    {Do(b, <<Rm, Word(ps)>>) : b \in Befores,
        ps \in {<<p>> : p \in Plains} \cup {<<Plain(<<"y">>), p>> : p \in Plains}}
    \cup {Do(b, <<Rm, Word(ps)>>) : b \in {<<>>, <<W(<<"sudo">>)>>},
             ps \in {<<p>> : p \in Substitutions(Small)} \cup {<<Plain(<<"y">>), p>> : p \in Substitutions(Small)}}
    \cup {Do(<<Word(<<Name, Substituted(Line(<<c>>, <<>>))>>)>>, <<Rm>>) :
            c \in {Do(<<W(<<"sudo">>)>>, <<W(<<"git">>)>>), Do(<<W(<<"A", "=", "x">>)>>, <<W(<<"git">>)>>)}}
    \cup {Do(<<Word(<<Name, Plain(<<"x">>), Substituted(s)>>)>>, <<Rm>>) : s \in Small}
    \cup ShellRuns \cup Unreads
    \cup {Heredoc1(Do(<<>>, <<Rm>>)), Heredoc2(Heredoc1(Do(<<>>, <<Rm, W(<<"x">>)>>)))}

GitY == Do(<<>>, <<W(<<"git">>), W(<<"y">>)>>)
CommandLines == {Line(<<c, GitY>>, s) : c \in Commands, s \in {<<";">>, <<" ", "|", " ">>}}
         \cup {Line(<<c>>, <<>>) : c \in Commands}

ArgVectors == {Do(b, <<W(<<"x", "/", "rm">>), W(<<"x", ";", "git">>)>>) : b \in Befores}
         \cup {InShell(<<W(<<"sudo">>)>>, <<>>, <<"-", "c">>, SingleQuoted(s.text), s) : s \in Quotable}

(* What the lexer is given: a text, or the arguments of a process, which   *)
(* are words already.                                                      *)
AllScripts ==
    {[text |-> s.text, argvs |-> <<>>, runs |-> s.runs] : s \in CommandLines}
    \cup {[text |-> <<>>, argvs |-> <<s.words>>, runs |-> s.runs] : s \in ArgVectors}
=============================================================================
