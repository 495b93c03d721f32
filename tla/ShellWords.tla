----------------------------- MODULE ShellWords -----------------------------
(***************************************************************************)
(* How a command line becomes the tokens that packs are matched against    *)
(* (Engine::segment_command): a lexer that runs nothing, the stripping of  *)
(* assignments and of programs that only start another one, and the        *)
(* command strings of `sh -c`.                                             *)
(*                                                                         *)
(* A text is a sequence of characters.  A name is one character here: what *)
(* the code asks of names is only whether they are equal.                  *)
(***************************************************************************)
EXTENDS Texts

CONSTANTS
    Names,          \* names of programs, options, variables and files
    Shells,         \* SHELL_PAYLOAD_BASENAMES
    Wrappers,       \* per program that starts another one: options that take a value
    TakesOperand,   \* the wrapper with an operand before the command: timeout
    LongFlags,      \* long options of a shell without a value
    MaxDepth        \* SHELL_PAYLOAD_MAX_DEPTH

VARIABLES
    script,   \* the input: a text or argument vectors, and what a shell runs for it
    rest,     \* characters the lexer has not read
    ctx,      \* the LexContext it is in
    outer,    \* the contexts around it, outermost first
    commands, \* the commands of this text, each a sequence of words
    jobs,     \* commands still to be made into tokens
    depth,    \* nesting of the text: a payload is one deeper than its shell
    tokens    \* the result

lexVars == <<script, rest, ctx, outer, commands, jobs, depth, tokens>>

-----------------------------------------------------------------------------
(* The context.                                                            *)

NewContext == [quote |-> "", escaped |-> FALSE, command |-> <<>>, word |-> <<>>,
               started |-> FALSE, heredocs |-> <<>>, grouping |-> 0]

Push(x, chars) == [x EXCEPT !.word = @ \o chars, !.started = TRUE]

FinishWord(x) ==
    IF x.started THEN [x EXCEPT !.command = Append(@, x.word), !.word = <<>>, !.started = FALSE]
    ELSE x

(* The command is taken off its context, and is kept unless it is empty.   *)
Finished(x) == SelectSeq(<<FinishWord(x).command>>, LAMBDA c : c # <<>>)
FinishCommand(x) == [FinishWord(x) EXCEPT !.command = <<>>]

IsAssignment(w) == Len(w) > 1 /\ w[1] \in Names /\ w[2] = "="
AwaitsValue(w) == Len(w) = 2 /\ IsAssignment(w)

(* A substitution that an assignment captures keeps the assignment at its  *)
(* first word.                                                             *)
InnerContext(x) ==
    IF AwaitsValue(x.word) THEN Push(NewContext, x.word) ELSE NewContext

Spaces == {" ", "tab"}
Separators == {";", "&", "|"}

(* The characters from `$((` to the matching parenthesis, or to what       *)
(* cannot be arithmetic, which is read as well.                            *)
ArithmeticEnd(chars) ==
    LET n == Len(chars)
        skipped[i \in 0..n] == i > 1 /\ ~skipped[i - 1] /\ chars[i - 1] = "\\"
        Count(c, i) == Cardinality({j \in 1..i : ~skipped[j] /\ chars[j] = c})
        ends == {i \in 1..n : ~skipped[i] /\
                   \/ chars[i] \in Separators \cup {"nl", "'", "\"", "tick"}
                   \/ chars[i] = ")" /\ Count("(", i) = Count(")", i)}
    IN IF ends = {} THEN n ELSE Min(ends)

(* After `<<`: whether tabs are stripped, the delimiter, and what follows. *)
Heredoc(chars) ==
    LET tabs == chars # <<>> /\ chars[1] = "-"
        dashed == IF tabs THEN Tail(chars) ELSE chars
        blanks == {i \in 1..Len(dashed) : dashed[i] \notin Spaces}
        word == IF blanks = {} THEN <<>> ELSE From(dashed, Min(blanks))
        quoted == word # <<>> /\ word[1] \in {"'", "\""}
        text == IF quoted THEN Tail(word) ELSE word
        end == FirstOf(text, IF quoted THEN {word[1]}
                             ELSE Spaces \cup Separators \cup {"nl", "<", ">"})
    IN [tabs |-> tabs, delimiter |-> SubSeq(text, 1, end - 1),
        after |-> From(text, IF quoted THEN end + 1 ELSE end)]

(* What follows the body of a heredoc: the text after the line that is the *)
(* delimiter.                                                              *)
AfterBody(chars, h) ==
    LET n == Len(chars)
        end(i) == i - 1 + FirstOf(From(chars, i), {"nl"})
        line(i) == SubSeq(chars, i, end(i) - 1)
        start(i) == IF h.tabs THEN FirstOf(line(i), ToSet(line(i)) \ {"tab"}) ELSE 1
        after[i \in 1..(n + 2)] ==
          IF i > n THEN <<>>
          ELSE IF From(line(i), start(i)) = h.delimiter THEN From(chars, end(i) + 1)
          ELSE after[end(i) + 1]
    IN after[1]

-----------------------------------------------------------------------------
(* The lexer, one turn of its loop a step.                                 *)

Peek(i) == IF Len(rest) > i THEN rest[i + 1] ELSE ""
Char == Peek(0)

(* The step reads n characters and leaves the context x.                   *)
Reads(n, x) == rest' = From(rest, n + 1) /\ ctx' = x

InText == rest # <<>>
Lexing == UNCHANGED <<script, jobs, depth, tokens>>
SameText == Lexing /\ UNCHANGED <<outer, commands>>

Escaped ==
    /\ InText /\ ctx.escaped
    /\ LET x == [ctx EXCEPT !.escaped = FALSE]
       IN Reads(1, IF Char = "nl" THEN x ELSE Push(x, <<Char>>))
    /\ SameText

InQuotes == InText /\ ~ctx.escaped /\ ctx.quote # ""
InDouble == InQuotes /\ ctx.quote = "\"" /\ Char # "\""

OpensSubstitution == Char = "$" /\ Peek(1) = "("

CloseQuote ==
    /\ InQuotes /\ Char = ctx.quote
    /\ Reads(1, [ctx EXCEPT !.quote = "", !.started = TRUE])
    /\ SameText

EscapeInDouble ==
    /\ InDouble /\ Char = "\\"
    /\ IF Peek(1) \in {"\"", "\\", "$", "tick", "nl"}
       THEN Reads(2, IF Peek(1) = "nl" THEN ctx ELSE Push(ctx, <<Peek(1)>>))
       ELSE Reads(1, Push(ctx, <<Char>>))
    /\ SameText

LiteralInQuotes ==
    /\ InQuotes /\ Char # ctx.quote
    /\ InDouble => Char # "\\" /\ ~OpensSubstitution
    /\ Reads(1, Push(ctx, <<Char>>))
    /\ SameText

Bare == InText /\ ~ctx.escaped /\ ctx.quote = ""

(* `$(` in a word, quoted or not.                                          *)
Substitution ==
    /\ OpensSubstitution
    /\ InDouble \/ (Bare /\ Peek(2) # "(")
    /\ Reads(2, InnerContext(ctx))
    /\ outer' = Append(outer, ctx)
    /\ UNCHANGED commands /\ Lexing

Arithmetic ==
    /\ Bare /\ OpensSubstitution /\ Peek(2) = "("
    /\ LET end == 1 + ArithmeticEnd(Tail(rest))
       IN Reads(end, Push(ctx, SubSeq(rest, 1, end)))
    /\ SameText

(* `<<` announces a body, `<<<` only ends the word.                        *)
Redirect ==
    /\ Bare /\ Char = "<" /\ Peek(1) = "<"
    /\ IF Peek(2) = "<" THEN Reads(3, FinishWord(ctx))
       ELSE LET h == Heredoc(From(rest, 3))
            IN /\ rest' = h.after
               /\ ctx' = FinishWord(IF h.delimiter = <<>> THEN ctx
                                    ELSE [ctx EXCEPT !.heredocs = Append(@, h)])
    /\ SameText

OpenQuote ==
    /\ Bare /\ Char \in {"'", "\""}
    /\ Reads(1, [ctx EXCEPT !.quote = Char, !.started = TRUE])
    /\ SameText

Backslash ==
    /\ Bare /\ Char = "\\"
    /\ Reads(1, [ctx EXCEPT !.escaped = TRUE])
    /\ SameText

(* A line ends its command; the bodies announced on it come next.          *)
NewLine ==
    /\ Bare /\ Char = "nl"
    /\ commands' = commands \o Finished(ctx)
    /\ ctx' = [FinishCommand(ctx) EXCEPT !.heredocs = <<>>]
    /\ rest' = FoldLeft(AfterBody, Tail(rest), ctx.heredocs)
    /\ UNCHANGED outer /\ Lexing

Blank ==
    /\ Bare /\ Char \in Spaces
    /\ Reads(1, FinishWord(ctx))
    /\ SameText

Separator ==
    /\ Bare /\ Char \in Separators
    /\ commands' = commands \o Finished(ctx)
    /\ Reads(1, FinishCommand(ctx))
    /\ UNCHANGED outer /\ Lexing

OpenGroup ==
    /\ Bare /\ Char = "(" /\ outer # <<>>
    /\ Reads(1, [FinishWord(ctx) EXCEPT !.grouping = @ + 1])
    /\ SameText

(* Mutant: the parenthesis of a group ends the substitution it is in.      *)
GroupEndsSubstitution ==
    /\ Bare /\ Char = ")" /\ outer # <<>> /\ ctx.grouping > 0
    /\ commands' = commands \o Finished(ctx)
    /\ Reads(1, Last(outer))
    /\ outer' = Front(outer)
    /\ Lexing

CloseGroup ==
    /\ Bare /\ Char = ")" /\ outer # <<>> /\ ctx.grouping > 0
    /\ Reads(1, [FinishWord(ctx) EXCEPT !.grouping = @ - 1])
    /\ SameText

(* The substitution ends; its announced bodies still come on the next line.*)
CloseSubstitution ==
    /\ Bare /\ Char = ")" /\ outer # <<>> /\ ctx.grouping = 0
    /\ commands' = commands \o Finished(ctx)
    /\ Reads(1, [Last(outer) EXCEPT !.heredocs = @ \o ctx.heredocs])
    /\ outer' = Front(outer)
    /\ Lexing

Literal ==
    /\ Bare
    /\ Char \notin Spaces \cup Separators \cup {"nl", "'", "\"", "\\"}
    /\ Char \in {"(", ")"} => outer = <<>>
    /\ ~OpensSubstitution /\ ~(Char = "<" /\ Peek(1) = "<")
    /\ Reads(1, Push(ctx, <<Char>>))
    /\ SameText

-----------------------------------------------------------------------------
(* Tokens.                                                                 *)

IsOption(w) == w # <<>> /\ w[1] = "-" /\ Len(w) > 1

(* The index after the options that start at index i.                      *)
SkipOptions(words, i, withValue) ==
    LET n == Len(words)
        skip[k \in 1..(n + 1)] ==
          IF k > n \/ ~IsOption(words[k]) THEN k
          ELSE IF words[k] = <<"-", "-">> THEN k + 1
          ELSE skip[IF words[k] \in withValue /\ k < n THEN k + 2 ELSE k + 1]
    IN skip[i]

Basename(w) ==
    LET slashes == {i \in 1..Len(w) : w[i] = "/"}
    IN IF slashes = {} THEN w ELSE From(w, Max(slashes) + 1)

IsWrapper(w) == \E p \in DOMAIN Wrappers : Basename(w) = <<p>>

(* The index of the program a command runs in the end, behind assignments  *)
(* and wrappers.                                                           *)
Executable(words) ==
    LET n == Len(words)
        behind(i) ==
          LET program == Basename(words[i])[1]
              after == SkipOptions(words, i + 1, Wrappers[program])
          IN IF program \in TakesOperand /\ after <= n THEN after + 1 ELSE after
        at[i \in 1..(n + 1)] ==
          IF i > n THEN i
          ELSE IF IsAssignment(words[i]) THEN at[i + 1]
          ELSE IF IsWrapper(words[i]) THEN at[behind(i)]
          ELSE i
    IN at[1]

Token(words, i) == [executable |-> Basename(words[i]), args |-> From(words, i + 1)]

(* The text of the first `-c` among a shell's arguments; nothing if a      *)
(* script, `--` or an unknown option comes first.                          *)
Letters == Names \cup {"c", "o"}
Payload(args) ==
    LET n == Len(args)
        cluster(i) == Tail(args[i])
        first(i) == Min({k \in 1..Len(cluster(i)) : cluster(i)[k] \in {"c", "o"} \/ cluster(i)[k] \notin Letters}
                        \cup {Len(cluster(i)) + 1})
        long(i) == From(args[i], 3)
        text[i \in 1..(n + 2)] ==
          IF i > n \/ ~IsOption(args[i]) THEN <<>>
          ELSE IF args[i][2] = "-"
          THEN IF long(i) = <<"rcfile">> THEN text[i + 2]
               ELSE IF Len(long(i)) = 1 /\ long(i)[1] \in LongFlags THEN text[i + 1]
               ELSE <<>>
          ELSE IF first(i) > Len(cluster(i)) THEN text[i + 1]
          ELSE IF cluster(i)[first(i)] = "o" THEN text[IF first(i) = Len(cluster(i)) THEN i + 2 ELSE i + 1]
          ELSE IF cluster(i)[first(i)] # "c" THEN <<>>
          ELSE IF first(i) < Len(cluster(i)) THEN <<From(cluster(i), first(i) + 1)>>
          ELSE IF i < n THEN <<args[i + 1]>>
          ELSE <<>>
    IN text[1]

(* The end of a text: a backslash that ends it is kept, and unterminated   *)
(* substitutions end innermost first.  Its commands are the next jobs.     *)
EndText ==
    /\ rest = <<>>
    /\ ctx # NewContext \/ outer # <<>> \/ commands # <<>>
    /\ LET last == IF ctx.escaped THEN Push(ctx, <<"\\">>) ELSE ctx
           all == FoldLeft(LAMBDA found, x : found \o Finished(x),
                           commands \o Finished(last), Reverse(outer))
       IN jobs' = [k \in DOMAIN all |-> [words |-> all[k], depth |-> depth]] \o jobs
    /\ ctx' = NewContext /\ outer' = <<>> /\ commands' = <<>>
    /\ UNCHANGED <<script, rest, depth, tokens>>

(* A command becomes its token; a shell's command string is the next text. *)
Expand ==
    /\ rest = <<>> /\ ctx = NewContext /\ outer = <<>> /\ commands = <<>> /\ jobs # <<>>
    /\ LET job == Head(jobs)
           at == Executable(job.words)
           token == Token(job.words, at)
           payload == IF job.depth < MaxDepth /\ token.executable \in {<<s>> : s \in Shells}
                      THEN Payload(token.args) ELSE <<>>
       IN IF at > Len(job.words) THEN UNCHANGED <<rest, depth, tokens>>
          ELSE /\ tokens' = Append(tokens, token)
               /\ IF payload = <<>> THEN UNCHANGED <<rest, depth>>
                  ELSE rest' = payload[1] /\ depth' = job.depth + 1
    /\ jobs' = Tail(jobs)
    /\ UNCHANGED <<script, ctx, outer, commands>>

Tokenized == rest = <<>> /\ ctx = NewContext /\ outer = <<>> /\ commands = <<>> /\ jobs = <<>>

LexInit(inputs) ==
    /\ script \in inputs
    /\ rest = script.text /\ ctx = NewContext /\ outer = <<>> /\ commands = <<>>
    /\ jobs = [k \in DOMAIN script.argvs |-> [words |-> script.argvs[k], depth |-> 0]]
    /\ depth = 0 /\ tokens = <<>>

LexNext ==
    \/ Escaped \/ CloseQuote \/ EscapeInDouble \/ LiteralInQuotes \/ Substitution \/ Arithmetic
    \/ Redirect \/ OpenQuote \/ Backslash \/ NewLine \/ Blank \/ Separator \/ OpenGroup
    \/ CloseGroup \/ CloseSubstitution \/ Literal \/ EndText \/ Expand

-----------------------------------------------------------------------------

(* s is left of t when some elements of t are dropped.                     *)
Within(s, t) ==
    FoldLeft(LAMBDA left, x : IF left # <<>> /\ Head(left) = x THEN Tail(left) ELSE left, s, t) = <<>>

(* What a shell runs for a command line, with its arguments, is what packs *)
(* are asked about, in quotations, substitutions, subshells in them,       *)
(* wrappers, and the strings of `sh -c`, and nothing that a shell would    *)
(* only quote or feed to a command is taken for one (engine.rs,            *)
(* segment_command).  The exceptions are the constructs that the lexer     *)
(* does not read (ShellScripts, Unread): the first command of a            *)
(* substitution that an assignment captures (open_substitution), commands  *)
(* between backticks, at the ends of a subshell outside a substitution, or *)
(* in a substitution inside a heredoc, and commands with a redirection to  *)
(* or from a file.  These may be missed or cut up, yet they hide no other  *)
(* command of the line.                                                    *)
EveryCommandIsSeen ==
    Tokenized =>
        LET AsToken(run) == [executable |-> run.executable, args |-> run.args]
            Tokens(runs) == [k \in DOMAIN runs |-> AsToken(runs[k])]
            seen == SelectSeq(script.runs, LAMBDA run : run.read)
        IN IF seen = script.runs THEN tokens = Tokens(seen) ELSE Within(Tokens(seen), tokens)
=============================================================================
