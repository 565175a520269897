--------------------------- MODULE Interpolation ----------------------------
(***************************************************************************)
(* How the texts of a compose file are interpolated before a stack is made *)
(* of it: parseLine() of libcompose and the functions below it, one step   *)
(* per character, with the variables of the stack (MapEnvLookup).          *)
(*                                                                         *)
(* A character is "$", a brace ("open" or "close"), "a" for a letter or    *)
(* "_", a digit "0" or "1", or "-" for any other one.  parseConfig()       *)
(* does the same to every text in the lists and maps of the file and stops *)
(* at the first one that is refused; other values are left as they are.    *)
(***************************************************************************)
EXTENDS Naturals, Sequences, FiniteSets

CONSTANTS
    Env,    \* the variables of the stack and their values as text
    MaxText \* bound on the length of a text

isNum(c) == c \in {"0", "1"}
validVariableNameChar(c) == c = "a" \/ isNum(c)

Char == {"$", "open", "close", "a", "0", "1", "-"}
Text == Seq(Char)

ASSUME InterpolationAssumption == /\ MaxText \in Nat
                                  /\ \A v \in DOMAIN Env : Env[v] \in Text

VARIABLES
    line,   \* the text
    pos,    \* the position in it
    fn,     \* the function that is at it
    name,   \* the inner functions' buffer
    buffer, \* parseLine()'s buffer
    marks,  \* history: what had been read and written after each write
    result, \* does parseLine() succeed?
    value   \* the text the option has in the end

vars == <<line, pos, fn, name, buffer, marks, result, value>>

Mark == [to : Nat, at : Nat]

TypeOK == /\ line \in Text
          /\ pos \in Nat
          /\ fn \in {"parseLine", "parseInterpolationExpression", "parseVariable",
                     "parseVariableWithBraces"}
          /\ name \in Text
          /\ buffer \in Text
          /\ marks \in Seq(Mark) /\ marks # <<>>
          /\ result \in {"none", "ok", "invalid", "panic"}
          /\ value \in Text

Init == /\ \E n \in 0..MaxText : line \in [1..n -> Char]
        /\ pos = 1
        /\ fn = "parseLine"
        /\ name = <<>>
        /\ buffer = <<>>
        /\ marks = <<[to |-> 0, at |-> 0]>>
        /\ result = "none"
        /\ value = <<>>

-----------------------------------------------------------------------------
\* Lookup(), and what Interpolate() makes of its answer.
mapping(v) == IF v \in DOMAIN Env THEN Env[v] ELSE <<>>

At(f) == result = "none" /\ fn = f

\* The characters up to "to" are done with.
Write(text, to) == /\ buffer' = buffer \o text
                   /\ marks' = Append(marks, [to |-> to, at |-> Len(buffer \o text)])
                   /\ fn' = "parseLine"
                   /\ name' = <<>>
                   /\ UNCHANGED <<line, result, value>>

Read(f, text) == /\ fn' = f
                 /\ name' = text
                 /\ pos' = pos + 1
                 /\ UNCHANGED <<line, buffer, marks, result, value>>

End(res) == result' = res /\ UNCHANGED <<line, pos, fn, name, buffer, marks>>

\* "Invalid interpolation format"
Refuse == End("invalid") /\ UNCHANGED value

-----------------------------------------------------------------------------
(* parseLine()                                                             *)

Literal == /\ At("parseLine") /\ pos <= Len(line)
           /\ line[pos] # "$"
           /\ Write(<<line[pos]>>, pos)
           /\ pos' = pos + 1

Dollar == /\ At("parseLine") /\ pos <= Len(line)
          /\ line[pos] = "$"
          /\ Read("parseInterpolationExpression", <<>>)

\* strconv.Atoi().  Signs are left out, and a number too long for an int, for which
\* Atoi() fails and the text stays as it is.
IsInteger(t) == t # <<>> /\ \A i \in DOMAIN t : isNum(t[i])

\* The number is written without leading zeros when it becomes a text again.
LeadingZeros(t) == Cardinality({n \in 1..(Len(t) - 1) : \A i \in 1..n : t[i] = "0"})
Decimal(t) == SubSeq(t, LeadingZeros(t) + 1, Len(t))

\* The end of parseLine(), and the conversion of parseConfig().
EndOfLine == /\ At("parseLine") /\ pos > Len(line)
             /\ End("ok")
             /\ value' = IF IsInteger(buffer) THEN Decimal(buffer) ELSE buffer

-----------------------------------------------------------------------------
(* parseInterpolationExpression()                                          *)

\* line[pos] behind the end of the line.
OutOfRange == /\ At("parseInterpolationExpression") /\ pos > Len(line)
              /\ End("panic")
              /\ UNCHANGED value

Escape == /\ At("parseInterpolationExpression") /\ pos <= Len(line)
          /\ line[pos] = "$"
          /\ Write(<<"$">>, pos)
          /\ pos' = pos + 1

OpenBrace == /\ At("parseInterpolationExpression") /\ pos <= Len(line)
             /\ line[pos] = "open"
             /\ Read("parseVariableWithBraces", <<>>)

\* "Variables can't start with a number"
FirstChar == /\ At("parseInterpolationExpression") /\ pos <= Len(line)
             /\ ~ isNum(line[pos]) /\ validVariableNameChar(line[pos])
             /\ fn' = "parseVariable"
             /\ UNCHANGED <<line, pos, name, buffer, marks, result, value>>

NoExpression == /\ At("parseInterpolationExpression") /\ pos <= Len(line)
                /\ line[pos] \notin {"$", "open"}
                /\ isNum(line[pos]) \/ ~ validVariableNameChar(line[pos])
                /\ Refuse

-----------------------------------------------------------------------------
(* parseVariable() and parseVariableWithBraces()                           *)

NameChar == /\ At("parseVariable") /\ pos <= Len(line)
            /\ validVariableNameChar(line[pos])
            /\ Read("parseVariable", Append(name, line[pos]))

\* Mutant: the position is that of the character behind the name.
VariableEndsBehind == /\ At("parseVariable")
                      /\ pos <= Len(line) => ~ validVariableNameChar(line[pos])
                      /\ Write(mapping(name), pos - 1)
                      /\ pos' = pos + 1

\* Mutant: the last character of the name is read again as well.
VariableEndsBefore == /\ At("parseVariable")
                      /\ pos <= Len(line) => ~ validVariableNameChar(line[pos])
                      /\ Write(mapping(name), pos - 1)
                      /\ pos' = pos - 1

\* The character that ends the name is read again.
VariableEnds == /\ At("parseVariable")
                /\ pos <= Len(line) => ~ validVariableNameChar(line[pos])
                /\ Write(mapping(name), pos - 1)
                /\ pos' = IF pos <= Len(line) THEN pos ELSE pos + 1

BraceNameChar == /\ At("parseVariableWithBraces") /\ pos <= Len(line)
                 /\ validVariableNameChar(line[pos])
                 /\ Read("parseVariableWithBraces", Append(name, line[pos]))

CloseBrace == /\ At("parseVariableWithBraces") /\ pos <= Len(line)
              /\ line[pos] = "close" /\ name # <<>>
              /\ Write(mapping(name), pos)
              /\ pos' = pos + 1

\* Mutant: the rule on the first character, in braces too.
BadBracesNumber == /\ At("parseVariableWithBraces")
                   /\ pos <= Len(line) => \/ isNum(line[pos]) /\ name = <<>>
                                          \/ line[pos] = "close" /\ name = <<>>
                                          \/ line[pos] # "close" /\ ~ validVariableNameChar(line[pos])
                   /\ Refuse

\* No name, no closing brace, or another character before it.
BadBraces == /\ At("parseVariableWithBraces")
             /\ pos <= Len(line) => \/ line[pos] = "close" /\ name = <<>>
                                    \/ line[pos] # "close" /\ ~ validVariableNameChar(line[pos])
             /\ Refuse

\* The text is done with: the only way in which the scan may stop.
Finished == result # "none" /\ UNCHANGED vars

Next == \/ Literal \/ Dollar \/ EndOfLine
        \/ OutOfRange \/ Escape \/ OpenBrace \/ FirstChar \/ NoExpression
        \/ NameChar \/ VariableEnds \/ BraceNameChar \/ CloseBrace \/ BadBraces
        \/ Finished

Spec == Init /\ [][Next]_vars

-----------------------------------------------------------------------------
(* Reference: which parts of a line are tokens, and what they mean.        *)

IsName(i, j) == i <= j /\ \A k \in i..j : validVariableNameChar(line[k])

IsLiteral(i, j) == i = j /\ line[i] # "$"
IsEscape(i, j) == j = i + 1 /\ line[i] = "$" /\ line[j] = "$"
IsBraced(i, j) == /\ j > i + 1 /\ line[i] = "$" /\ line[i + 1] = "open" /\ line[j] = "close"
                  /\ IsName(i + 2, j - 1)
IsPlain(i, j) == /\ j > i /\ line[i] = "$" /\ ~ isNum(line[i + 1])
                 /\ IsName(i + 1, j)
                 /\ j < Len(line) => ~ validVariableNameChar(line[j + 1])

IsToken(i, j) == IsLiteral(i, j) \/ IsEscape(i, j) \/ IsBraced(i, j) \/ IsPlain(i, j)

\* "text" is what the token from i to j stands for.
Means(i, j, text) == \/ IsLiteral(i, j) /\ text = <<line[i]>>
                     \/ IsEscape(i, j) /\ text = <<"$">>
                     \/ IsBraced(i, j) /\ text = mapping(SubSeq(line, i + 2, j - 1))
                     \/ IsPlain(i, j) /\ text = mapping(SubSeq(line, i + 1, j))

\* From 0 on, the positions in C are the ends of tokens that follow each other up to
\* the end of the line.
Tokenizes(C) == /\ 0 \in C
                /\ \A d \in C : d = Len(line) \/ \E j \in C : d < j /\ IsToken(d + 1, j)

\* The line is a sequence of tokens.
WellFormed == \E C \in SUBSET (0..Len(line)) : Tokenizes(C)

Done == marks[Len(marks)]

-----------------------------------------------------------------------------
(* Properties.                                                             *)

\* The line is cut into tokens, without a gap or an overlap, up to its end if
\* parseLine() succeeds, and the result is what they stand for one after the other: no
\* character is lost or read twice where a name ends, and a value is not
\* interpolated again although it may hold a "$" (parseLine, parseVariable).
Expansion ==
    /\ \A k \in 2..Len(marks) :
          LET from == marks[k - 1]
              to == marks[k]
          IN Means(from.to + 1, to.to, SubSeq(buffer, from.at + 1, to.at))
    /\ marks[1] = [to |-> 0, at |-> 0] /\ Done.at = Len(buffer)
    /\ result = "ok" => Done.to = Len(line)

\* A line is refused only at a "$" with which no token begins, and the scan runs
\* behind its end exactly at a "$" that is the last character
\* (parseInterpolationExpression, which does not look at the length).
Refusal ==
    LET i == Done.to + 1
    IN /\ result \in {"invalid", "panic"} =>
             i <= Len(line) /\ line[i] = "$" /\ ~ \E j \in i..Len(line) : IsToken(i, j)
       /\ result = "panic" => i = Len(line)
       /\ result = "invalid" => i < Len(line)

\* parseLine() succeeds with every line that is a sequence of tokens and with no
\* other one: never looking back costs no text that could have been read in another
\* way (parseLine, parseInterpolationExpression).
Verdict == /\ result = "ok" => WellFormed
           /\ result \in {"invalid", "panic"} => ~ WellFormed

\* A step reads a character, or returns from parseVariable() or calls it where it is,
\* or is the last one.
ScanStep == /\ result = "none"
            /\ pos' <= Len(line) + 2
            /\ \/ result' # "none"
               \/ pos < pos'
               \/ /\ pos' = pos
                  /\ <<fn, fn'>> \in {<<"parseInterpolationExpression", "parseVariable">>,
                                     <<"parseVariable", "parseLine">>}

\* The scan goes forward, although the character behind a name is looked at twice, so
\* there are at most three steps per character and parseLine() ends with every line
\* (parseVariable, which sets the position back, and parseLine).
ScanAdvances == [][ScanStep]_vars

-----------------------------------------------------------------------------
(* The strengthening of Expansion and Refusal that is inductive.           *)

\* What has been marked lies within the buffer.
MarksInBuffer == \A k \in DOMAIN marks : marks[k].at <= Len(buffer)

NamesFrom(i) == /\ i <= pos /\ pos <= Len(line) + 1
                /\ name = SubSeq(line, i, pos - 1)
                /\ \A k \in i..(pos - 1) : validVariableNameChar(line[k])

\* Where each function is when the first d characters are done with.
PlaceAt(d) ==
    /\ d <= Len(line)
    /\ fn = "parseLine" => pos = d + 1 \/ (pos = d + 2 /\ d = Len(line))
    /\ fn # "parseLine" => d + 1 <= Len(line) /\ line[d + 1] = "$"
    /\ fn = "parseInterpolationExpression" => pos = d + 2 /\ name = <<>>
    /\ fn = "parseVariable" => /\ d + 2 <= Len(line)
                               /\ ~ isNum(line[d + 2])
                               /\ validVariableNameChar(line[d + 2])
                               /\ NamesFrom(d + 2)
    /\ fn = "parseVariableWithBraces" => /\ d + 2 <= Len(line)
                                         /\ line[d + 2] = "open"
                                         /\ NamesFrom(d + 3)

Place == PlaceAt(Done.to)

ScanInv == TypeOK /\ MarksInBuffer /\ Place /\ Expansion /\ Refusal

\* For Verdict: the marks lie in the line, and every way to read it comes by the last
\* of them.
OnEveryWay == /\ \A k \in DOMAIN marks : marks[k].to <= Len(line)
              /\ \A C \in SUBSET (0..Len(line)) : Tokenizes(C) => Done.to \in C

-----------------------------------------------------------------------------
\* What parseConfig() says of a text that it takes for a number: "go-yaml will
\* convert it back into a string".
ConvertedBack == result = "ok" => value = buffer

=============================================================================
